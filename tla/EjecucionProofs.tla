--------------------------- MODULE EjecucionProofs ---------------------------
(* Proofs about Ejecucion: the addresses that the CPU gives to variables and  *)
(* arguments.                                                                 *)
EXTENDS EjecucionInv, ListasLemas

\* A page is a whole number of variables.
LEMMA Multiplos ==
  \E n \in Nat : MARCOS_SIZE = n * VARIABLE_SIZE
<1>1. MARCOS_SIZE \in Nat /\ VARIABLE_SIZE \in Nat \ {0} /\ MARCOS_SIZE % VARIABLE_SIZE = 0
  BY EjecucionAssumption, MarcosAssumption
<1>2. MARCOS_SIZE = (MARCOS_SIZE \div VARIABLE_SIZE) * VARIABLE_SIZE /\ MARCOS_SIZE \div VARIABLE_SIZE \in Nat
  BY <1>1, Division
<1> QED BY <1>2

\* The pages of the text, and of the stack after them.
LEMMA PaginasDelGuion ==
  ASSUME guion \in Guiones
  PROVE  /\ CantidadDePaginas \in Nat \ {0} /\ UltimaDelStack \in Nat
         /\ CantidadDePaginas < UltimaDelStack /\ PaginasTotales = UltimaDelStack + 1
         /\ guion.tamano <= CantidadDePaginas * MARCOS_SIZE
         /\ (CantidadDePaginas - 1) * MARCOS_SIZE < guion.tamano
<1> DEFINE t == guion.tamano
           n == t + MARCOS_SIZE - 1
           q == n \div MARCOS_SIZE
           r == n % MARCOS_SIZE
<1>1. t \in Nat \ {0} /\ MARCOS_SIZE \in Nat \ {0} /\ STACK_SIZE \in Nat \ {0}
  BY GuionesAssumption, MarcosAssumption, EjecucionAssumption
<1>2. n \in Nat /\ CantidadDePaginas = q
  BY <1>1 DEF CantidadDePaginas
<1>3. q \in Nat /\ r \in 0 .. MARCOS_SIZE - 1 /\ n = q * MARCOS_SIZE + r
  BY <1>1, <1>2, Division
<1>4. q # 0
  <2> SUFFICES ASSUME q = 0 PROVE FALSE
    OBVIOUS
  <2>1. q * MARCOS_SIZE = 0
    BY <1>1
  <2> HIDE DEF q, r
  <2> QED BY <1>1, <1>3, <2>1
<1>5. (q - 1) * MARCOS_SIZE = q * MARCOS_SIZE - MARCOS_SIZE /\ q * MARCOS_SIZE \in Nat
  <2> HIDE DEF q
  <2> QED BY <1>1, <1>3, Z3
<1> HIDE DEF q, r
<1>6. t <= q * MARCOS_SIZE /\ (q - 1) * MARCOS_SIZE < t
  <2> DEFINE x == q * MARCOS_SIZE
             y == (q - 1) * MARCOS_SIZE
  <2>1. y = x - MARCOS_SIZE /\ x \in Nat /\ t + MARCOS_SIZE - 1 = x + r
    BY <1>3, <1>5
  <2> HIDE DEF x, y
  <2>2. t <= x /\ y < t
    BY <2>1, <1>1, <1>3
  <2> QED BY <2>2 DEF x, y
<1> QED BY <1>1, <1>2, <1>3, <1>4, <1>6 DEF UltimaDelStack, PaginasTotales

\* The place that follows one.
LEMMA ProximaBien ==
  ASSUME guion \in Guiones, NEW d \in Lugares, EnPagina(d)
  PROVE  /\ ProximaDireccion(d) \in Lugares /\ d # NULO /\ ProximaDireccion(d) # NULO
         /\ Puntero(d) + VARIABLE_SIZE <= Puntero(ProximaDireccion(d))
         /\ ~Desborda(ProximaDireccion(d)) => EnPagina(ProximaDireccion(d))
<1> DEFINE M == MARCOS_SIZE
           V == VARIABLE_SIZE
           e == ProximaDireccion(d)
<1>1. M \in Nat \ {0} /\ V \in 1 .. M
  BY MarcosAssumption, EjecucionAssumption
<1>2. PICK n \in Nat : M = n * V
  BY Multiplos
<1>3. PICK k \in Nat : d.off = k * V
  BY <1>1 DEF EnPagina
<1>4. /\ d.pag \in Nat /\ d.off \in Nat /\ d.off + V <= M
      /\ CantidadDePaginas \in Nat /\ UltimaDelStack \in Nat
      /\ d.pag >= CantidadDePaginas + 1 /\ d.pag <= UltimaDelStack
  BY PaginasDelGuion DEF EnPagina, Lugares
<1>5. d # NULO
  BY <1>4 DEF NULO
<1>6. CASE d.off + V >= M
  <2>1. e = [pag |-> d.pag + 1, off |-> 0]
    BY <1>5, <1>6 DEF ProximaDireccion
  <2>2. e.pag = d.pag + 1 /\ e.off = 0 /\ e \in Lugares /\ e # NULO
    BY <2>1, <1>4 DEF Lugares, NULO
  <2>3. (d.pag + 1) * M = d.pag * M + M /\ d.pag * M \in Nat
    BY <1>1, <1>4, Productos
  <2>4. Puntero(e) = d.pag * M + M /\ Puntero(d) = d.pag * M + d.off
    BY <2>2, <2>3, <1>1 DEF Puntero
  <2>5. Puntero(d) + V <= Puntero(e)
    BY <2>4, <2>3, <1>4, <1>1
  <2>6. e.off = 0 * V /\ 0 \in 0..M /\ e.off + V <= M
    BY <2>2, <1>1
  <2>7. ~Desborda(e) => EnPagina(e)
    BY <2>2, <2>6, <1>4 DEF EnPagina, Desborda
  <2> QED BY <2>2, <2>5, <2>7, <1>5
<1>7. CASE d.off + V < M
  <2>1. e = [pag |-> d.pag, off |-> d.off + V]
    BY <1>5, <1>7, <1>1, <1>4 DEF ProximaDireccion
  <2>2. e.pag = d.pag /\ e.off = d.off + V /\ e \in Lugares /\ e # NULO
    BY <2>1, <1>4, <1>1 DEF Lugares, NULO
  <2>3. d.pag * M \in Nat
    BY <1>1, <1>4, Productos
  <2>4. Puntero(d) + V <= Puntero(e)
    BY <2>2, <2>3, <1>4, <1>1 DEF Puntero
  <2>5. (k + 1) * V = k * V + V /\ k * V \in Nat
    BY <1>1, <1>3, Productos
  <2>6. k + 1 < n
    BY <2>5, <1>1, <1>2, <1>3, <1>7, Productos
  <2>7. (k + 1) * V + V <= n * V
    BY <2>6, <1>1, <1>2, <1>3, Productos
  <2>8. e.off = (k + 1) * V /\ e.off + V <= M
    BY <2>7, <2>5, <2>2, <1>2, <1>3
  <2>9. k + 1 \in 0..M
    <3>1. k + 1 <= (k + 1) * V
      BY <1>1, Z3
    <3> QED BY <3>1, <2>8, <1>1
  <2>10. EnPagina(e)
    BY <2>2, <2>8, <2>9, <1>4 DEF EnPagina
  <2> QED BY <2>2, <2>4, <2>10, <1>5
<1> QED BY <1>6, <1>7, <1>1, <1>4

\* What is alive in a context: its arguments and then its variables.
LEMMA GrupoTipo ==
  ASSUME NEW U, NEW c \in Contextos(U)
  PROVE  /\ Grupo(c) \in Seq(Elem(U)) /\ Len(Grupo(c)) = Len(c.args) + Len(c.vars)
         /\ c.args \in Seq(Elem(U)) /\ c.vars \in Seq(Elem(U))
         /\ c.args \in Seq(Args(U)) /\ c.vars \in Seq(Vars(U))
         /\ Len(c.args) \in Nat /\ Len(c.vars) \in Nat
         /\ \A i \in 1..Len(c.args) + Len(c.vars) :
              Grupo(c)[i] = IF i <= Len(c.args) THEN c.args[i] ELSE c.vars[i - Len(c.args)]
<1>1. c.args \in Seq(Args(U)) /\ c.vars \in Seq(Vars(U))
  BY DEF Contextos
<1>2. c.args \in Seq(Elem(U)) /\ c.vars \in Seq(Elem(U))
  BY <1>1 DEF Elem
<1> QED BY <1>1, <1>2, ConcatProperties, LenProperties DEF Grupo

\* What is alive in a stack with one context more.
LEMMA VivasAgrega ==
  ASSUME NEW U, NEW s \in Seq(Contextos(U)), NEW c \in Contextos(U)
  PROVE  /\ VivasDe(s) \in Seq(Elem(U))
         /\ VivasDe(Append(s, c)) = VivasDe(s) \o Grupo(c)
<1> DEFINE G(t) == [i \in DOMAIN t |-> t[i].args \o t[i].vars]
           Q == Seq(Elem(U))
           r == Append(s, c)
           x == Append(G(s), Grupo(c))
<1>1. \A d \in Contextos(U) : d.args \o d.vars \in Q
  BY GrupoTipo DEF Grupo
<1>2. ASSUME NEW t \in Seq(Contextos(U))
      PROVE  /\ G(t) \in Seq(Q) /\ Len(G(t)) = Len(t)
             /\ \A i \in 1..Len(t) : G(t)[i] = t[i].args \o t[i].vars
  <2>1. Len(t) \in Nat /\ DOMAIN t = 1..Len(t) /\ \A i \in 1..Len(t) : t[i] \in Contextos(U)
    BY LenProperties
  <2>2. \A i \in 1..Len(t) : t[i].args \o t[i].vars \in Q
    BY <2>1, <1>1
  <2>3. G(t) \in [1..Len(t) -> Q]
    <3> HIDE DEF Q
    <3> QED BY <2>1, <2>2
  <2>4. G(t) \in Seq(Q) /\ Len(G(t)) = Len(t)
    <3> HIDE DEF G, Q
    <3> QED BY <2>1, <2>3, FuncionLista
  <2> QED BY <2>1, <2>4
<1>3. /\ r \in Seq(Contextos(U)) /\ Len(r) = Len(s) + 1 /\ r[Len(s) + 1] = c /\ Len(s) \in Nat
      /\ \A i \in 1..Len(s) : r[i] = s[i]
  BY AgregaFrontal, LenProperties
<1>4. Grupo(c) \in Q /\ Grupo(c) = c.args \o c.vars
  BY GrupoTipo DEF Grupo
<1>5. G(s) \in Seq(Q) /\ G(r) \in Seq(Q) /\ Len(G(s)) = Len(s) /\ Len(G(r)) = Len(s) + 1
  BY <1>2, <1>3
<1>6. /\ x \in Seq(Q) /\ Len(x) = Len(s) + 1 /\ x[Len(s) + 1] = Grupo(c)
      /\ \A i \in 1..Len(s) : x[i] = G(s)[i]
  <2> DEFINE g == G(s)
             y == Grupo(c)
  <2>1. g \in Seq(Q) /\ y \in Q /\ x = Append(g, y)
    BY <1>4, <1>5
  <2> HIDE DEF G, Q, x, g, y
  <2>2. /\ x \in Seq(Q) /\ Len(x) = Len(g) + 1 /\ x[Len(g) + 1] = y
        /\ \A i \in 1..Len(g) : x[i] = g[i]
    BY <2>1, AgregaFrontal
  <2> QED BY <2>2, <1>5 DEF g, y
<1>7. ASSUME NEW i \in 1..Len(s) + 1 PROVE G(r)[i] = x[i]
  <2>0. i \in 1..Len(r) /\ (i = Len(s) + 1 \/ i \in 1..Len(s))
    BY <1>3
  <2>1. G(r)[i] = r[i].args \o r[i].vars
    BY <2>0, <1>2, <1>3
  <2>2. i \in 1..Len(s) => G(s)[i] = s[i].args \o s[i].vars
    BY <1>2
  <2> HIDE DEF G, x, r
  <2> QED BY <2>0, <2>1, <2>2, <1>3, <1>4, <1>6
<1>8. G(r) = x
  <2> HIDE DEF G, x, r, Q
  <2>1. Len(G(r)) = Len(x) /\ \A i \in 1..Len(G(r)) : G(r)[i] = x[i]
    BY <1>5, <1>6, <1>7
  <2> QED BY <1>5, <1>6, <2>1, SeqEqual
<1>9. FlattenSeq(G(s)) \in Q /\ FlattenSeq(x) = FlattenSeq(G(s)) \o Grupo(c)
  <2> HIDE DEF G
  <2> QED BY <1>4, <1>5, Aplana
<1>10. VivasDe(s) = FlattenSeq(G(s)) /\ VivasDe(r) = FlattenSeq(G(r))
  BY DEF VivasDe
<1> QED BY <1>8, <1>9, <1>10

\* Only the addresses tell whether what is alive is in order.
LEMMA OrdenPorDirs ==
  ASSUME NEW T, NEW v \in Seq(T), NEW w \in Seq(T), MismasDirs(v, w), EnOrden(v)
  PROVE  EnOrden(w)
<1>1. DOMAIN v = 1..Len(v) /\ DOMAIN w = 1..Len(v) /\ Len(v) \in Nat
  BY LenProperties DEF MismasDirs
<1>2. ASSUME NEW i \in 1..Len(v)
      PROVE /\ EnPagina(w[i].dir)
            /\ i > 1 => Puntero(w[i - 1].dir) + VARIABLE_SIZE <= Puntero(w[i].dir)
  <2>1. i > 1 => i - 1 \in 1..Len(v)
    BY <1>1
  <2> QED BY <1>1, <2>1 DEF MismasDirs, EnOrden
<1> QED BY <1>1, <1>2 DEF EnOrden

\* Lists at the same addresses, after the same list.
LEMMA DirsJuntas ==
  ASSUME NEW T, NEW u \in Seq(T), NEW v \in Seq(T), NEW w \in Seq(T), MismasDirs(v, w)
  PROVE  MismasDirs(u \o v, u \o w)
<1> DEFINE a == u \o v
           b == u \o w
           m == Len(u)
           n == Len(v)
<1>1. m \in Nat /\ n \in Nat /\ Len(w) = n /\ \A i \in 1..n : v[i].dir = w[i].dir
  BY LenProperties DEF MismasDirs
<1>2. /\ Len(a) = m + n /\ Len(b) = m + n
      /\ \A i \in 1..m + n : a[i] = IF i <= m THEN u[i] ELSE v[i - m]
      /\ \A i \in 1..m + n : b[i] = IF i <= m THEN u[i] ELSE w[i - m]
  <2>1. /\ Len(u \o v) = Len(u) + Len(v)
        /\ \A i \in 1..Len(u) + Len(v) : (u \o v)[i] = IF i <= Len(u) THEN u[i] ELSE v[i - Len(u)]
    BY ONLY u \in Seq(T), v \in Seq(T), ConcatProperties
  <2>2. /\ Len(u \o w) = Len(u) + Len(w)
        /\ \A i \in 1..Len(u) + Len(w) : (u \o w)[i] = IF i <= Len(u) THEN u[i] ELSE w[i - Len(u)]
    BY ONLY u \in Seq(T), w \in Seq(T), ConcatProperties
  <2>3. Len(w) = n
    BY <1>1
  <2> QED BY <2>1, <2>2, <2>3
<1> HIDE DEF a, b, m, n
<1>3. ASSUME NEW i \in 1..m + n PROVE a[i].dir = b[i].dir
  <2>1. i <= m \/ i - m \in 1..n
    BY <1>1
  <2> QED BY <2>1, <1>1, <1>2
<1> QED BY <1>2, <1>3 DEF MismasDirs, a, b

\* The beginning of what is in order is in order.
LEMMA OrdenDelComienzo ==
  ASSUME NEW T, NEW v \in Seq(T), NEW w \in Seq(T), EnOrden(v \o w)
  PROVE  EnOrden(v)
<1> DEFINE r == v \o w
<1>1. /\ Len(v) \in Nat /\ Len(w) \in Nat /\ DOMAIN v = 1..Len(v) /\ DOMAIN r = 1..Len(v) + Len(w)
      /\ \A i \in 1..Len(v) + Len(w) : r[i] = IF i <= Len(v) THEN v[i] ELSE w[i - Len(v)]
  BY ConcatProperties, LenProperties
<1> HIDE DEF r
<1>2. ASSUME NEW i \in 1..Len(v)
      PROVE /\ EnPagina(v[i].dir)
            /\ i > 1 => Puntero(v[i - 1].dir) + VARIABLE_SIZE <= Puntero(v[i].dir)
  <2>1. i \in DOMAIN r /\ r[i] = v[i]
    BY <1>1
  <2>2. i > 1 => r[i - 1] = v[i - 1]
    <3>1. i > 1 => i - 1 \in 1..Len(v) + Len(w) /\ i - 1 <= Len(v)
      BY <1>1
    <3> QED BY <1>1, <3>1
  <2>3. EnOrden(r)
    BY DEF r
  <2> QED BY <2>1, <2>2, <2>3 DEF EnOrden
<1> QED BY <1>1, <1>2 DEF EnOrden

\* One more at the end, after the last one.
LEMMA OrdenCrece ==
  ASSUME NEW T, NEW v \in Seq(T), NEW e \in T, EnOrden(v), EnPagina(e.dir),
         v # <<>> => Puntero(Last(v).dir) + VARIABLE_SIZE <= Puntero(e.dir)
  PROVE  EnOrden(v \o <<e>>)
<1> DEFINE r == v \o <<e>>
           n == Len(v)
<1>1. /\ n \in Nat /\ DOMAIN v = 1..n /\ r \in Seq(T) /\ Len(r) = n + 1 /\ r[n + 1] = e
      /\ \A i \in 1..n : r[i] = v[i]
  BY AgregaFrontal, LenProperties
<1>2. DOMAIN r = 1..n + 1
  BY <1>1, LenProperties
<1>3. n # 0 => v # <<>> /\ Last(v) = v[n]
  BY EmptySeq DEF Last
<1> HIDE DEF r, n
<1>4. ASSUME NEW i \in 1..n + 1
      PROVE /\ EnPagina(r[i].dir)
            /\ i > 1 => Puntero(r[i - 1].dir) + VARIABLE_SIZE <= Puntero(r[i].dir)
  <2>1. CASE i \in 1..n
    <3>1. r[i] = v[i] /\ i \in DOMAIN v
      BY <1>1, <2>1
    <3>2. i > 1 => r[i - 1] = v[i - 1]
      <4>1. i > 1 => i - 1 \in 1..n
        BY <1>1, <2>1
      <4> QED BY <1>1, <4>1
    <3> QED BY <3>1, <3>2 DEF EnOrden
  <2>2. CASE i = n + 1
    <3>1. r[i] = e
      BY <1>1, <2>2
    <3>2. i > 1 => n # 0 /\ r[i - 1] = v[n]
      <4>1. i - 1 = n /\ (i > 1 => n \in 1..n /\ n # 0)
        BY <1>1, <2>2
      <4> QED BY <1>1, <4>1
    <3> QED BY <1>3, <3>1, <3>2
  <2> QED BY <1>1, <2>1, <2>2
<1> QED BY <1>2, <1>4 DEF EnOrden, r

\* The last one that is alive, if the last context has any.
LEMMA UltimaViva ==
  ASSUME NEW U, NEW s \in Seq(Contextos(U)), NEW c \in Contextos(U)
  PROVE  LET v == VivasDe(Append(s, c))
         IN  /\ c.vars # <<>> => v # <<>> /\ Last(v) = Last(c.vars) /\ UltimaVariable(c) = Last(c.vars).dir
                                 /\ Last(v) \in Elem(U)
             /\ c.vars = <<>> /\ c.args # <<>> => v # <<>> /\ Last(v) = Last(c.args)
             /\ c.vars = <<>> /\ c.args = <<>> => v = VivasDe(s)
             /\ c.vars = <<>> => UltimaVariable(c) = NULO
<1> DEFINE E == Elem(U)
           u == VivasDe(s)
           g == Grupo(c)
           v == VivasDe(Append(s, c))
           m == Len(u)
           a == Len(c.args)
           b == Len(c.vars)
<1>1. /\ u \in Seq(E) /\ g \in Seq(E) /\ v = u \o g /\ Len(g) = a + b
      /\ \A i \in 1..a + b : g[i] = IF i <= a THEN c.args[i] ELSE c.vars[i - a]
      /\ a \in Nat /\ b \in Nat /\ DOMAIN c.vars = 1..b
      /\ c.args \in Seq(E) /\ c.vars \in Seq(E)
  <2>1. u \in Seq(E) /\ v = u \o g
    BY VivasAgrega
  <2>2. /\ g \in Seq(E) /\ c.args \in Seq(E) /\ c.vars \in Seq(E) /\ Len(g) = a + b
        /\ a \in Nat /\ b \in Nat
        /\ \A i \in 1..a + b : g[i] = IF i <= a THEN c.args[i] ELSE c.vars[i - a]
    BY GrupoTipo
  <2> HIDE DEF u, v, g, E
  <2>3. DOMAIN c.vars = 1..b
    BY <2>2, LenProperties
  <2> QED BY <2>1, <2>2, <2>3
<1>2. /\ m \in Nat /\ v \in Seq(E) /\ Len(v) = m + (a + b)
      /\ \A i \in 1..m + (a + b) : v[i] = IF i <= m THEN u[i] ELSE g[i - m]
  <2> HIDE DEF u, v, g, E
  <2>0. u \in Seq(E) /\ g \in Seq(E) /\ v = u \o g
    BY <1>1
  <2>1. /\ v \in Seq(E) /\ Len(v) = Len(u) + Len(g)
        /\ \A i \in 1..Len(u) + Len(g) : v[i] = IF i <= Len(u) THEN u[i] ELSE g[i - Len(u)]
    BY ONLY <2>0, ConcatProperties
  <2>2. Len(u) \in Nat
    BY <1>1, LenProperties
  <2>3. Len(g) = a + b
    BY <1>1
  <2> QED BY <2>1, <2>2, <2>3
<1>3. /\ c.args = <<>> <=> a = 0
      /\ c.vars = <<>> <=> b = 0
  BY <1>1, EmptySeq
<1>4. Last(v) = v[m + (a + b)] /\ Last(c.args) = c.args[a] /\ Last(c.vars) = c.vars[b]
  BY <1>2 DEF Last
<1>5. a + b # 0 => v # <<>> /\ Last(v) = g[a + b]
  <2> HIDE DEF u, v, g, m, a, b, E
  <2> SUFFICES ASSUME a + b # 0 PROVE v # <<>> /\ Last(v) = g[a + b]
    OBVIOUS
  <2>1. Len(v) # 0
    BY <1>1, <1>2
  <2>2. v # <<>>
    BY <2>1, EmptySeq
  <2> DEFINE k == m + (a + b)
  <2>3. k \in 1..m + (a + b) /\ ~(k <= m) /\ k - m = a + b
    BY <1>1, <1>2
  <2>4. v[k] = g[k - m]
    BY <1>2, <2>3
  <2> QED BY <2>2, <2>3, <2>4, <1>4
<1>6. b # 0 => g[a + b] = c.vars[b] /\ b \in DOMAIN c.vars
  <2> HIDE DEF u, v, g, m, a, b, E
  <2> SUFFICES ASSUME b # 0 PROVE g[a + b] = c.vars[b] /\ b \in DOMAIN c.vars
    OBVIOUS
  <2>1. a + b \in 1..a + b /\ ~(a + b <= a) /\ (a + b) - a = b
    BY <1>1
  <2> QED BY <2>1, <1>1
<1>7. b = 0 /\ a # 0 => g[a + b] = c.args[a]
  <2> HIDE DEF u, v, g, m, a, b, E
  <2> SUFFICES ASSUME b = 0, a # 0 PROVE g[a + b] = c.args[a]
    OBVIOUS
  <2>1. a + b \in 1..a + b /\ a + b <= a /\ a + b = a
    BY <1>1
  <2> QED BY <2>1, <1>1
<1>8. a = 0 /\ b = 0 => v = u
  <2> SUFFICES ASSUME a = 0, b = 0 PROVE v = u
    OBVIOUS
  <2>1. g = <<>>
    <3> HIDE DEF u, v, g, m, a, b, E
    <3> QED BY <1>1, EmptySeq
  <2> QED BY <2>1, <1>1, ConcatEmptySeq
<1>9. b # 0 => v[m + (a + b)] \in E
  <2> HIDE DEF u, v, g, m, a, b, E
  <2> SUFFICES ASSUME b # 0 PROVE v[m + (a + b)] \in E
    OBVIOUS
  <2>1. m + (a + b) \in 1..Len(v)
    BY <1>1, <1>2
  <2> QED BY <2>1, <1>2, ElementOfSeq
<1>10. /\ b # 0 => UltimaVariable(c) = c.vars[b].dir
       /\ b = 0 => UltimaVariable(c) = NULO
  <2>1. b = 0 => b \notin DOMAIN c.vars
    <3> HIDE DEF b
    <3> QED BY <1>1
  <2> QED BY <1>6, <2>1 DEF UltimaVariable, DireccionDe
<1> HIDE DEF a, b, g, u, v, m, E
<1>11. b # 0 => a + b # 0
  BY <1>1
<1>12. a # 0 => a + b # 0
  BY <1>1
<1> QED BY <1>3, <1>4, <1>5, <1>6, <1>7, <1>8, <1>9, <1>10, <1>11, <1>12 DEF u, v, E

\* A stack without its last context.
LEMMA PilaSinUltimo ==
  ASSUME NEW U, NEW s, PilaBien(U, s), s # <<>>
  PROVE  /\ PilaBien(U, Front(s)) /\ Last(s) \in Contextos(U)
         /\ VivasDe(s) = VivasDe(Front(s)) \o Grupo(Last(s))
<1> DEFINE f == Front(s)
           c == Last(s)
<1>1. /\ f \in Seq(Contextos(U)) /\ c \in Contextos(U) /\ s = Append(f, c)
      /\ Len(s) \in Nat \ {0} /\ Len(f) = Len(s) - 1 /\ \A i \in 1..Len(s) - 1 : f[i] = s[i]
      /\ s \in Seq(Contextos(U))
  BY ListaFrontal DEF PilaBien
<1> HIDE DEF f, c
<1>2. /\ VivasDe(f) \in Seq(Elem(U)) /\ VivasDe(s) = VivasDe(f) \o Grupo(c)
      /\ Grupo(c) \in Seq(Elem(U))
  BY <1>1, VivasAgrega, GrupoTipo
<1>3. EnOrden(VivasDe(f))
  BY <1>2, OrdenDelComienzo DEF PilaBien
<1>4. DOMAIN f = 1..Len(s) - 1 /\ DOMAIN s = 1..Len(s)
  BY <1>1, LenProperties
<1>5. ArgumentosTrasVariables(f)
  <2> SUFFICES ASSUME NEW i \in 1..Len(s) - 1, f[i].args # <<>>
               PROVE  i > 1 /\ f[i - 1].vars # <<>>
    BY <1>4 DEF ArgumentosTrasVariables
  <2>1. i \in DOMAIN s /\ s[i].args # <<>>
    BY <1>1, <1>4
  <2>2. i > 1 /\ s[i - 1].vars # <<>>
    BY <2>1 DEF PilaBien, ArgumentosTrasVariables
  <2>3. i - 1 \in 1..Len(s) - 1
    BY <2>2, <1>1
  <2> QED BY <2>2, <2>3, <1>1
<1>6. f # <<>> => f[1].retVar = NULO
  <2> SUFFICES ASSUME f # <<>> PROVE f[1].retVar = NULO
    OBVIOUS
  <2>1. Len(f) # 0
    BY <1>1, EmptySeq
  <2>2. 1 \in 1..Len(s) - 1
    BY <2>1, <1>1
  <2> QED BY <2>2, <1>1 DEF PilaBien
<1> QED BY <1>1, <1>2, <1>3, <1>5, <1>6 DEF PilaBien, f, c

\* The last context becomes another one.
LEMMA PilaConOtro ==
  ASSUME NEW U, NEW s, PilaBien(U, s), s # <<>>, NEW c \in Contextos(U),
         c.args # <<>> => Last(s).args # <<>>, c.retVar = Last(s).retVar,
         EnOrden(VivasDe(Front(s)) \o Grupo(c))
  PROVE  PilaBien(U, Append(Front(s), c))
<1> DEFINE f == Front(s)
           r == Append(f, c)
           n == Len(s)
<1>1. /\ f \in Seq(Contextos(U)) /\ n \in Nat \ {0} /\ Len(f) = n - 1
      /\ \A i \in 1..n - 1 : f[i] = s[i]
      /\ s \in Seq(Contextos(U)) /\ Last(s) = s[n]
  BY ListaFrontal DEF PilaBien, Last
<1>2. /\ r \in Seq(Contextos(U)) /\ Len(r) = Len(f) + 1 /\ r[Len(f) + 1] = c
      /\ \A i \in 1..Len(f) : r[i] = f[i]
  BY <1>1, AgregaFrontal
<1>3. EnOrden(VivasDe(r))
  BY <1>1, VivasAgrega
<1> HIDE DEF f, r, n
<1>4. /\ Len(r) = n /\ r[n] = c /\ \A i \in 1..n - 1 : r[i] = s[i]
      /\ DOMAIN r = 1..n /\ DOMAIN s = 1..n
  BY <1>1, <1>2, LenProperties DEF n
<1>5. ArgumentosTrasVariables(r)
  <2> SUFFICES ASSUME NEW i \in 1..n, r[i].args # <<>> PROVE i > 1 /\ r[i - 1].vars # <<>>
    BY <1>4 DEF ArgumentosTrasVariables
  <2>0. i = n \/ i \in 1..n - 1
    BY <1>1
  <2>1. i \in DOMAIN s /\ s[i].args # <<>>
    BY <2>0, <1>1, <1>4
  <2>2. i > 1 /\ s[i - 1].vars # <<>>
    BY <2>1 DEF PilaBien, ArgumentosTrasVariables
  <2>3. i - 1 \in 1..n - 1
    BY <2>2, <1>1
  <2> QED BY <2>2, <2>3, <1>4
<1>6. r[1].retVar = NULO
  <2>1. 1 = n \/ 1 \in 1..n - 1
    BY <1>1
  <2> QED BY <2>1, <1>1, <1>4 DEF PilaBien
<1> QED BY <1>2, <1>3, <1>5, <1>6 DEF PilaBien, r, f

\* A context with other values has at the same addresses what is alive in it.
LEMMA MismoGrupo ==
  ASSUME NEW U, NEW c \in Contextos(U), NEW d \in Contextos(U), MismoContexto(c, d)
  PROVE  /\ MismasDirs(Grupo(c), Grupo(d))
         /\ d.args # <<>> => c.args # <<>>
<1> DEFINE g == Grupo(c)
           h == Grupo(d)
           a == Len(c.args)
           b == Len(c.vars)
<1>1. /\ a \in Nat /\ b \in Nat /\ Len(d.args) = a /\ Len(d.vars) = b
      /\ \A i \in 1..a : c.args[i].dir = d.args[i].dir
      /\ \A i \in 1..b : c.vars[i].dir = d.vars[i].dir
  BY GrupoTipo DEF MismoContexto, MismasDirs
<1>2. /\ Len(g) = a + b /\ Len(h) = a + b
      /\ \A i \in 1..a + b : g[i] = IF i <= a THEN c.args[i] ELSE c.vars[i - a]
      /\ \A i \in 1..a + b : h[i] = IF i <= a THEN d.args[i] ELSE d.vars[i - a]
  <2>1. /\ Len(g) = a + b
        /\ \A i \in 1..a + b : g[i] = IF i <= a THEN c.args[i] ELSE c.vars[i - a]
    BY GrupoTipo
  <2>2. /\ Len(h) = Len(d.args) + Len(d.vars)
        /\ \A i \in 1..Len(d.args) + Len(d.vars) :
             h[i] = IF i <= Len(d.args) THEN d.args[i] ELSE d.vars[i - Len(d.args)]
    BY GrupoTipo
  <2> QED BY <2>1, <2>2, <1>1
<1>3. d.args # <<>> => c.args # <<>>
  <2>1. c.args \in Seq(Elem(U)) /\ d.args \in Seq(Elem(U))
    BY GrupoTipo
  <2> QED BY <1>1, <2>1, EmptySeq
<1> HIDE DEF g, h, a, b
<1>4. ASSUME NEW i \in 1..a + b PROVE g[i].dir = h[i].dir
  <2>1. IF i <= a THEN i \in 1..a ELSE i - a \in 1..b
    BY <1>1
  <2> QED BY <2>1, <1>1, <1>2
<1> QED BY <1>2, <1>3, <1>4 DEF MismasDirs, g, h

\* asignar: a context of a good stack is given another value.
LEMMA PilaConValor ==
  ASSUME NEW U, NEW s, PilaBien(U, s), s # <<>>, NEW c \in Contextos(U), MismoContexto(Last(s), c)
  PROVE  PilaBien(U, Append(Front(s), c))
<1>1. /\ Last(s) \in Contextos(U) /\ VivasDe(s) = VivasDe(Front(s)) \o Grupo(Last(s))
      /\ Front(s) \in Seq(Contextos(U)) /\ EnOrden(VivasDe(s))
  BY PilaSinUltimo DEF PilaBien
<1> DEFINE u == VivasDe(Front(s))
           g == Grupo(Last(s))
           h == Grupo(c)
           E == Elem(U)
<1>2. u \in Seq(E) /\ g \in Seq(E) /\ h \in Seq(E) /\ MismasDirs(g, h)
  BY <1>1, VivasAgrega, GrupoTipo, MismoGrupo
<1>3. EnOrden(u \o h)
  <2> HIDE DEF u, g, h, E
  <2>1. MismasDirs(u \o g, u \o h) /\ u \o g \in Seq(E) /\ u \o h \in Seq(E)
    BY <1>2, DirsJuntas, ConcatProperties
  <2>2. EnOrden(u \o g)
    BY <1>1 DEF u, g
  <2> QED BY <2>1, <2>2, OrdenPorDirs
<1>4. c.args # <<>> => Last(s).args # <<>>
  BY <1>1, MismoGrupo
<1>5. c.retVar = Last(s).retVar
  BY DEF MismoContexto
<1> QED BY <1>3, <1>4, <1>5, PilaConOtro

\* A function is called: a context without variables, with the argument that
\* follows the last variable of the one that calls, or with none.
LEMMA PilaConLlamada ==
  ASSUME guion \in Guiones, NEW U, NEW s, PilaBien(U, s), s # <<>>, NEW c \in Contextos(U),
         c.vars = <<>>, c.args = <<>> \/ ArgumentoTras(Last(s), c)
  PROVE  PilaBien(U, Append(s, c))
<1> DEFINE r == Append(s, c)
           n == Len(s)
           f == Front(s)
           t == Last(s)
           v == VivasDe(s)
           E == Elem(U)
<1>1. /\ s \in Seq(Contextos(U)) /\ n \in Nat \ {0} /\ t = s[n]
      /\ f \in Seq(Contextos(U)) /\ t \in Contextos(U) /\ s = Append(f, t)
      /\ DOMAIN s = 1..n
  <2>1. s \in Seq(Contextos(U))
    BY DEF PilaBien
  <2> QED BY <2>1, ListaFrontal, LenProperties DEF Last
<1>2. r \in Seq(Contextos(U)) /\ Len(r) = n + 1 /\ r[n + 1] = c /\ \A i \in 1..n : r[i] = s[i]
  BY <1>1, AgregaFrontal
<1>3. v \in Seq(E) /\ VivasDe(r) = v \o Grupo(c) /\ EnOrden(v)
  BY <1>1, VivasAgrega DEF PilaBien
<1>4. EnOrden(VivasDe(r))
  <2>1. CASE c.args = <<>>
    <3>1. VivasDe(r) = v
      BY <1>1, <2>1, UltimaViva
    <3> QED BY <1>3, <3>1
  <2>2. CASE ArgumentoTras(t, c)
    <3> DEFINE a == c.args[1]
    <3>1. Grupo(c) = <<a>> /\ a \in E /\ a \in Args(U)
      <4>1. c.args \in Seq(Args(U)) /\ c.args \in Seq(E) /\ Len(c.args) = 1
        BY <2>2, GrupoTipo DEF ArgumentoTras
      <4>2. c.args = <<a>>
        BY <4>1
      <4>3. Grupo(c) = c.args
        BY <4>1, ConcatEmptySeq DEF Grupo
      <4>4. a \in Args(U)
        BY <4>1
      <4> QED BY <4>2, <4>3, <4>4 DEF Elem
    <3>2. /\ v # <<>> /\ UltimaVariable(t) = Last(v).dir /\ Last(v) \in E
      <4> DEFINE w == VivasDe(Append(f, t))
      <4>1. t.vars # <<>>
        BY <2>2 DEF ArgumentoTras
      <4>2. w # <<>> /\ UltimaVariable(t) = Last(t.vars).dir /\ Last(w) \in E /\ Last(w) = Last(t.vars)
        BY <1>1, <4>1, UltimaViva
      <4>3. w = v
        BY <1>1
      <4> QED BY <4>2, <4>3
    <3> DEFINE d == Last(v).dir
    <3>3. EnPagina(d) /\ d \in Lugares
      <4>1. Len(v) \in DOMAIN v /\ Last(v) = v[Len(v)]
        BY <1>3, <3>2, EmptySeq, LenProperties DEF Last
      <4> QED BY <4>1, <1>3, <3>2 DEF EnOrden, Elem, Vars, Args
    <3>4. a.dir = ProximaDireccion(d) /\ ~Desborda(a.dir)
      BY <2>2, <3>2 DEF ArgumentoTras
    <3>5. Puntero(d) + VARIABLE_SIZE <= Puntero(a.dir) /\ EnPagina(a.dir)
      <4> HIDE DEF d, a
      <4> QED BY <3>3, <3>4, ProximaBien
    <3> HIDE DEF a, v, r, E
    <3>6. EnOrden(v \o <<a>>)
      BY <1>3, <3>1, <3>5, OrdenCrece DEF d
    <3> QED BY <3>6, <3>1, <1>3
  <2> QED BY <2>1, <2>2
<1>5. ArgumentosTrasVariables(r)
  <2> SUFFICES ASSUME NEW i \in DOMAIN r, r[i].args # <<>> PROVE i > 1 /\ r[i - 1].vars # <<>>
    BY DEF ArgumentosTrasVariables
  <2> HIDE DEF r, n
  <2>0. i = n + 1 \/ i \in 1..n
    BY <1>1, <1>2, LenProperties
  <2>1. CASE i = n + 1
    <3>1. ArgumentoTras(t, c)
      BY <1>2, <2>1
    <3>2. i > 1 /\ i - 1 = n /\ n \in 1..n
      BY <1>1, <2>1
    <3> QED BY <3>1, <3>2, <1>1, <1>2 DEF ArgumentoTras
  <2>2. CASE i \in 1..n
    <3>1. s[i].args # <<>> /\ i \in DOMAIN s
      BY <1>1, <1>2, <2>2
    <3>2. i > 1 /\ s[i - 1].vars # <<>>
      BY <3>1 DEF PilaBien, ArgumentosTrasVariables
    <3>3. i - 1 \in 1..n
      BY <1>1, <2>2, <3>2
    <3> QED BY <3>2, <3>3, <1>2
  <2> QED BY <2>0, <2>1, <2>2
<1>6. r[1].retVar = NULO
  <2>1. 1 \in 1..n
    BY <1>1
  <2> QED BY <2>1, <1>2 DEF PilaBien
<1> QED BY <1>2, <1>4, <1>5, <1>6 DEF PilaBien

\* The last one that is alive is in a page of the stack.
LEMMA UltimaEnPagina ==
  ASSUME NEW U, NEW v \in Seq(Elem(U)), v # <<>>, EnOrden(v)
  PROVE  EnPagina(Last(v).dir) /\ Last(v).dir \in Lugares /\ Last(v) \in Elem(U)
<1>1. Len(v) \in DOMAIN v /\ Last(v) = v[Len(v)] /\ Last(v) \in Elem(U)
  BY EmptySeq, LenProperties DEF Last
<1> QED BY <1>1 DEF EnOrden, Elem, Vars, Args

\* A stack without variables nor arguments has nothing alive.
LEMMA VivasVacias ==
  ASSUME NEW U, NEW s \in Seq(Contextos(U)),
         \A i \in DOMAIN s : s[i].vars = <<>> /\ s[i].args = <<>>
  PROVE  VivasDe(s) = <<>>
<1> DEFINE C == Contextos(U)
           Vacia(t) == \A i \in 1..Len(t) : t[i].vars = <<>> /\ t[i].args = <<>>
           P == {n \in Nat : \A t \in Seq(C) : Len(t) = n /\ Vacia(t) => VivasDe(t) = <<>>}
<1>1. 0 \in P
  <2> SUFFICES ASSUME NEW t \in Seq(C), Len(t) = 0 PROVE VivasDe(t) = <<>>
    OBVIOUS
  <2>1. t = <<>>
    BY EmptySeq
  <2>2. [i \in DOMAIN t |-> t[i].args \o t[i].vars] = <<>>
    BY <2>1
  <2> QED BY <2>2 DEF VivasDe, FlattenSeq
<1>2. ASSUME NEW n \in Nat, n \in P PROVE n + 1 \in P
  <2> SUFFICES ASSUME NEW t \in Seq(C), Len(t) = n + 1, Vacia(t) PROVE VivasDe(t) = <<>>
    OBVIOUS
  <2> DEFINE f == Front(t)
             c == Last(t)
  <2>1. t # <<>>
    BY EmptySeq
  <2>2. /\ f \in Seq(C) /\ c \in C /\ t = Append(f, c) /\ Len(f) = Len(t) - 1 /\ c = t[Len(t)]
        /\ \A i \in 1..Len(t) - 1 : f[i] = t[i]
    BY <2>1, ListaFrontal DEF Last
  <2> HIDE DEF f, c
  <2>3. Len(f) = n /\ c = t[n + 1] /\ \A i \in 1..n : f[i] = t[i]
    BY <2>2
  <2>4. c.vars = <<>> /\ c.args = <<>>
    <3>1. n + 1 \in 1..Len(t)
      OBVIOUS
    <3> QED BY <2>3, <3>1
  <2>5. Vacia(f)
    <3>1. \A i \in 1..n : i \in 1..Len(t)
      OBVIOUS
    <3> QED BY <2>3, <3>1
  <2>6. VivasDe(f) = <<>>
    BY <1>2, <2>2, <2>3, <2>5
  <2>7. VivasDe(Append(f, c)) = VivasDe(f)
    BY <2>2, <2>4, UltimaViva
  <2> QED BY <2>2, <2>6, <2>7
<1>3. \A n \in Nat : n \in P
  <2> HIDE DEF P
  <2> QED BY <1>1, <1>2, InduccionNat
<1>4. Len(s) \in P /\ DOMAIN s = 1..Len(s)
  BY <1>3, LenProperties
<1>5. Vacia(s)
  BY <1>4
<1> HIDE DEF Vacia
<1> QED BY <1>4, <1>5

\* Where a variable is put is after what is alive.
LEMMA LugarDeVariable ==
  ASSUME guion \in Guiones, NEW U, NEW s, PilaBien(U, s), s # <<>>, NEW d,
         d = DireccionDeVariable(s), d # NULO, ~Desborda(d)
  PROVE  /\ d \in Lugares /\ EnPagina(d)
         /\ VivasDe(s) # <<>> => Puntero(Last(VivasDe(s)).dir) + VARIABLE_SIZE <= Puntero(d)
<1> DEFINE n == Len(s)
           f == Front(s)
           t == Last(s)
           v == VivasDe(s)
           w == VivasDe(Append(f, t))
<1>1. /\ s \in Seq(Contextos(U)) /\ n \in Nat \ {0} /\ t = s[n]
      /\ f \in Seq(Contextos(U)) /\ t \in Contextos(U) /\ s = Append(f, t)
      /\ DOMAIN s = 1..n /\ Len(f) = n - 1 /\ \A i \in 1..n - 1 : f[i] = s[i]
  <2>1. s \in Seq(Contextos(U))
    BY DEF PilaBien
  <2> QED BY <2>1, ListaFrontal, LenProperties DEF Last
<1>2. v \in Seq(Elem(U)) /\ EnOrden(v) /\ w = v
  <2>1. v \in Seq(Elem(U))
    BY <1>1, VivasAgrega
  <2> QED BY <1>1, <2>1 DEF PilaBien
<1>3. ASSUME v # <<>>, d = ProximaDireccion(Last(v).dir)
      PROVE  d \in Lugares /\ EnPagina(d) /\ Puntero(Last(v).dir) + VARIABLE_SIZE <= Puntero(d)
  <2> DEFINE e == Last(v).dir
  <2>1. EnPagina(e) /\ e \in Lugares
    BY <1>2, <1>3, UltimaEnPagina
  <2> HIDE DEF e
  <2>2. /\ ProximaDireccion(e) \in Lugares
        /\ Puntero(e) + VARIABLE_SIZE <= Puntero(ProximaDireccion(e))
        /\ ~Desborda(ProximaDireccion(e)) => EnPagina(ProximaDireccion(e))
    BY <2>1, ProximaBien
  <2>3. d = ProximaDireccion(e)
    BY <1>3 DEF e
  <2> QED BY <2>2, <2>3 DEF e
<1>4. CASE t.vars # <<>>
  <2>1. d = ProximaDireccion(UltimaVariable(t))
    BY <1>4 DEF DireccionDeVariable
  <2>2. w # <<>> /\ Last(w) = Last(t.vars) /\ UltimaVariable(t) = Last(t.vars).dir
    BY <1>1, <1>4, UltimaViva
  <2> QED BY <2>1, <2>2, <1>2, <1>3
<1>5. CASE t.vars = <<>> /\ t.args # <<>>
  <2>1. d = ProximaDireccion(Last(t.args).dir)
    BY <1>5 DEF DireccionDeVariable
  <2>2. w # <<>> /\ Last(w) = Last(t.args)
    BY <1>1, <1>5, UltimaViva
  <2> QED BY <2>1, <2>2, <1>2, <1>3
<1>6. CASE t.vars = <<>> /\ t.args = <<>> /\ \A i \in DOMAIN s : s[i].vars = <<>>
  <2>1. \A i \in DOMAIN s : s[i].args = <<>>
    <3> SUFFICES ASSUME NEW i \in DOMAIN s, s[i].args # <<>> PROVE FALSE
      OBVIOUS
    <3>1. i > 1 /\ s[i - 1].vars # <<>>
      BY DEF PilaBien, ArgumentosTrasVariables
    <3>2. i - 1 \in DOMAIN s
      BY <1>1, <3>1
    <3> QED BY <3>1, <3>2, <1>6
  <2>2. v = <<>>
    BY <1>1, <1>6, <2>1, VivasVacias
  <2>3. d = DireccionPrimeraPagina
    BY <1>6 DEF DireccionDeVariable
  <2>4. d.pag = CantidadDePaginas + 1 /\ d.off = 0 /\ d = [pag |-> CantidadDePaginas + 1, off |-> 0]
    BY <2>3 DEF DireccionPrimeraPagina
  <2>5. d \in Lugares /\ EnPagina(d)
    <3>1. 0 = 0 * VARIABLE_SIZE /\ 0 \in 0..MARCOS_SIZE /\ 0 + VARIABLE_SIZE <= MARCOS_SIZE
      BY MarcosAssumption, EjecucionAssumption
    <3>2. CantidadDePaginas + 1 \in CantidadDePaginas + 1 .. UltimaDelStack
          /\ CantidadDePaginas + 1 \in Nat
      BY PaginasDelGuion
    <3> QED BY <2>4, <3>1, <3>2 DEF EnPagina, Lugares
  <2> QED BY <2>2, <2>5
<1>7. CASE t.vars = <<>> /\ t.args = <<>> /\ ~\A i \in DOMAIN s : s[i].vars = <<>>
  <2>1. d = ProximaDireccion(UltimaVariable(s[n - 1]))
    BY <1>7 DEF DireccionDeVariable
  <2>2. n - 1 \in 1..n - 1 /\ f # <<>>
    <3>1. PICK i \in DOMAIN s : s[i].vars # <<>>
      BY <1>7
    <3>2. i # n /\ i \in 1..n
      BY <3>1, <1>1, <1>7
    <3>3. n - 1 # 0
      BY <3>2, <1>1
    <3>4. f # <<>>
      BY <3>3, <1>1, EmptySeq
    <3> QED BY <3>3, <3>4, <1>1
  <2> DEFINE g == Front(f)
             c == Last(f)
  <2>3. c = s[n - 1] /\ g \in Seq(Contextos(U)) /\ c \in Contextos(U) /\ f = Append(g, c)
    BY <2>2, <1>1, ListaFrontal DEF Last
  <2>4. v = VivasDe(f)
    BY <1>1, <1>2, <1>7, UltimaViva
  <2> HIDE DEF g, c
  <2>5. c.vars # <<>>
    <3> SUFFICES ASSUME c.vars = <<>> PROVE FALSE
      OBVIOUS
    <3>1. UltimaVariable(c) = NULO
      BY <2>3, UltimaViva
    <3> QED BY <2>1, <2>3, <3>1 DEF ProximaDireccion
  <2> DEFINE x == VivasDe(Append(g, c))
  <2>6. x # <<>> /\ Last(x) = Last(c.vars) /\ UltimaVariable(c) = Last(c.vars).dir
    BY <2>3, <2>5, UltimaViva
  <2>7. x = v
    BY <2>3, <2>4
  <2> QED BY <2>1, <2>3, <2>6, <2>7, <1>3
<1> QED BY <1>4, <1>5, <1>6, <1>7

\* definirVariable adds one at the end of what is alive in a context.
LEMMA GrupoConVariable ==
  ASSUME NEW U, NEW c \in Contextos(U), NEW v \in Vars(U)
  PROVE  /\ ConVariable(c, v) \in Contextos(U)
         /\ ConVariable(c, v).args = c.args /\ ConVariable(c, v).retVar = c.retVar
         /\ ConVariable(c, v).destino = c.destino /\ ConVariable(c, v).retPos = c.retPos
         /\ ConVariable(c, v).vars = Append(c.vars, v)
         /\ Grupo(ConVariable(c, v)) = Grupo(c) \o <<v>>
<1> DEFINE d == ConVariable(c, v)
           E == Elem(U)
<1>1. c.args \in Seq(E) /\ c.vars \in Seq(E) /\ c.vars \in Seq(Vars(U)) /\ v \in E
  BY GrupoTipo DEF Elem
<1>2. Append(c.vars, v) \in Seq(Vars(U)) /\ Append(c.vars, v) = c.vars \o <<v>>
  BY <1>1, AppendProperties, AppendIsConcat
<1>3. /\ d \in Contextos(U) /\ d.args = c.args /\ d.vars = Append(c.vars, v)
      /\ d.retVar = c.retVar /\ d.destino = c.destino /\ d.retPos = c.retPos
  BY <1>2 DEF ConVariable, Contextos
<1>4. <<v>> \in Seq(E)
  BY <1>1
<1>5. c.args \o (c.vars \o <<v>>) = (c.args \o c.vars) \o <<v>>
  <2> DEFINE a == c.args
             b == c.vars
             x == <<v>>
  <2>1. a \in Seq(E) /\ b \in Seq(E) /\ x \in Seq(E)
    BY <1>1, <1>4
  <2> HIDE DEF a, b, x, E
  <2>2. a \o (b \o x) = (a \o b) \o x
    BY <2>1, ConcatAssociative, SMTT(30)
  <2> QED BY <2>2 DEF a, b, x
<1> HIDE DEF d
<1> QED BY <1>2, <1>3, <1>5 DEF Grupo, d

\* definirVariable: the variable is the last of what is alive, after the rest.
LEMMA PilaConVariable ==
  ASSUME guion \in Guiones, NEW U, NEW s, PilaBien(U, s), s # <<>>, NEW v \in Vars(U),
         v.dir = DireccionDeVariable(s), v.dir # NULO, ~Desborda(v.dir)
  PROVE  /\ PilaBien(U, Append(Front(s), ConVariable(Last(s), v)))
         /\ VivasDe(Append(Front(s), ConVariable(Last(s), v))) = VivasDe(s) \o <<v>>
<1> DEFINE t == Last(s)
           f == Front(s)
           c == ConVariable(t, v)
           u == VivasDe(f)
           w == VivasDe(s)
           E == Elem(U)
<1>1. t \in Contextos(U) /\ w = u \o Grupo(t) /\ f \in Seq(Contextos(U)) /\ EnOrden(w)
      /\ s \in Seq(Contextos(U))
  BY PilaSinUltimo DEF PilaBien
<1>2. /\ c \in Contextos(U) /\ c.args = t.args /\ c.retVar = t.retVar
      /\ Grupo(c) = Grupo(t) \o <<v>>
  BY <1>1, GrupoConVariable
<1>3. u \in Seq(E) /\ w \in Seq(E) /\ Grupo(t) \in Seq(E) /\ v \in E /\ <<v>> \in Seq(E)
  <2>1. v \in E
    BY DEF Elem
  <2>2. u \in Seq(E) /\ w \in Seq(E)
    BY <1>1, VivasAgrega
  <2> QED BY <1>1, <2>1, <2>2, GrupoTipo
<1>4. VivasDe(Append(f, c)) = u \o Grupo(c)
  BY <1>1, <1>2, VivasAgrega
<1>5. u \o Grupo(c) = w \o <<v>>
  <2> DEFINE g == Grupo(t)
             x == <<v>>
  <2>1. u \in Seq(E) /\ g \in Seq(E) /\ x \in Seq(E)
    BY <1>3
  <2>2. PICK S, q, r, y : S = E /\ q = u /\ r = g /\ y = x
    OBVIOUS
  <2> HIDE DEF u, g, x, E
  <2>3. q \in Seq(S) /\ r \in Seq(S) /\ y \in Seq(S)
    BY <2>1, <2>2
  <2>4. (q \o r) \o y = q \o (r \o y)
    BY <2>3, ConcatAssociative
  <2> QED BY <2>2, <2>4, <1>1, <1>2 DEF g, x
<1>6. EnOrden(w \o <<v>>)
  <2>1. EnPagina(v.dir) /\ (w # <<>> => Puntero(Last(w).dir) + VARIABLE_SIZE <= Puntero(v.dir))
    BY LugarDeVariable
  <2> HIDE DEF w, E
  <2> QED BY <2>1, <1>1, <1>3, OrdenCrece
<1>7. PilaBien(U, Append(f, c))
  <2>1. EnOrden(u \o Grupo(c)) /\ (c.args # <<>> => t.args # <<>>)
    BY <1>2, <1>5, <1>6
  <2> HIDE DEF c
  <2> QED BY <2>1, <1>2, PilaConOtro
<1> QED BY <1>4, <1>5, <1>7

\* A stack is as good with more names and values.
LEMMA PilaMayor ==
  ASSUME NEW U, NEW W, U \subseteq W, NEW s, PilaBien(U, s)
  PROVE  PilaBien(W, s) /\ Contextos(U) \subseteq Contextos(W)
<1>1. Vars(U) \subseteq Vars(W) /\ Args(U) \subseteq Args(W)
  BY DEF Vars, Args
<1>2. Contextos(U) \subseteq Contextos(W)
  <2> SUFFICES ASSUME NEW c \in Contextos(U) PROVE c \in Contextos(W)
    OBVIOUS
  <2>1. c.vars \in Seq(Vars(U)) /\ c.args \in Seq(Args(U))
    BY DEF Contextos
  <2>2. c.vars \in Seq(Vars(W)) /\ c.args \in Seq(Args(W))
    BY <1>1, <2>1
  <2> QED BY <2>2 DEF Contextos
<1>3. s \in Seq(Contextos(W))
  BY <1>2 DEF PilaBien
<1> QED BY <1>2, <1>3 DEF PilaBien

\* Nothing that makes a stack a good one changes but the stack.
LEMMA PilaQueda ==
  ASSUME UNCHANGED guion, NEW U, NEW s, PilaBien(U, s)
  PROVE  PilaBien(U, s)'
<1>1. ASSUME NEW v, EnOrden(v) PROVE EnOrden(v)'
  BY <1>1 DEF EnOrden, EnPagina, CantidadDePaginas, UltimaDelStack, Puntero
<1>2. EnOrden(VivasDe(s))'
  <2> DEFINE v == VivasDe(s)
  <2>1. EnOrden(v)
    BY DEF PilaBien
  <2> HIDE DEF v
  <2>2. EnOrden(v)'
    BY <1>1, <2>1
  <2>3. v' = v
    BY DEF v, VivasDe
  <2> QED BY <2>2, <2>3 DEF v
<1> QED BY <1>2 DEF PilaBien, ArgumentosTrasVariables

\* Giving a value to one of them moves none.
LEMMA OtroValor ==
  ASSUME NEW U, NEW T \in {Vars(U), Args(U)}, NEW q \in Seq(T), NEW k, NEW x \in U
  PROVE  /\ [q EXCEPT ![k].valor = x] \in Seq(T)
         /\ MismasDirs(q, [q EXCEPT ![k].valor = x])
<1> DEFINE r == [q EXCEPT ![k].valor = x]
           n == Len(q)
<1>1. n \in Nat /\ DOMAIN q = 1..n /\ \A i \in 1..n : q[i] \in T
  BY LenProperties
<1>2. \A y \in T : [y EXCEPT !.valor = x] \in T /\ [y EXCEPT !.valor = x].dir = y.dir
  <2>1. \A y \in Vars(U) : [y EXCEPT !.valor = x] \in Vars(U) /\ [y EXCEPT !.valor = x].dir = y.dir
    BY DEF Vars
  <2>2. \A y \in Args(U) : [y EXCEPT !.valor = x] \in Args(U) /\ [y EXCEPT !.valor = x].dir = y.dir
    BY DEF Args
  <2> QED BY <2>1, <2>2
<1>3. DOMAIN r = 1..n /\ r = [i \in 1..n |-> IF i = k THEN [q[i] EXCEPT !.valor = x] ELSE q[i]]
  BY <1>1
<1> HIDE DEF r, n
<1>4. r \in [1..n -> T]
  BY <1>1, <1>2, <1>3
<1>5. r \in Seq(T) /\ Len(r) = n
  BY <1>1, <1>4, FuncionLista
<1>6. \A i \in 1..n : q[i].dir = r[i].dir
  BY <1>1, <1>2, <1>3
<1> QED BY <1>5, <1>6 DEF MismasDirs, r, n

\* ConValor changes neither the addresses nor where the call returns.
LEMMA ContextoConValor ==
  ASSUME NEW U, NEW c \in Contextos(U), NEW x, NEW y \in U
  PROVE  /\ ConValor(c, x, y) \in Contextos(U)
         /\ MismoContexto(c, ConValor(c, x, y))
<1> DEFINE r == ConValor(c, x, y)
<1>1. c.args \in Seq(Args(U)) /\ c.vars \in Seq(Vars(U))
  BY DEF Contextos
<1>2. MismasDirs(c.args, c.args) /\ MismasDirs(c.vars, c.vars)
  BY DEF MismasDirs
<1>3. CASE x = "0"
  <2> DEFINE q == [c.args EXCEPT ![1].valor = y]
  <2>1. q \in Seq(Args(U)) /\ MismasDirs(c.args, q)
    BY <1>1, OtroValor
  <2>2. r = [c EXCEPT !.args = q]
    BY <1>3 DEF ConValor
  <2> HIDE DEF q, r
  <2>3. r \in Contextos(U) /\ r.args = q /\ r.vars = c.vars /\ r.retVar = c.retVar
    BY <2>1, <2>2 DEF Contextos
  <2> QED BY <2>1, <2>3, <1>2 DEF MismoContexto, r
<1>4. CASE x # "0"
  <2> DEFINE k == IndiceDe(c, x)
             q == [c.vars EXCEPT ![k].valor = y]
  <2>1. q \in Seq(Vars(U)) /\ MismasDirs(c.vars, q)
    BY <1>1, OtroValor
  <2>2. r = [c EXCEPT !.vars = q]
    BY <1>4 DEF ConValor
  <2> HIDE DEF q, r, k
  <2>3. r \in Contextos(U) /\ r.args = c.args /\ r.vars = q /\ r.retVar = c.retVar
    BY <2>1, <2>2 DEF Contextos
  <2> QED BY <2>1, <2>3, <1>2 DEF MismoContexto, r
<1> QED BY <1>3, <1>4

-----------------------------------------------------------------------------
\* A step changes what the CPU has of one process.
LEMMA PasoDePila ==
  ASSUME NEW U, Pilas(U), UNCHANGED guion, NEW p \in Pids,
         NEW x, EsPcb(x), NEW W, U \subseteq W, PilaBien(W, x.pila),
         pcb' = [pcb EXCEPT ![p] = x],
         NEW e \in Estados, estado' = [estado EXCEPT ![p] = e],
         e \in EnMarcha => x.pila # <<>>
  PROVE  InvPilas'
<1>1. guion' \in Guiones /\ DOMAIN pcb' = Pids /\ estado' \in [Pids -> Estados]
  BY DEF Pilas
<1>2. ASSUME NEW q \in Pids
      PROVE  /\ EsPcb(pcb'[q]) /\ PilaBien(W, pcb'[q].pila)
             /\ estado'[q] \in EnMarcha => pcb'[q].pila # <<>>
  <2>1. CASE q = p
    BY <2>1 DEF Pilas
  <2>2. CASE q # p
    <3>1. pcb'[q] = pcb[q] /\ estado'[q] = estado[q] /\ PilaBien(U, pcb[q].pila)
      BY <2>2 DEF Pilas
    <3> QED BY <3>1, PilaMayor DEF Pilas
  <2> QED BY <2>1, <2>2
<1>3. ASSUME NEW q \in Pids PROVE PilaBien(W, pcb[q].pila)'
  <2>1. PICK s : s = pcb'[q].pila
    OBVIOUS
  <2>2. PilaBien(W, s)
    BY <1>2, <2>1
  <2>3. PilaBien(W, s)'
    BY <2>2, PilaQueda
  <2> QED BY <2>1, <2>3
<1>4. Pilas(W)'
  BY <1>1, <1>2, <1>3 DEF Pilas, EsPcb, EnMarcha, Estados
<1> QED BY <1>4 DEF InvPilas

\* The process goes on with another sentence, or with none.
LEMMA PasoSigue ==
  ASSUME NEW U, Pilas(U), NEW p \in Pids, NEW x, EsPcb(x), NEW W, U \subseteq W,
         PilaBien(W, x.pila), x.pila # <<>>, Sigue(p, x)
  PROVE  InvPilas'
<1> DEFINE y == [x EXCEPT !.pc = x.pc + 1]
<1>1. EsPcb(y) /\ y.pila = x.pila
  BY DEF EsPcb
<1>2. pcb' = [pcb EXCEPT ![p] = y] /\ UNCHANGED guion
  BY DEF Sigue
<1>3. PICK e \in {"busca", "caida"} : estado' = [estado EXCEPT ![p] = e]
  BY DEF Sigue
<1>4. e \in Estados
  BY <1>3 DEF Estados
<1> HIDE DEF y
<1> QED BY <1>1, <1>2, <1>3, <1>4, PasoDePila

\* The CPU is done with the process.
LEMMA PasoDeja ==
  ASSUME NEW U, Pilas(U), NEW p \in Pids, NEW e \in {"desborda", "fin"}, Deja(p, e)
  PROVE  InvPilas'
<1> DEFINE y == [pcb[p] EXCEPT !.pila = <<>>]
<1>1. EsPcb(y) /\ y.pila = <<>>
  BY DEF EsPcb, Pilas
<1>2. pcb' = [pcb EXCEPT ![p] = y] /\ UNCHANGED guion /\ estado' = [estado EXCEPT ![p] = e]
  BY DEF Deja
<1>3. e \in Estados /\ e \notin EnMarcha
  BY DEF Estados, EnMarcha
<1>4. PilaBien(U, <<>>)
  <2>1. <<>> \in Seq(Contextos(U))
    OBVIOUS
  <2>2. VivasDe(<<>>) = <<>>
    <3>1. PICK q \in Seq(Contextos(U)) : q = <<>>
      BY <2>1
    <3>2. \A i \in DOMAIN q : q[i].vars = <<>> /\ q[i].args = <<>>
      BY <3>1
    <3> QED BY <3>1, <3>2, VivasVacias
  <2>3. EnOrden(<<>>) /\ ArgumentosTrasVariables(<<>>)
    <3>1. DOMAIN <<>> = {}
      OBVIOUS
    <3> QED BY <3>1 DEF EnOrden, ArgumentosTrasVariables
  <2> QED BY <2>1, <2>2, <2>3 DEF PilaBien
<1>5. PilaBien(U, y.pila)
  BY <1>1, <1>4
<1> HIDE DEF y
<1> QED BY <1>1, <1>2, <1>3, <1>5, PasoDePila

\* What the CPU has of the process does not change.
LEMMA PasoSinPila ==
  ASSUME NEW U, Pilas(U), UNCHANGED <<guion, pcb>>, NEW p \in Pids,
         NEW e \in Estados, estado' = [estado EXCEPT ![p] = e],
         e \in EnMarcha => estado[p] \in EnMarcha
  PROVE  InvPilas'
<1>1. ASSUME NEW q \in Pids
      PROVE  /\ EsPcb(pcb'[q]) /\ PilaBien(U, pcb[q].pila)'
             /\ estado'[q] \in EnMarcha => pcb'[q].pila # <<>>
  <2>1. PICK s : s = pcb[q].pila
    OBVIOUS
  <2>2. PilaBien(U, s)'
    BY <2>1, PilaQueda DEF Pilas
  <2>3. estado'[q] \in EnMarcha => estado[q] \in EnMarcha
    BY DEF Pilas
  <2>4. EsPcb(pcb[q]) /\ (estado[q] \in EnMarcha => pcb[q].pila # <<>>)
    BY DEF Pilas
  <2>5. PilaBien(U, pcb[q].pila)'
    BY <2>1, <2>2
  <2> QED BY <2>3, <2>4, <2>5
<1>2. guion' \in Guiones /\ DOMAIN pcb' = Pids /\ estado' \in [Pids -> Estados]
  BY DEF Pilas
<1>3. Pilas(U)'
  BY <1>1, <1>2 DEF Pilas, EsPcb, EnMarcha, Estados
<1> QED BY <1>3 DEF InvPilas

\* Nothing changes of any process.
LEMMA PasoQuieto ==
  ASSUME InvPilas, UNCHANGED <<guion, pcb, estado>>
  PROVE  InvPilas'
<1>1. PICK U : Pilas(U)
  BY DEF InvPilas
<1>2. ASSUME NEW p \in Pids PROVE PilaBien(U, pcb[p].pila)'
  <2>1. PICK s : s = pcb[p].pila
    OBVIOUS
  <2>2. PilaBien(U, s)'
    BY <1>1, <2>1, PilaQueda DEF Pilas
  <2> QED BY <2>1, <2>2
<1>3. Pilas(U)'
  BY <1>1, <1>2 DEF Pilas, EsPcb, EnMarcha, Estados
<1> QED BY <1>3 DEF InvPilas

\* What a step of a process finds.
LEMMA PilaDe ==
  ASSUME NEW U, Pilas(U), NEW p \in Pids, estado[p] = "ejecuta"
  PROVE  /\ guion \in Guiones /\ EsPcb(pcb[p]) /\ Pila(p) = pcb[p].pila
         /\ PilaBien(U, Pila(p)) /\ Pila(p) # <<>>
         /\ Pila(p) \in Seq(Contextos(U)) /\ Front(Pila(p)) \in Seq(Contextos(U))
         /\ Tope(p) = Last(Pila(p)) /\ Tope(p) \in Contextos(U)
         /\ Len(Pila(p)) \in Nat \ {0} /\ DOMAIN Pila(p) = 1..Len(Pila(p))
<1>1. /\ guion \in Guiones /\ EsPcb(pcb[p]) /\ Pila(p) = pcb[p].pila
      /\ PilaBien(U, Pila(p)) /\ Pila(p) # <<>> /\ Tope(p) = Last(Pila(p))
  BY DEF Pilas, EnMarcha, Pila, Tope
<1>2. Pila(p) \in Seq(Contextos(U))
  BY <1>1 DEF PilaBien
<1> QED BY <1>1, <1>2, ListaFrontal, LenProperties

\* A value for a variable of the context on top.
LEMMA TopeConValor ==
  ASSUME NEW U, NEW W, U \subseteq W, NEW s, PilaBien(U, s), s # <<>>, NEW x, NEW y \in W
  PROVE  /\ PilaBien(W, Front(s) \o <<ConValor(Last(s), x, y)>>)
         /\ Front(s) \o <<ConValor(Last(s), x, y)>> # <<>>
<1> DEFINE c == ConValor(Last(s), x, y)
           f == Front(s)
<1>1. PilaBien(W, s)
  BY PilaMayor
<1>2. f \in Seq(Contextos(W)) /\ Last(s) \in Contextos(W)
  BY <1>1, PilaSinUltimo DEF PilaBien
<1>3. c \in Contextos(W) /\ MismoContexto(Last(s), c)
  BY <1>2, ContextoConValor
<1>4. PilaBien(W, Append(f, c))
  <2> HIDE DEF c
  <2> QED BY <1>1, <1>3, PilaConValor
<1>5. Append(f, c) = f \o <<c>> /\ Append(f, c) # <<>>
  <2> HIDE DEF c, f
  <2> QED BY <1>2, <1>3, AgregaFrontal
<1> QED BY <1>4, <1>5

\* definirVariable keeps the stacks.
LEMMA PasoVariables ==
  ASSUME NEW U, Pilas(U), NEW p \in Pids, Variables(p)
  PROVE  InvPilas'
<1> DEFINE s == Pila(p)
           d == DireccionDeVariable(s)
           v == [etiqueta |-> Sentencia(p).x, dir |-> d, valor |-> Cero]
           W == U \cup {Sentencia(p).x, Cero}
           n == Len(s)
           x == [pcb[p] EXCEPT !.pila[n].vars = Append(@, v)]
           c == ConVariable(Last(s), v)
<1>1. estado[p] = "ejecuta"
  BY DEF Variables, Ejecuta
<1>2. /\ guion \in Guiones /\ EsPcb(pcb[p]) /\ s = pcb[p].pila
      /\ PilaBien(U, s) /\ s # <<>> /\ s \in Seq(Contextos(U))
      /\ n \in Nat \ {0} /\ DOMAIN s = 1..n
  BY <1>1, PilaDe
<1>3. \/ Cae(p)
      \/ Deja(p, "desborda")
      \/ d # NULO /\ ~Desborda(d) /\ Sigue(p, x)
  BY DEF Variables
<1>4. CASE Cae(p)
  <2>1. "caida" \in Estados /\ "caida" \notin EnMarcha
    BY DEF Estados, EnMarcha
  <2>2. UNCHANGED <<guion, pcb>> /\ estado' = [estado EXCEPT ![p] = "caida"]
    BY <1>4 DEF Cae
  <2> QED BY <2>1, <2>2, PasoSinPila
<1>5. CASE Deja(p, "desborda")
  BY <1>5, PasoDeja
<1>6. CASE d # NULO /\ ~Desborda(d) /\ Sigue(p, x)
  <2>1. d \in Lugares
    BY <1>2, <1>6, LugarDeVariable
  <2>2. U \subseteq W /\ PilaBien(W, s)
    BY <1>2, PilaMayor
  <2>3. v \in Vars(W) /\ v.dir = d
    BY <2>1 DEF Vars
  <2>4. PilaBien(W, Append(Front(s), c))
    <3> HIDE DEF v, s, W
    <3> QED BY <1>2, <1>6, <2>2, <2>3, PilaConVariable
  <2>5. c = [s[n] EXCEPT !.vars = Append(@, v)] /\ Last(s) = s[n]
    BY DEF ConVariable, Last
  <2>6. c \in Contextos(W) /\ s \in Seq(Contextos(W))
    <3>1. Last(s) \in Contextos(W) /\ s \in Seq(Contextos(W))
      BY <1>2, <2>2, PilaSinUltimo DEF PilaBien
    <3> HIDE DEF s, v, W
    <3> QED BY <3>1, <2>3, GrupoConVariable
  <2> HIDE DEF c, v, W
  <2>7. EsPcb(x) /\ x.pila = [s EXCEPT ![n] = c]
    <3>1. "pila" \in DOMAIN pcb[p] /\ DOMAIN x = DOMAIN pcb[p]
      BY <1>2 DEF EsPcb
    <3>2. x.pila = [s EXCEPT ![n].vars = Append(@, v)]
      BY <1>2, <3>1
    <3> QED BY <3>1, <3>2, <2>5, <1>2 DEF EsPcb
  <2>8. [s EXCEPT ![n] = c] = Append(Front(s), c) /\ Append(Front(s), c) # <<>>
    <3> HIDE DEF s
    <3>1. Front(s) \in Seq(Contextos(W))
      BY <1>2, <2>6, ListaFrontal
    <3>2. Append(Front(s), c) # <<>>
      BY <2>6, <3>1, AgregaFrontal
    <3>3. [s EXCEPT ![Len(s)] = c] = Append(Front(s), c)
      <4>1. s \in Seq(Contextos(W)) /\ s # <<>> /\ c \in Contextos(W)
        BY <1>2, <2>6
      <4> QED BY <4>1, CambiaUltimo, Zenon
    <3> QED BY <3>2, <3>3
  <2>9. PilaBien(W, x.pila) /\ x.pila # <<>>
    BY <2>4, <2>7, <2>8
  <2>10. Sigue(p, x)
    BY <1>6
  <2> HIDE DEF x
  <2> QED BY <2>2, <2>7, <2>9, <2>10, PasoSigue
<1> QED BY <1>3, <1>4, <1>5, <1>6

\* asignar keeps the stacks.
LEMMA PasoAsigna ==
  ASSUME NEW U, Pilas(U), NEW p \in Pids, Asigna(p)
  PROVE  InvPilas'
<1> DEFINE s == Pila(p)
           y == Valor(p, Sentencia(p).e)
           W == U \cup {y}
           q == Front(s) \o <<ConValor(Tope(p), Sentencia(p).x, y)>>
           x == [pcb[p] EXCEPT !.pila = Front(@) \o <<ConValor(Tope(p), Sentencia(p).x, y)>>]
<1>1. estado[p] = "ejecuta" /\ Sigue(p, x)
  BY DEF Asigna, Ejecuta
<1>2. /\ EsPcb(pcb[p]) /\ s = pcb[p].pila /\ PilaBien(U, s) /\ s # <<>> /\ Tope(p) = Last(s)
  BY <1>1, PilaDe
<1>3. U \subseteq W /\ y \in W
  OBVIOUS
<1>4. PilaBien(W, q) /\ q # <<>>
  <2> HIDE DEF s, y, W
  <2> QED BY <1>2, <1>3, TopeConValor
<1>5. EsPcb(x) /\ x.pila = q
  BY <1>2 DEF EsPcb
<1> HIDE DEF x, q, W
<1> QED BY <1>1, <1>3, <1>4, <1>5, PasoSigue

\* irAlLabel keeps the stacks.
LEMMA PasoJnz ==
  ASSUME NEW U, Pilas(U), NEW p \in Pids, Jnz(p)
  PROVE  InvPilas'
<1>1. estado[p] = "ejecuta"
  BY DEF Jnz, Ejecuta
<1>2. EsPcb(pcb[p]) /\ PilaBien(U, pcb[p].pila) /\ pcb[p].pila # <<>>
  BY <1>1, PilaDe
<1> DEFINE x == [pcb[p] EXCEPT !.pc = Sentencia(p).a - 1]
<1>3. Sigue(p, x) \/ Sigue(p, pcb[p])
  BY DEF Jnz
<1>4. EsPcb(x) /\ x.pila = pcb[p].pila
  BY <1>2 DEF EsPcb
<1> HIDE DEF x
<1>5. PilaBien(U, x.pila) /\ x.pila # <<>>
  BY <1>2, <1>4
<1> QED BY <1>2, <1>3, <1>4, <1>5, PasoSigue

\* What is alive in a stack is a list of variables and arguments.
LEMMA VivasTipo ==
  ASSUME NEW U, NEW s \in Seq(Contextos(U))
  PROVE  VivasDe(s) \in Seq(Elem(U))
<1>1. CASE s = <<>>
  <2>1. VivasDe(s) = <<>>
    <3>1. \A i \in DOMAIN s : s[i].vars = <<>> /\ s[i].args = <<>>
      BY <1>1
    <3> QED BY <3>1, VivasVacias
  <2> QED BY <2>1
<1>2. CASE s # <<>>
  <2>1. Last(s) \in Contextos(U)
    BY <1>2, ListaFrontal
  <2> QED BY <2>1, VivasAgrega
<1> QED BY <1>1, <1>2

\* What the context of a call is: without variables, and with the argument that is
\* given, if the one that calls has a variable.
LEMMA ContextoDeLlamada ==
  ASSUME guion \in Guiones, NEW U, NEW W, U \subseteq W, NEW s, PilaBien(U, s), s # <<>>,
         NEW c \in Contextos(W), c.vars = <<>>, c.args = <<>>,
         NEW d, d = DireccionDeArgumento(Append(s, c)), d # NULO, NEW y \in W
  PROVE  /\ d \in Lugares /\ Last(s).vars # <<>>
         /\ ConArgumento(c, d, y) \in Contextos(W) /\ ConArgumento(c, d, y).vars = <<>>
         /\ ~Desborda(d) => ArgumentoTras(Last(s), ConArgumento(c, d, y))
<1> DEFINE t == Last(s)
           f == Front(s)
           r == Append(s, c)
           n == Len(s)
           a == [dir |-> d, valor |-> y]
           e == ConArgumento(c, d, y)
<1>1. /\ s \in Seq(Contextos(W)) /\ n \in Nat \ {0} /\ t = s[n]
      /\ f \in Seq(Contextos(U)) /\ t \in Contextos(U) /\ s = Append(f, t)
  <2>1. s \in Seq(Contextos(U)) /\ PilaBien(W, s)
    BY PilaMayor DEF PilaBien
  <2>2. s \in Seq(Contextos(W))
    BY <2>1 DEF PilaBien
  <2> QED BY <2>1, <2>2, ListaFrontal, LenProperties DEF Last
<1>2. Last(r) = c /\ Len(r) = n + 1 /\ r[n] = t
  <2>1. n \in 1..n
    BY <1>1
  <2>2. Last(r) = c /\ Len(r) = n + 1 /\ \A i \in 1..n : r[i] = s[i]
    <3>1. s \in Seq(Contextos(W)) /\ c \in Contextos(W)
      BY <1>1
    <3> QED BY ONLY <3>1, AgregaFrontal, ZenonT(60)
  <2> HIDE DEF r, t, f
  <2> QED BY <1>1, <2>1, <2>2
<1>3. d = ProximaDireccion(UltimaVariable(t))
  <2>1. Len(r) - 1 = n
    BY <1>1, <1>2
  <2>2. d = DireccionDeArgumento(r)
    OBVIOUS
  <2> HIDE DEF r, n, t
  <2> QED BY <2>1, <2>2, <1>2 DEF DireccionDeArgumento
<1>4. t.vars # <<>>
  <2> SUFFICES ASSUME t.vars = <<>> PROVE FALSE
    OBVIOUS
  <2>1. UltimaVariable(t) = NULO
    BY <1>1, UltimaViva
  <2> QED BY <2>1, <1>3 DEF ProximaDireccion
<1>5. d \in Lugares
  <2> DEFINE v == VivasDe(s)
             w == VivasDe(Append(f, t))
  <2>1. w # <<>> /\ Last(w) = Last(t.vars) /\ UltimaVariable(t) = Last(t.vars).dir
    BY <1>1, <1>4, UltimaViva
  <2>2. w = v /\ v \in Seq(Elem(U)) /\ EnOrden(v)
    <3>1. v \in Seq(Elem(U))
      BY VivasAgrega, <1>1 DEF PilaBien
    <3> QED BY <1>1, <3>1 DEF PilaBien
  <2>3. EnPagina(Last(v).dir) /\ Last(v).dir \in Lugares
    BY <2>1, <2>2, UltimaEnPagina
  <2> QED BY <2>1, <2>2, <2>3, <1>3, ProximaBien
<1>6. a \in Args(W)
  BY <1>5 DEF Args
<1>7. e.args = <<a>> /\ e.vars = <<>> /\ e \in Contextos(W)
  <2>1. Append(c.args, a) = <<a>>
    OBVIOUS
  <2>2. e = [c EXCEPT !.args = <<a>>]
    BY <2>1 DEF ConArgumento
  <2>3. <<a>> \in Seq(Args(W))
    BY <1>6
  <2> HIDE DEF a, e
  <2> QED BY <2>2, <2>3 DEF Contextos
<1>8. ~Desborda(d) => ArgumentoTras(t, e)
  <2>1. Len(e.args) = 1 /\ e.args[1] = a /\ a.dir = d
    BY <1>7
  <2> HIDE DEF a, e, t
  <2> QED BY <2>1, <1>3, <1>4 DEF ArgumentoTras
<1> QED BY <1>4, <1>5, <1>7, <1>8

\* llamarSinRetorno and llamarConRetorno keep the stacks.
LEMMA PasoLlama ==
  ASSUME NEW U, Pilas(U), NEW p \in Pids, Llama(p)
  PROVE  InvPilas'
<1> DEFINE s     == Pila(p)
           args  == Sentencia(p).args
           c     == Llamado(p)
           nueva == Append(s, c)
           d     == DireccionDeArgumento(nueva)
           y     == [valor |-> args[1]]
           e     == ConArgumento(c, d, y)
           dos   == Append(s, e)
           W     == U \cup {c.retPos, c.retVar, c.destino, y}
           va    == [pcb[p] EXCEPT !.pc = Sentencia(p).a - 1]
           x1    == [va EXCEPT !.pila = nueva]
           x2    == [va EXCEPT !.pila = dos]
<1>1. estado[p] = "ejecuta"
  BY DEF Llama, Ejecuta
<1>2. /\ guion \in Guiones /\ EsPcb(pcb[p]) /\ s = pcb[p].pila
      /\ PilaBien(U, s) /\ s # <<>>
  BY <1>1, PilaDe
<1>3. \/ Cae(p)
      \/ Sigue(p, x1)
      \/ Deja(p, "desborda")
      \/ d # NULO /\ ~Desborda(d) /\ Sigue(p, x2)
  BY DEF Llama
<1>4. U \subseteq W /\ PilaBien(W, s) /\ y \in W
  BY <1>2, PilaMayor
<1>5. c \in Contextos(W) /\ c.vars = <<>> /\ c.args = <<>>
  <2>1. /\ c = [retPos |-> c.retPos, retVar |-> c.retVar, destino |-> c.destino,
                vars |-> <<>>, args |-> <<>>]
        /\ c.vars = <<>> /\ c.args = <<>>
    BY DEF Llamado, Contexto
  <2> HIDE DEF c, y
  <2>2. <<>> \in Seq(Vars(W)) /\ <<>> \in Seq(Args(W))
    OBVIOUS
  <2>3. c.retPos \in W /\ c.retVar \in W /\ c.destino \in W
    OBVIOUS
  <2> QED BY <2>1, <2>2, <2>3 DEF Contextos
<1>6. CASE Cae(p)
  <2>1. "caida" \in Estados /\ "caida" \notin EnMarcha
    BY DEF Estados, EnMarcha
  <2>2. UNCHANGED <<guion, pcb>> /\ estado' = [estado EXCEPT ![p] = "caida"]
    BY <1>6 DEF Cae
  <2> QED BY <2>1, <2>2, PasoSinPila
<1>7. CASE Sigue(p, x1)
  <2> HIDE DEF c, W
  <2>1. PilaBien(W, nueva) /\ nueva # <<>>
    <3> HIDE DEF s
    <3>1. s \in Seq(Contextos(W))
      BY <1>4 DEF PilaBien
    <3> QED BY <1>2, <1>4, <1>5, <3>1, PilaConLlamada, AgregaFrontal
  <2>2. EsPcb(x1) /\ x1.pila = nueva
    BY <1>2 DEF EsPcb
  <2> HIDE DEF x1, nueva
  <2> QED BY <1>4, <1>7, <2>1, <2>2, PasoSigue
<1>8. CASE Deja(p, "desborda")
  BY <1>8, PasoDeja
<1>9. CASE d # NULO /\ ~Desborda(d) /\ Sigue(p, x2)
  <2> HIDE DEF c, W, y
  <2>1. e \in Contextos(W) /\ e.vars = <<>> /\ ArgumentoTras(Last(s), e)
    <3>1. d = DireccionDeArgumento(Append(s, c)) /\ d # NULO /\ ~Desborda(d)
      BY <1>9
    <3> HIDE DEF s, d
    <3> QED BY <1>2, <1>4, <1>5, <3>1, ContextoDeLlamada
  <2> HIDE DEF e
  <2>2. PilaBien(W, dos) /\ dos # <<>>
    <3> HIDE DEF s
    <3>1. s \in Seq(Contextos(W))
      BY <1>4 DEF PilaBien
    <3> QED BY <1>2, <1>4, <2>1, <3>1, PilaConLlamada, AgregaFrontal
  <2>3. EsPcb(x2) /\ x2.pila = dos
    BY <1>2 DEF EsPcb
  <2>4. Sigue(p, x2)
    BY <1>9
  <2> HIDE DEF x2, dos
  <2> QED BY <1>4, <2>2, <2>3, <2>4, PasoSigue
<1> QED BY <1>3, <1>6, <1>7, <1>8, <1>9

\* A context that returns is above another one.
LEMMA PilaAbajo ==
  ASSUME NEW U, NEW s, PilaBien(U, s), s # <<>>, Len(s) # 1
  PROVE  /\ PilaBien(U, Front(s)) /\ Front(s) # <<>>
         /\ Last(Front(s)) = s[Len(s) - 1] /\ Last(Front(s)) \in Contextos(U)
         /\ Front(Front(s)) \in Seq(Contextos(U))
         /\ Front(s) = Front(Front(s)) \o <<Last(Front(s))>>
<1> DEFINE n == Len(s)
           f == Front(s)
<1>1. s \in Seq(Contextos(U))
  BY DEF PilaBien
<1>2. /\ f \in Seq(Contextos(U)) /\ n \in Nat \ {0} /\ Len(f) = n - 1
      /\ \A i \in 1..n - 1 : f[i] = s[i]
  BY <1>1, ListaFrontal
<1>3. n - 1 \in 1..n - 1 /\ Len(f) # 0
  BY <1>2
<1>4. f # <<>>
  BY <1>2, <1>3, EmptySeq
<1>5. PilaBien(U, f)
  BY PilaSinUltimo
<1>6. Last(f) = s[n - 1]
  BY <1>2, <1>3 DEF Last
<1> HIDE DEF f, n
<1>7. /\ Front(f) \in Seq(Contextos(U)) /\ Last(f) \in Contextos(U)
      /\ f = Append(Front(f), Last(f))
  BY <1>2, <1>4, ListaFrontal
<1>8. f = Front(f) \o <<Last(f)>>
  BY <1>7, AgregaFrontal
<1> QED BY <1>4, <1>5, <1>6, <1>7, <1>8 DEF f, n

\* retornar keeps the stacks: what returns is not the main part of the program,
\* whose retVar is NULO.
LEMMA PasoRetorna ==
  ASSUME InvPilas, NEW U, Pilas(U), NEW p \in Pids, Retorna(p)
  PROVE  InvPilas'
<1> DEFINE s == Pila(p)
           f == Front(s)
           y == Valor(p, Sentencia(p).e)
           k == Tope(p).destino
           b == s[Len(s) - 1]
           W == U \cup {y}
           z == Destruye(p, ConValor(b, k, y))
           x == [z EXCEPT !.pc = Tope(p).retPos]
           q == Front(f) \o <<ConValor(b, k, y)>>
<1>1. estado[p] = "ejecuta"
  BY DEF Retorna, Ejecuta
<1>2. /\ EsPcb(pcb[p]) /\ s = pcb[p].pila /\ PilaBien(U, s) /\ s # <<>> /\ Tope(p) = Last(s)
  BY <1>1, PilaDe
<1>3. \/ UNCHANGED <<guion, pcb, estado>>
      \/ Tope(p).retVar # NULO /\ Sigue(p, x)
  BY DEF Retorna
<1>4. CASE UNCHANGED <<guion, pcb, estado>>
  BY <1>4, PasoQuieto
<1>5. CASE Tope(p).retVar # NULO /\ Sigue(p, x)
  <2>1. Len(s) # 1
    BY <1>2, <1>5 DEF PilaBien, Last
  <2> HIDE DEF s
  <2>2. PilaBien(U, f) /\ f # <<>> /\ Last(f) = b
    BY <1>2, <2>1, PilaAbajo
  <2>3. U \subseteq W /\ y \in W
    OBVIOUS
  <2> HIDE DEF W, y, f
  <2>4. PilaBien(W, Front(f) \o <<ConValor(Last(f), k, y)>>) /\ Front(f) \o <<ConValor(Last(f), k, y)>> # <<>>
    BY <2>2, <2>3, TopeConValor
  <2>5. PilaBien(W, q) /\ q # <<>>
    BY <2>2, <2>4
  <2>6. EsPcb(x) /\ x.pila = q
    BY <1>2 DEF EsPcb, Destruye, f
  <2>7. Sigue(p, x)
    BY <1>5
  <2> HIDE DEF x, q
  <2> QED BY <2>3, <2>5, <2>6, <2>7, PasoSigue
<1> QED BY <1>3, <1>4, <1>5

\* finalizar keeps the stacks.
LEMMA PasoFinaliza ==
  ASSUME NEW U, Pilas(U), NEW p \in Pids, Finaliza(p)
  PROVE  InvPilas'
<1> DEFINE s == Pila(p)
           f == Front(s)
           b == s[Len(s) - 1]
           x == Destruye(p, b)
           q == Front(f) \o <<b>>
<1>1. estado[p] = "ejecuta"
  BY DEF Finaliza, Ejecuta
<1>2. /\ EsPcb(pcb[p]) /\ s = pcb[p].pila /\ PilaBien(U, s) /\ s # <<>>
      /\ Len(s) \in Nat
  BY <1>1, PilaDe
<1>3. \/ Deja(p, "fin")
      \/ Len(s) # 1 /\ Sigue(p, x)
  <2>1. Deja(p, "fin") \/ (Len(s) > 1 /\ Sigue(p, x))
    BY DEF Finaliza
  <2>2. Len(s) > 1 => Len(s) # 1
    <3> DEFINE n == Len(s)
    <3>1. n \in Nat
      BY <1>2
    <3> HIDE DEF n
    <3>2. n > 1 => n # 1
      BY <3>1
    <3> QED BY <3>2 DEF n
  <2> HIDE DEF s, x
  <2> QED BY <2>1, <2>2
<1>4. CASE Deja(p, "fin")
  BY <1>4, PasoDeja
<1>5. CASE Len(s) # 1 /\ Sigue(p, x)
  <2>1. EsPcb(x) /\ x.pila = q
    BY <1>2 DEF EsPcb, Destruye
  <2>2. Sigue(p, x)
    BY <1>5
  <2> HIDE DEF s, x
  <2>3. PilaBien(U, f) /\ f # <<>> /\ f = q
    BY <1>2, <1>5, PilaAbajo
  <2> HIDE DEF f, q
  <2> QED BY <2>1, <2>2, <2>3, PasoSigue
<1> QED BY <1>3, <1>4, <1>5

\* The rest of the steps leave the stacks as they are.
LEMMA PasoPilas ==
  ASSUME InvPilas, [NextEjecucion]_vars
  PROVE  InvPilas'
<1>1. PICK U : Pilas(U)
  BY DEF InvPilas
<1>2. ASSUME NEW p \in Pids, NEW e \in Estados, UNCHANGED <<guion, pcb>>,
             estado' = [estado EXCEPT ![p] = e], e \in EnMarcha => estado[p] \in EnMarcha
      PROVE  InvPilas'
  BY <1>1, <1>2, PasoSinPila
<1>3. ASSUME NEW p \in Pids, Inicializa(p) PROVE InvPilas'
  <2>1. "carga" \in Estados /\ estado[p] \in EnMarcha
    BY <1>3 DEF Estados, EnMarcha, Inicializa
  <2>2. UNCHANGED <<guion, pcb>> /\ estado' = [estado EXCEPT ![p] = "carga"]
    BY <1>3 DEF Inicializa
  <2> QED BY <1>2, <2>1, <2>2
<1>4. ASSUME NEW p \in Pids, EnviaPagina(p) PROVE InvPilas'
  <2>1. UNCHANGED <<guion, pcb>> /\ estado[p] = "carga"
    BY <1>4 DEF EnviaPagina
  <2>2. estado' = estado \/ estado' = [estado EXCEPT ![p] = "busca"]
    BY <1>4 DEF EnviaPagina
  <2>3. "busca" \in Estados /\ estado[p] \in EnMarcha
    BY <2>1 DEF Estados, EnMarcha
  <2> QED BY <1>2, <2>1, <2>2, <2>3, PasoQuieto
<1>5. ASSUME NEW p \in Pids, LeerSentencia(p) PROVE InvPilas'
  <2>1. UNCHANGED <<guion, pcb>> /\ estado[p] = "busca"
    BY <1>5 DEF LeerSentencia
  <2>2. estado' = estado \/ estado' = [estado EXCEPT ![p] = "ejecuta"]
    BY <1>5 DEF LeerSentencia
  <2>3. "ejecuta" \in Estados /\ estado[p] \in EnMarcha
    BY <2>1 DEF Estados, EnMarcha
  <2> QED BY <1>2, <2>1, <2>2, <2>3, PasoQuieto
<1>6. ASSUME NEW p \in Pids, OtroTexto(p) PROVE InvPilas'
  <2>1. "caida" \in Estados /\ "caida" \notin EnMarcha
    BY DEF Estados, EnMarcha
  <2>2. UNCHANGED <<guion, pcb>> /\ estado' = [estado EXCEPT ![p] = "caida"]
    BY <1>6 DEF OtroTexto, Cae
  <2> QED BY <1>2, <2>1, <2>2
<1>11. ASSUME NEW p \in Pids, UsaSinDefinir(p) PROVE InvPilas'
  <2>1. "caida" \in Estados /\ "caida" \notin EnMarcha
    BY DEF Estados, EnMarcha
  <2>2. PICK x : (x = "0" /\ Cae(p)) \/ UNCHANGED <<guion, pcb, estado>>
    BY <1>11 DEF UsaSinDefinir
  <2>3. CASE Cae(p)
    <3>1. UNCHANGED <<guion, pcb>> /\ estado' = [estado EXCEPT ![p] = "caida"]
      BY <2>3 DEF Cae
    <3> QED BY <1>2, <2>1, <3>1
  <2> QED BY <2>2, <2>3, PasoQuieto
<1>7. ASSUME NEW p \in Pids, FinDeQuantum(p) PROVE InvPilas'
  <2> DEFINE x == [pcb[p] EXCEPT !.liberados = FALSE]
  <2>1. PilaBien(U, pcb[p].pila) /\ EsPcb(pcb[p]) /\ pcb[p].pila # <<>>
    BY <1>1, <1>7 DEF Pilas, FinDeQuantum, EnMarcha
  <2>2. EsPcb(x) /\ x.pila = pcb[p].pila
    BY <2>1 DEF EsPcb
  <2>3. UNCHANGED <<guion, estado>> /\ pcb' = [pcb EXCEPT ![p] = x]
    BY <1>7 DEF FinDeQuantum
  <2>4. estado[p] \in Estados /\ estado' = [estado EXCEPT ![p] = estado[p]]
    BY <1>1, <2>3 DEF Pilas
  <2>5. PilaBien(U, x.pila) /\ x.pila # <<>>
    BY <2>1, <2>2
  <2>6. PICK e \in Estados : e = estado[p]
    BY <2>4
  <2>7. estado' = [estado EXCEPT ![p] = e]
    BY <2>4, <2>6
  <2>8. U \subseteq U
    OBVIOUS
  <2> HIDE DEF x
  <2> QED BY <1>1, <2>2, <2>3, <2>5, <2>7, <2>8, PasoDePila, ZenonT(60)
<1>8. ASSUME NEW p \in Pids, LiberaElKernel(p) PROVE InvPilas'
  <2>1. "libre" \in Estados /\ "libre" \notin EnMarcha
    BY DEF Estados, EnMarcha
  <2>2. UNCHANGED <<guion, pcb>> /\ estado' = [estado EXCEPT ![p] = "libre"]
    BY <1>8 DEF LiberaElKernel
  <2> QED BY <1>2, <2>1, <2>2
<1>9. ASSUME NEW p \in Pids, Primitivas(p) PROVE InvPilas'
  BY <1>1, <1>9, PasoVariables, PasoAsigna, PasoJnz, PasoLlama, PasoRetorna, PasoFinaliza
     DEF Primitivas
<1>10. CASE VaciaCache \/ VaciaEnLectura \/ UNCHANGED vars
  BY <1>10, PasoQuieto DEF VaciaCache, VaciaEnLectura, vars
<1> QED BY <1>3, <1>4, <1>5, <1>6, <1>7, <1>8, <1>9, <1>10, <1>11 DEF NextEjecucion

\* The stacks begin with the context of the main part, where nothing is alive.
LEMMA InicioPilas == InitEjecucion => InvPilas
<1> SUFFICES ASSUME InitEjecucion PROVE InvPilas
  OBVIOUS
<1> DEFINE c == Contexto(0, NULO, "")
           U == {0, NULO, ""}
           s == <<c>>
<1>1. c \in Contextos(U) /\ c.vars = <<>> /\ c.args = <<>> /\ c.retVar = NULO
  <2>1. c = [retPos |-> 0, retVar |-> NULO, destino |-> "", vars |-> <<>>, args |-> <<>>]
    BY DEF Contexto
  <2>2. <<>> \in Seq(Vars(U)) /\ <<>> \in Seq(Args(U))
    OBVIOUS
  <2> HIDE DEF c
  <2> QED BY <2>1, <2>2 DEF Contextos
<1> HIDE DEF c, U
<1>2. s \in Seq(Contextos(U)) /\ s # <<>> /\ DOMAIN s = 1..1 /\ s[1] = c
  BY <1>1
<1> HIDE DEF s
<1>3. VivasDe(s) = <<>>
  <2>1. \A i \in DOMAIN s : s[i].vars = <<>> /\ s[i].args = <<>>
    BY <1>1, <1>2
  <2> QED BY <1>2, <2>1, VivasVacias
<1>4. EnOrden(VivasDe(s))
  <2>1. DOMAIN <<>> = {}
    OBVIOUS
  <2> QED BY <1>3, <2>1 DEF EnOrden
<1>5. PilaBien(U, s)
  BY <1>1, <1>2, <1>4 DEF PilaBien, ArgumentosTrasVariables
<1>6. PcbInicial = [pc |-> 0, pila |-> s, liberados |-> FALSE]
  BY DEF PcbInicial, s, c
<1>7. EsPcb(PcbInicial) /\ PcbInicial.pila = s
  BY <1>6 DEF EsPcb
<1>8. guion \in Guiones /\ DOMAIN pcb = Pids /\ \A p \in Pids : pcb[p] = PcbInicial
  BY DEF InitEjecucion
<1>9. estado \in [Pids -> Estados]
  BY DEF InitEjecucion, Estados
<1>10. Pilas(U)
  BY <1>2, <1>5, <1>7, <1>8, <1>9 DEF Pilas
<1> QED BY <1>10 DEF InvPilas

\* EnSuStack: the variables and arguments that are alive follow one another.
LEMMA PilasEnSuStack == InvPilas => EnSuStack
<1> SUFFICES ASSUME InvPilas, NEW p \in Pids,
                    NEW i \in DOMAIN Vivas(p)
             PROVE  LET d == [j \in DOMAIN Vivas(p) |-> Vivas(p)[j].dir]
                    IN  /\ d[i].pag \in CantidadDePaginas + 1 .. UltimaDelStack
                        /\ d[i].off + VARIABLE_SIZE <= MARCOS_SIZE
                        /\ i > 1 => Puntero(d[i - 1]) + VARIABLE_SIZE <= Puntero(d[i])
  BY DEF EnSuStack
<1>1. PICK U : PilaBien(U, pcb[p].pila)
  BY DEF InvPilas, Pilas
<1> DEFINE v == Vivas(p)
<1>2. v = VivasDe(pcb[p].pila)
  BY DEF Vivas, VivasDe, Pila
<1>3. EnOrden(v) /\ v \in Seq(Elem(U))
  BY <1>1, <1>2, VivasTipo DEF PilaBien
<1> HIDE DEF v
<1>4. DOMAIN v = 1..Len(v) /\ Len(v) \in Nat
  BY <1>3, LenProperties
<1>5. i \in DOMAIN v /\ (i > 1 => i - 1 \in DOMAIN v)
  <2>1. i \in DOMAIN v
    BY DEF v
  <2> QED BY <2>1, <1>4
<1>6. /\ EnPagina(v[i].dir)
      /\ i > 1 => Puntero(v[i - 1].dir) + VARIABLE_SIZE <= Puntero(v[i].dir)
  BY <1>3, <1>5 DEF EnOrden
<1> DEFINE d == [j \in DOMAIN v |-> v[j].dir]
<1>7. d[i] = v[i].dir /\ (i > 1 => d[i - 1] = v[i - 1].dir)
  BY <1>5
<1> HIDE DEF d
<1>8. /\ d[i].pag \in CantidadDePaginas + 1 .. UltimaDelStack
      /\ d[i].off + VARIABLE_SIZE <= MARCOS_SIZE
      /\ i > 1 => Puntero(d[i - 1]) + VARIABLE_SIZE <= Puntero(d[i])
  BY <1>6, <1>7 DEF EnPagina
<1> QED BY <1>8 DEF d, v

\* The stacks of the processes are well made after every step (InvPilas).
THEOREM PilasSiempre == SpecEjecucion => []InvPilas
<1>1. InitEjecucion => InvPilas
  BY InicioPilas
<1>2. InvPilas /\ [NextEjecucion]_vars => InvPilas'
  BY PasoPilas
<1> QED BY <1>1, <1>2, PTL DEF SpecEjecucion

\* In every execution the variables and the arguments that are alive are in the pages
\* of the stack of their process, one after another and whole (EnSuStack).
THEOREM EnSuStackSiempre == SpecEjecucion => []EnSuStack
BY PilasSiempre, PilasEnSuStack, PTL
-----------------------------------------------------------------------------
\* The hash of a page is a frame, that has no other page of the programs.
LEMMA MarcoEs ==
  ASSUME NEW p \in Pids, NEW k \in Nat
  PROVE  Marco(p, k) \in Frames /\ Marco(p, k) \in Nat /\ Pagina(p, k) # Nada /\ p \in Nat
<1>1. p \in Nat \ {0} /\ MARCOS \in Nat \ {0}
  BY EjecucionAssumption, MarcosAssumption
<1>2. PICK c \in Nat \ {0} : Marco(p, k) = (p * c + k) % MARCOS
  BY DEF Marco, CalcularPosicion
<1>3. p * c + k \in Nat
  BY <1>1, <1>2, Productos
<1>4. (p * c + k) % MARCOS \in 0 .. MARCOS - 1
  <2> DEFINE n == p * c + k
  <2>1. n \in Nat
    BY <1>3
  <2> HIDE DEF n
  <2>2. n % MARCOS \in 0 .. MARCOS - 1
    BY <1>1, <2>1, Division
  <2> QED BY <2>2 DEF n
<1>5. Pagina(p, k) # Nada
  BY <1>1 DEF Pagina, Nada
<1> QED BY <1>1, <1>2, <1>4, <1>5 DEF Frames

\* Two pages of the programs have different frames.
LEMMA OtroMarco ==
  ASSUME SinColision, NEW p \in Pids, NEW q \in Pids, NEW k \in 0 .. UltimaDelStack,
         NEW j \in 0 .. UltimaDelStack, p # q \/ k # j
  PROVE  Marco(p, k) # Marco(q, j)
<1>1. Pagina(p, k) # Pagina(q, j)
  BY DEF Pagina
<1>2. CalcularPosicion(Pagina(p, k).pid, Pagina(p, k).pagina)
        # CalcularPosicion(Pagina(q, j).pid, Pagina(q, j).pagina)
  BY <1>1 DEF SinColision
<1> QED BY <1>2 DEF Pagina, Marco

\* The cells of different frames, or at different offsets, are different.
LEMMA OtraCelda ==
  ASSUME NEW f \in Nat, NEW g \in Nat, NEW a \in 0 .. MARCOS_SIZE - 1,
         NEW b \in 0 .. MARCOS_SIZE - 1, f * MARCOS_SIZE + a = g * MARCOS_SIZE + b
  PROVE  f = g /\ a = b
<1>0. MARCOS_SIZE \in Nat \ {0}
  BY MarcosAssumption
<1>1. f * MARCOS_SIZE \in Nat /\ g * MARCOS_SIZE \in Nat
      /\ (f < g => f * MARCOS_SIZE + MARCOS_SIZE <= g * MARCOS_SIZE)
      /\ (g < f => g * MARCOS_SIZE + MARCOS_SIZE <= f * MARCOS_SIZE)
  BY <1>0, Productos
<1> DEFINE x == f * MARCOS_SIZE
           y == g * MARCOS_SIZE
<1>2. x \in Nat /\ y \in Nat /\ x + a = y + b
      /\ (f < g => x + MARCOS_SIZE <= y) /\ (g < f => y + MARCOS_SIZE <= x)
  BY <1>1
<1>3. f = g => x = y
  OBVIOUS
<1> HIDE DEF x, y
<1> QED BY <1>0, <1>2, <1>3

\* The pages that a process has are found in their frames, and what is read of one
\* is what it keeps.
LEMMA EnSuMarco ==
  ASSUME PaginasEnSuMarco, NEW p \in Pids, NEW k \in 0 .. UltimaDelStack, k \in Nat,
         EnMemoria(estado[p], k), NEW o \in Int
  PROVE  /\ FrameDe(Pagina(p, k)) = {Marco(p, k)}
         /\ Direccion(Pagina(p, k), o) = Marco(p, k) * MARCOS_SIZE + o
<1>1. punteroMemoria[Marco(p, k)] = Pagina(p, k)
  BY DEF PaginasEnSuMarco
<1>2. CalcularPosicion(Pagina(p, k).pid, Pagina(p, k).pagina) = Marco(p, k)
  BY DEF Pagina, Marco
<1>3. FrameDe(Pagina(p, k)) = {Marco(p, k)}
  BY <1>1, <1>2 DEF FrameDe, EsPaginaCorrecta
<1> QED BY <1>3 DEF Direccion

\* What a write leaves in the pages of the programs.
LEMMA Escribe ==
  ASSUME guion \in Guiones, PaginasEnSuMarco, NEW p \in Pids, NEW k \in 0 .. UltimaDelStack,
         EnMemoria(estado[p], k), NEW d \in Nat, NEW celdas, Len(celdas) \in Nat,
         d + Len(celdas) <= MARCOS_SIZE, EscribirEnPagina(Pagina(p, k), d, celdas)
  PROVE  Escribio(contenido, contenido', UltimaDelStack, p, k, d, celdas)
<1>0. UltimaDelStack \in Nat /\ k \in Nat /\ MARCOS_SIZE \in Nat \ {0}
  BY PaginasDelGuion, MarcosAssumption
<1> DEFINE f == Marco(p, k)
           n == Len(celdas)
           x == f * MARCOS_SIZE + d
<1>1. Direccion(Pagina(p, k), d) = x
  BY <1>0, EnSuMarco
<1>2. f \in Nat /\ f * MARCOS_SIZE \in Nat /\ x \in Nat
  <2>1. f \in Nat
    BY <1>0, MarcoEs
  <2>2. f * MARCOS_SIZE \in Nat
    BY <1>0, <2>1, Productos
  <2> QED BY <2>1, <2>2
<1>3. contenido' = [a \in DOMAIN contenido \cup (x .. x + n - 1) |->
                      IF a \in x .. x + n - 1 THEN celdas[a - x + 1] ELSE contenido[a]]
  BY <1>1 DEF EscribirEnPagina
<1>4. ASSUME NEW a \in Int
      PROVE  Lee(contenido', a) = IF a \in x .. x + n - 1 THEN celdas[a - x + 1] ELSE Lee(contenido, a)
  <2> HIDE DEF x, n
  <2> QED BY <1>3 DEF Lee
<1>5. ASSUME NEW q \in Pids, NEW j \in 0 .. UltimaDelStack, NEW o \in 0 .. MARCOS_SIZE - 1
      PROVE  En(contenido', q, j, o) = IF q = p /\ j = k /\ o \in d .. d + n - 1
                                       THEN celdas[o - d + 1] ELSE En(contenido, q, j, o)
  <2> DEFINE g == Marco(q, j)
             a == g * MARCOS_SIZE + o
  <2>1. g \in Nat /\ g * MARCOS_SIZE \in Nat /\ a \in Nat /\ o \in Nat
    <3>1. g \in Nat
      <4>1. j \in Nat
        BY <1>0
      <4> QED BY <4>1, MarcoEs
    <3>2. g * MARCOS_SIZE \in Nat
      BY <1>0, <3>1, Productos
    <3> QED BY <1>0, <3>1, <3>2
  <2>2. CASE q = p /\ j = k
    <3>1. a \in x .. x + n - 1 <=> o \in d .. d + n - 1
      <4> DEFINE y == f * MARCOS_SIZE
      <4>1. a = y + o /\ x = y + d /\ y \in Nat /\ n \in Nat
        BY <2>2, <1>2
      <4> HIDE DEF y, a, x, n
      <4> QED BY <4>1, <2>1
    <3>2. a - x + 1 = o - d + 1
      <4> DEFINE y == f * MARCOS_SIZE
      <4>1. a = y + o /\ x = y + d /\ y \in Nat
        BY <2>2, <1>2
      <4> HIDE DEF y, a, x
      <4> QED BY <4>1, <2>1
    <3>3. Lee(contenido', a) = IF a \in x .. x + n - 1 THEN celdas[a - x + 1] ELSE Lee(contenido, a)
      BY <1>4, <2>1
    <3>4. En(contenido', q, j, o) = Lee(contenido', a) /\ En(contenido, q, j, o) = Lee(contenido, a)
      BY DEF En
    <3> HIDE DEF a, x, n, g
    <3> QED BY <2>2, <3>1, <3>2, <3>3, <3>4
  <2>3. CASE ~(q = p /\ j = k)
    <3>1. f # g
      BY <2>3, OtroMarco DEF PaginasEnSuMarco
    <3>2. a \notin x .. x + n - 1
      <4> SUFFICES ASSUME a \in x .. x + n - 1 PROVE FALSE
        OBVIOUS
      <4> DEFINE y == f * MARCOS_SIZE
                 b == a - y
      <4>1. x = y + d /\ y \in Nat /\ a \in Nat /\ n \in Nat /\ a >= x /\ a <= x + n - 1
            /\ d + n <= MARCOS_SIZE
        BY <1>2, <2>1
      <4>2. b \in 0 .. MARCOS_SIZE - 1 /\ y + b = a
        <5> HIDE DEF y, a, x, n
        <5> QED BY <4>1, <1>0
      <4>3. f * MARCOS_SIZE + b = g * MARCOS_SIZE + o
        BY <4>2
      <4> HIDE DEF b
      <4> QED BY <3>1, <4>2, <4>3, <1>2, <2>1, OtraCelda
    <3>3. Lee(contenido', a) = Lee(contenido, a)
      <4> HIDE DEF a, x, n
      <4> QED BY <1>4, <2>1, <3>2
    <3>4. En(contenido', q, j, o) = Lee(contenido', a) /\ En(contenido, q, j, o) = Lee(contenido, a)
      BY DEF En
    <3> HIDE DEF a, x, n, g
    <3> QED BY <2>3, <3>3, <3>4
  <2> QED BY <2>2, <2>3
<1> QED BY <1>5 DEF Escribio

\* Where a name of the context on top is.
LEMMA LugarDelNombre ==
  ASSUME NEW U, NEW c \in Contextos(U), NEW x, Definido(c, x)
  PROVE  \E i \in 1 .. Len(Grupo(c)) :
           DirDe(c, x) = Grupo(c)[i].dir
<1> DEFINE a == c.args
           v == c.vars
<1>1. /\ Len(Grupo(c)) = Len(a) + Len(v) /\ Len(a) \in Nat /\ Len(v) \in Nat
      /\ \A i \in 1..Len(a) + Len(v) : Grupo(c)[i] = IF i <= Len(a) THEN a[i] ELSE v[i - Len(a)]
      /\ a \in Seq(Args(U)) /\ v \in Seq(Vars(U))
  BY GrupoTipo
<1>2. CASE x = "0"
  <2>1. a # <<>> /\ DirDe(c, x) = a[1].dir
    BY <1>2 DEF Definido, DirDe
  <2>2. Len(a) # 0
    BY <1>1, <2>1, EmptySeq
  <2> HIDE DEF a, v
  <2>3. 1 \in 1 .. Len(a) + Len(v) /\ 1 <= Len(a)
    BY <1>1, <2>2
  <2> QED BY <1>1, <2>1, <2>3
<1>3. CASE x # "0"
  <2> DEFINE k == IndiceDe(c, x)
  <2>1. k # 0 /\ DirDe(c, x) = v[k].dir
    BY <1>3 DEF Definido, DirDe
  <2>2. k \in 1 .. Len(v)
    <3> DEFINE I == {i \in 1 .. Len(v) : v[i].etiqueta = x}
    <3>1. k = IF I # {} THEN Max(I) ELSE 0
      BY DEF IndiceDe, SelectLastInSeq
    <3>2. I \subseteq 1 .. Len(v)
      OBVIOUS
    <3> HIDE DEF I, v
    <3>3. I # {} => Max(I) \in I
      BY <1>1, <3>2, MaxEs
    <3> HIDE DEF k
    <3>4. k \in I
      BY <2>1, <3>1, <3>3
    <3> QED BY <3>2, <3>4
  <2> HIDE DEF k, a, v
  <2>3. PICK m \in Nat, n \in Nat : m = Len(a) /\ n = Len(v)
    BY <1>1
  <2>4. PICK j \in 1 .. m + n : j = k + m
    BY <2>2, <2>3
  <2>5. ~(j <= m) /\ j - m = k
    BY <2>2, <2>3, <2>4
  <2>6. j \in 1 .. Len(Grupo(c))
    BY <1>1, <2>3, <2>4
  <2>7. Grupo(c)[j] = v[k]
    BY <1>1, <2>3, <2>4, <2>5
  <2> QED BY <2>1, <2>6, <2>7
<1> QED BY <1>2, <1>3

\* A name that is defined is of a place in the pages of the stack.
LEMMA NombreEnPagina ==
  ASSUME NEW U, NEW s, PilaBien(U, s), s # <<>>, NEW x, Definido(Last(s), x)
  PROVE  EnPagina(DirDe(Last(s), x))
<1> DEFINE c == Last(s)
           u == VivasDe(Front(s))
           g == Grupo(c)
           w == VivasDe(s)
<1>1. c \in Contextos(U) /\ w = u \o g /\ PilaBien(U, Front(s)) /\ EnOrden(w)
  BY PilaSinUltimo DEF PilaBien
<1>2. g \in Seq(Elem(U)) /\ u \in Seq(Elem(U))
  <2>1. Front(s) \in Seq(Contextos(U))
    BY <1>1 DEF PilaBien
  <2> QED BY <1>1, <2>1, GrupoTipo, VivasTipo
<1>3. PICK i \in 1 .. Len(g) : DirDe(c, x) = g[i].dir
  BY <1>1, LugarDelNombre
<1> HIDE DEF u, g, w
<1>4. /\ Len(u) \in Nat /\ Len(g) \in Nat /\ i + Len(u) \in 1 .. Len(u) + Len(g)
      /\ i + Len(u) > Len(u) /\ i + Len(u) - Len(u) = i
  BY <1>2, LenProperties
<1>5. Len(w) = Len(u) + Len(g) /\ DOMAIN w = 1 .. Len(w) /\ w[i + Len(u)] = g[i]
  BY <1>1, <1>2, <1>4, ConcatProperties
<1>6. EnPagina(w[i + Len(u)].dir)
  BY <1>1, <1>4, <1>5 DEF EnOrden
<1> QED BY <1>3, <1>5, <1>6

\* Where a variable is, and page 0, are pages that a program may write.
LEMMA EscribeEnPagina ==
  ASSUME guion \in Guiones, NEW d, EnPagina(d)
  PROVE  /\ DondeEscribe(d) /\ d.pag \in 0 .. UltimaDelStack
         /\ DondeEscribe([pag |-> 0, off |-> 0])
<1>1. VARIABLE_SIZE \in Nat \ {0} /\ MARCOS_SIZE \in Nat /\ VARIABLE_SIZE <= MARCOS_SIZE
  BY EjecucionAssumption, MarcosAssumption
<1>2. PICK k \in Nat : d.off = k * VARIABLE_SIZE
  BY <1>1 DEF EnPagina
<1>3. d.off \in Nat
  BY <1>1, <1>2, Productos
<1>4. CantidadDePaginas \in Nat \ {0} /\ UltimaDelStack \in Nat
  BY PaginasDelGuion
<1> QED BY <1>1, <1>3, <1>4 DEF EnPagina, DondeEscribe, Escrita

\* What is read of an expression is a variable that is alive.
LEMMA EvaluaBien ==
  ASSUME NEW U, Pilas(U), NEW p \in Pids, estado[p] = "ejecuta",
         NEW e, e.tipo # "numero" => Definido(Tope(p), e.x), Evalua(p, e)
  PROVE  ConsultaBien(p)
<1>1. guion \in Guiones /\ PilaBien(U, Pila(p)) /\ Pila(p) # <<>> /\ Tope(p) = Last(Pila(p))
  BY PilaDe
<1>2. CASE e.tipo = "numero"
  BY <1>2 DEF Evalua, ConsultaBien
<1>3. CASE e.tipo # "numero"
  <2> DEFINE d == ObtenerPosicionVariable(p, e.x)
  <2>1. d = DirDe(Tope(p), e.x)
    BY DEF ObtenerPosicionVariable, DirDe
  <2>2. EnPagina(d)
    <3>1. Definido(Last(Pila(p)), e.x)
      BY <1>1, <1>3
    <3>2. EnPagina(DirDe(Last(Pila(p)), e.x))
      BY <1>1, <3>1, NombreEnPagina
    <3> QED BY <1>1, <2>1, <3>2
  <2>3. Consultar(Pagina(p, d.pag))
    BY <1>3 DEF Evalua
  <2> HIDE DEF d
  <2>4. d.pag \in 0 .. UltimaDelStack
    BY <1>1, <2>2, EscribeEnPagina
  <2> QED BY <2>3, <2>4 DEF ConsultaBien
<1> QED BY <1>2, <1>3

\* The names that a sentence uses are defined.
LEMMA NombresDefinidos ==
  ASSUME NEW p \in Pids, NEW op, Ejecuta(p, op)
  PROVE  /\ estado[p] = "ejecuta" /\ Sentencia(p).op = op
         /\ op = "asigna" => Definido(Tope(p), Sentencia(p).x)
         /\ op = "llama" /\ Sentencia(p).x # "" => Definido(Tope(p), Sentencia(p).x)
         /\ op \in {"asigna", "jnz", "retorna"} /\ Sentencia(p).e.tipo # "numero" =>
              Definido(Tope(p), Sentencia(p).e.x)
BY DEF Ejecuta, Nombres

\* definirVariable writes where the variable is.
LEMMA VariablesEscribe ==
  ASSUME NEW U, Pilas(U), NEW p \in Pids, Variables(p)
  PROVE  EscribeBien(p) /\ UNCHANGED cache
<1> DEFINE s == Pila(p)
           d == DireccionDeVariable(s)
<1>1. guion \in Guiones /\ PilaBien(U, s) /\ s # <<>>
  <2>1. estado[p] = "ejecuta"
    BY NombresDefinidos DEF Variables
  <2> QED BY <2>1, PilaDe
<1>2. \/ UNCHANGED <<memoria, cache, sucias>>
      \/ d # NULO /\ ~Desborda(d) /\ UNCHANGED cache /\ EscribirVariable(p, d, Cero)
  BY DEF Variables, Cae
<1>3. CASE d # NULO /\ ~Desborda(d) /\ UNCHANGED cache /\ EscribirVariable(p, d, Cero)
  <2> HIDE DEF s
  <2>1. EnPagina(d)
    BY <1>1, <1>3, LugarDeVariable
  <2> HIDE DEF d
  <2>2. DondeEscribe(d)
    BY <1>1, <2>1, EscribeEnPagina
  <2> QED BY <1>3, <2>2 DEF EscribeBien
<1> QED BY <1>2, <1>3 DEF EscribeBien

\* asignar writes where the variable is that has the name.
LEMMA AsignaEscribe ==
  ASSUME NEW U, Pilas(U), NEW p \in Pids, Asigna(p)
  PROVE  EscribeBien(p) /\ ConsultaBien(p)
<1> DEFINE x == Sentencia(p).x
           e == Sentencia(p).e
           d == ObtenerPosicionVariable(p, x)
<1>0. estado[p] = "ejecuta" /\ Definido(Tope(p), x) /\ (e.tipo # "numero" => Definido(Tope(p), e.x))
  BY NombresDefinidos DEF Asigna
<1>1. guion \in Guiones /\ PilaBien(U, Pila(p)) /\ Pila(p) # <<>> /\ Tope(p) = Last(Pila(p))
  BY <1>0, PilaDe
<1>2. Evalua(p, e) /\ EscribirVariable(p, d, Valor(p, e))
  BY DEF Asigna
<1>3. d = DirDe(Last(Pila(p)), x)
  BY <1>1 DEF ObtenerPosicionVariable, DirDe
<1> HIDE DEF x, e
<1>4. ConsultaBien(p)
  BY <1>0, <1>2, EvaluaBien
<1>5. EnPagina(DirDe(Last(Pila(p)), x))
  BY <1>0, <1>1, NombreEnPagina
<1> HIDE DEF d
<1>6. DondeEscribe(d)
  BY <1>1, <1>3, <1>5, EscribeEnPagina
<1> QED BY <1>2, <1>4, <1>6 DEF EscribeBien

\* The argument of a call is in a page of the stack.
LEMMA ArgumentoEnPagina ==
  ASSUME guion \in Guiones, NEW U, NEW s, PilaBien(U, s), s # <<>>, NEW c \in Contextos(U),
         c.vars = <<>>, ArgumentoTras(Last(s), c)
  PROVE  EnPagina(c.args[1].dir)
<1> DEFINE t == Append(s, c)
<1>1. PilaBien(U, t)
  BY PilaConLlamada
<1>2. s \in Seq(Contextos(U))
  BY DEF PilaBien
<1>3. t # <<>> /\ Last(t) = c
  <2> DEFINE S == Contextos(U)
  <2>1. s \in Seq(S) /\ c \in S
    BY <1>2
  <2> HIDE DEF S
  <2> QED BY ONLY <2>1, AgregaFrontal, ZenonT(60)
<1>4. c.args # <<>>
  <2>1. PICK a : a = c.args
    OBVIOUS
  <2>2. Len(a) = 1
    BY <2>1 DEF ArgumentoTras
  <2>3. ASSUME a = <<>> PROVE FALSE
    BY ONLY <2>2, <2>3
  <2> QED BY <2>1, <2>3
<1>5. Definido(Last(t), "0") /\ DirDe(Last(t), "0") = c.args[1].dir
  BY <1>3, <1>4 DEF Definido, DirDe
<1> HIDE DEF t
<1> QED BY <1>1, <1>3, <1>5, NombreEnPagina

\* A call writes its argument after the last variable of the one that calls, or in
\* page 0.
LEMMA LlamaEscribe ==
  ASSUME NEW U, Pilas(U), NEW p \in Pids, Llama(p)
  PROVE  EscribeBien(p) /\ UNCHANGED cache
<1> DEFINE s     == Pila(p)
           c     == Llamado(p)
           d     == DireccionDeArgumento(Append(s, c))
           y     == [valor |-> Sentencia(p).args[1]]
           e     == ConArgumento(c, d, y)
           W     == U \cup {c.retPos, c.retVar, c.destino, y}
<1>0. estado[p] = "ejecuta"
  BY NombresDefinidos DEF Llama
<1>1. guion \in Guiones /\ PilaBien(U, s) /\ s # <<>>
  BY <1>0, PilaDe
<1>2. \/ UNCHANGED <<memoria, cache, sucias>>
      \/ UNCHANGED cache /\ EscribirVariable(p, [pag |-> 0, off |-> 0], y)
      \/ d # NULO /\ ~Desborda(d) /\ UNCHANGED cache /\ EscribirVariable(p, d, y)
  BY DEF Llama, Cae
<1>3. CASE UNCHANGED cache /\ EscribirVariable(p, [pag |-> 0, off |-> 0], y)
  <2>1. DondeEscribe([pag |-> 0, off |-> 0])
    BY EjecucionAssumption, MarcosAssumption DEF DondeEscribe, Escrita
  <2> QED BY <1>3, <2>1 DEF EscribeBien
<1>4. CASE d # NULO /\ ~Desborda(d) /\ UNCHANGED cache /\ EscribirVariable(p, d, y)
  <2>1. U \subseteq W /\ PilaBien(W, s) /\ y \in W
    BY <1>1, PilaMayor
  <2>2. c \in Contextos(W) /\ c.vars = <<>> /\ c.args = <<>>
    <3>1. /\ c = [retPos |-> c.retPos, retVar |-> c.retVar, destino |-> c.destino,
                  vars |-> <<>>, args |-> <<>>]
          /\ c.vars = <<>> /\ c.args = <<>>
      BY DEF Llamado, Contexto
    <3> HIDE DEF c, y
    <3>2. <<>> \in Seq(Vars(W)) /\ <<>> \in Seq(Args(W))
      OBVIOUS
    <3>3. c.retPos \in W /\ c.retVar \in W /\ c.destino \in W
      OBVIOUS
    <3> QED BY <3>1, <3>2, <3>3 DEF Contextos
  <2> HIDE DEF c, W, y
  <2>3. e \in Contextos(W) /\ e.vars = <<>> /\ ArgumentoTras(Last(s), e)
    <3>1. d = DireccionDeArgumento(Append(s, c)) /\ d # NULO /\ ~Desborda(d)
      BY <1>4
    <3> HIDE DEF s, d
    <3> QED BY <1>1, <2>1, <2>2, <3>1, ContextoDeLlamada
  <2>4. Definido(e, "0") /\ DirDe(e, "0") = d
    <3>1. e.args = Append(<<>>, [dir |-> d, valor |-> y])
      <4>1. e.args = Append(c.args, [dir |-> d, valor |-> y])
        <5> HIDE DEF d
        <5> QED BY <2>2 DEF ConArgumento, Contextos
      <4> QED BY <2>2, <4>1
    <3> HIDE DEF d, e
    <3>2. e.args = <<[dir |-> d, valor |-> y]>> /\ e.args # <<>> /\ e.args[1].dir = d
      BY <3>1
    <3> QED BY <3>2 DEF Definido, DirDe
  <2> HIDE DEF e, d
  <2>5. DirDe(e, "0") = e.args[1].dir
    BY DEF DirDe
  <2>6. EnPagina(d)
    <3> HIDE DEF s
    <3> QED BY <1>1, <2>1, <2>3, <2>4, <2>5, ArgumentoEnPagina
  <2>7. DondeEscribe(d)
    BY <1>1, <2>6, EscribeEnPagina
  <2> QED BY <1>4, <2>7 DEF EscribeBien
<1> QED BY <1>2, <1>3, <1>4 DEF EscribeBien

\* retornar writes the variable that was given to the call.
LEMMA RetornaEscribe ==
  ASSUME NEW U, Pilas(U), Retornos, NEW p \in Pids, Retorna(p)
  PROVE  EscribeBien(p) /\ ConsultaBien(p)
<1> DEFINE s == Pila(p)
           e == Sentencia(p).e
           d == Tope(p).retVar
           n == Len(s)
<1>0. estado[p] = "ejecuta" /\ (e.tipo # "numero" => Definido(Tope(p), e.x))
  BY NombresDefinidos DEF Retorna
<1>1. /\ guion \in Guiones /\ PilaBien(U, s) /\ s # <<>> /\ Tope(p) = Last(s)
      /\ n \in Nat \ {0} /\ DOMAIN s = 1..n
  BY <1>0, PilaDe
<1>2. \/ UNCHANGED <<memoria, cache, sucias>>
      \/ d # NULO /\ Evalua(p, e) /\ EscribirVariable(p, d, Valor(p, e))
  BY DEF Retorna
<1>3. CASE d # NULO /\ Evalua(p, e) /\ EscribirVariable(p, d, Valor(p, e))
  <2>1. ConsultaBien(p)
    <3> HIDE DEF e
    <3> QED BY <1>0, <1>3, EvaluaBien
  <2>2. n # 1 /\ RetornoBien(s[n - 1], s[n])
    <3>1. RetornosBien(s)
      BY DEF Retornos, Pila
    <3>2. s[n] = Tope(p) /\ n \in DOMAIN s
      BY <1>1 DEF Last
    <3>3. n > 1 /\ RetornoBien(s[n - 1], s[n])
      BY <1>3, <3>1, <3>2 DEF RetornosBien
    <3> QED BY <3>3
  <2>3. PilaBien(U, Front(s)) /\ Front(s) # <<>> /\ Last(Front(s)) = s[n - 1]
    <3> HIDE DEF s
    <3> QED BY <1>1, <2>2, PilaAbajo
  <2>4. Definido(s[n - 1], s[n].destino) /\ s[n].retVar = DirDe(s[n - 1], s[n].destino) /\ s[n] = Tope(p)
    BY <1>1, <2>2 DEF RetornoBien, Last
  <2> HIDE DEF s, n
  <2>5. EnPagina(DirDe(s[n - 1], s[n].destino))
    <3> DEFINE t == Front(s)
               k == s[n].destino
    <3>1. PilaBien(U, t) /\ t # <<>> /\ Definido(Last(t), k) /\ Last(t) = s[n - 1]
      BY <2>3, <2>4
    <3> HIDE DEF t
    <3> QED BY <3>1, NombreEnPagina
  <2>6. EnPagina(d)
    BY <2>4, <2>5
  <2> HIDE DEF d
  <2>7. DondeEscribe(d)
    BY <1>1, <2>6, EscribeEnPagina
  <2> QED BY <1>3, <2>1, <2>7 DEF EscribeBien
<1> QED BY <1>2, <1>3 DEF EscribeBien, ConsultaBien

\* A sentence writes where a program may, and reads pages that it has.
LEMMA PrimitivaEscribe ==
  ASSUME InvPilas, Retornos, NEW p \in Pids, Primitivas(p)
  PROVE  EscribeBien(p) /\ ConsultaBien(p) /\ estado[p] = "ejecuta"
<1>1. PICK U : Pilas(U)
  BY DEF InvPilas
<1>2. estado[p] = "ejecuta"
  BY NombresDefinidos DEF Primitivas, Variables, Asigna, Jnz, Llama, Retorna, Finaliza
<1>3. Finaliza(p) => EscribeBien(p) /\ ConsultaBien(p)
  BY DEF Finaliza, EscribeBien, ConsultaBien
<1>4. Jnz(p) => EscribeBien(p) /\ ConsultaBien(p)
  <2> SUFFICES ASSUME Jnz(p) PROVE EscribeBien(p) /\ ConsultaBien(p)
    OBVIOUS
  <2> DEFINE e == Sentencia(p).e
  <2>1. e.tipo # "numero" => Definido(Tope(p), e.x)
    BY NombresDefinidos DEF Jnz
  <2>2. Evalua(p, e) /\ UNCHANGED <<memoria, sucias>>
    BY DEF Jnz
  <2> HIDE DEF e
  <2>3. ConsultaBien(p)
    BY <1>1, <1>2, <2>1, <2>2, EvaluaBien
  <2> QED BY <2>2, <2>3 DEF EscribeBien
<1>5. UNCHANGED cache => ConsultaBien(p)
  BY DEF ConsultaBien
<1> QED BY <1>1, <1>2, <1>3, <1>4, <1>5, VariablesEscribe, AsignaEscribe, LlamaEscribe, RetornaEscribe
        DEF Primitivas
-----------------------------------------------------------------------------
\* One page more, in a frame that was free.
LEMMA GuardaUna ==
  ASSUME NEW p \in Pids, NEW n \in Nat, NEW t, NEW o, Caben(t, p, n),
         NEW s \in SUBSET (1 .. n), NEW x \in s
  PROVE  Guarda([tabla |-> ConPaginas(t, p, s \ {x}), overflow |-> o], Nodos(p, n)[x])
           = [tabla |-> ConPaginas(t, p, s), overflow |-> o]
<1> DEFINE u == ConPaginas(t, p, s \ {x})
           f == Marco(p, x - 1)
           w == ConPaginas(t, p, s)
<1>1. x \in 1 .. n /\ x - 1 \in Nat /\ s \subseteq 1 .. n
  OBVIOUS
<1>2. Nodos(p, n)[x] = Pagina(p, x - 1) /\ Pagina(p, x - 1).pid = p /\ Pagina(p, x - 1).pagina = x - 1
  BY <1>1 DEF Nodos, Pagina
<1>3. f \in Frames /\ f = CalcularPosicion(p, x - 1)
  BY <1>1, MarcoEs DEF Marco
<1>4. \A i \in s \ {x} : Marco(p, i - 1) # f
  BY <1>1 DEF Caben
<1>5. u[f] = Nada
  <2>1. u[f] = t[f]
    BY <1>3, <1>4 DEF ConPaginas
  <2> QED BY <1>1, <2>1 DEF Caben
<1>6. w = [u EXCEPT ![f] = Pagina(p, x - 1)]
  <2> DEFINE r == [u EXCEPT ![f] = Pagina(p, x - 1)]
  <2>1. DOMAIN u = Frames /\ r = [g \in Frames |-> IF g = f THEN Pagina(p, x - 1) ELSE u[g]]
    BY <1>3 DEF ConPaginas
  <2>2. ASSUME NEW g \in Frames PROVE w[g] = IF g = f THEN Pagina(p, x - 1) ELSE u[g]
    <3>1. CASE g = f
      <4>1. \A i \in s : g = Marco(p, i - 1) <=> i = x
        BY <1>4, <3>1
      <4>2. (CHOOSE i \in s : g = Marco(p, i - 1)) = x
        BY <4>1
      <4>3. w[g] = Pagina(p, (CHOOSE i \in s : g = Marco(p, i - 1)) - 1)
        BY <4>1 DEF ConPaginas
      <4> QED BY <3>1, <4>2, <4>3
    <3>2. CASE g # f
      <4>1. \A i \in s : g = Marco(p, i - 1) <=> i \in s \ {x} /\ g = Marco(p, i - 1)
        BY <3>2
      <4>2. (CHOOSE i \in s : g = Marco(p, i - 1)) = (CHOOSE i \in s \ {x} : g = Marco(p, i - 1))
        BY <4>1
      <4>3. (\E i \in s : g = Marco(p, i - 1)) <=> (\E i \in s \ {x} : g = Marco(p, i - 1))
        BY <4>1
      <4> QED BY <3>2, <4>2, <4>3 DEF ConPaginas
    <3> QED BY <3>1, <3>2
  <2>3. w = [g \in Frames |-> w[g]]
    BY DEF ConPaginas
  <2> HIDE DEF w, u, f
  <2> QED BY <2>1, <2>2, <2>3
<1> HIDE DEF u, w
<1>7. Guarda([tabla |-> u, overflow |-> o], Pagina(p, x - 1))
        = [tabla |-> [u EXCEPT ![f] = Pagina(p, x - 1)], overflow |-> o]
  BY <1>2, <1>3, <1>5 DEF Guarda, FrameNuevo, EstaLibre
<1> QED BY <1>2, <1>6, <1>7 DEF u, w

\* inicializarPrograma: every page is in its frame, and no list of overflow changes.
LEMMA GuardaTodas ==
  ASSUME NEW p \in Pids, NEW n \in Nat, NEW t, DOMAIN t = Frames, t = [f \in Frames |-> t[f]],
         NEW o, Caben(t, p, n)
  PROVE  ConTodas(t, o, p, n) = [tabla |-> ConPaginas(t, p, 1 .. n), overflow |-> o]
<1> DEFINE b == [tabla |-> t, overflow |-> o]
           r == [s \in SUBSET (1 .. n) |-> [tabla |-> ConPaginas(t, p, s), overflow |-> o]]
           c == CHOOSE it : it = Guardando(p, n, b, it)
<1>1. DOMAIN Nodos(p, n) = 1 .. n
  BY DEF Nodos
<1>2. ConTodas(t, o, p, n) = c[1 .. n]
  <2> DEFINE q == Nodos(p, n)
  <2>1. FoldLeft(Guarda, b, q) =
         (CHOOSE it : it = [s \in SUBSET DOMAIN q |->
            IF s = {} THEN b ELSE Guarda(it[s \ {Max(s)}], q[Max(s)])])[DOMAIN q]
    BY Zenon DEF FoldLeft, MapThenFoldSet
  <2> QED BY ONLY <1>1, <2>1, Zenon DEF Guardando, ConTodas
<1>3. r = Guardando(p, n, b, r)
  <2>1. r[{}] = b
    <3>1. ConPaginas(t, p, {}) = t
      BY DEF ConPaginas
    <3> QED BY <3>1
  <2>2. ASSUME NEW s \in SUBSET (1 .. n), s # {}
        PROVE  r[s] = Guarda(r[s \ {Max(s)}], Nodos(p, n)[Max(s)])
    <3>1. Max(s) \in s
      BY <2>2, MaxEs
    <3>2. PICK x \in s : x = Max(s)
      BY <3>1
    <3>3. r[s \ {x}] = [tabla |-> ConPaginas(t, p, s \ {x}), overflow |-> o] /\ r[s] = [tabla |-> ConPaginas(t, p, s), overflow |-> o]
      OBVIOUS
    <3> HIDE DEF r
    <3> QED BY <3>2, <3>3, GuardaUna
  <2>3. r = [s \in SUBSET (1 .. n) |-> r[s]]
    OBVIOUS
  <2> HIDE DEF r, b
  <2> QED BY <2>1, <2>2, <2>3 DEF Guardando
<1>4. c = Guardando(p, n, b, c)
  BY <1>3
<1> HIDE DEF c, r, b
<1> DEFINE S == {k \in Nat : k <= n => c[1 .. k] = r[1 .. k]}
<1>5. 0 \in S
  <2>1. 1 .. 0 = {} /\ {} \in SUBSET (1 .. n)
    OBVIOUS
  <2>2. c[{}] = b /\ r[{}] = b
    BY <1>3, <1>4, <2>1 DEF Guardando
  <2> QED BY <2>1, <2>2
<1>6. ASSUME NEW k \in Nat, k \in S PROVE k + 1 \in S
  <2> SUFFICES ASSUME k + 1 <= n PROVE c[1 .. k + 1] = r[1 .. k + 1]
    OBVIOUS
  <2>1. c[1 .. k] = r[1 .. k] /\ k + 1 - 1 = k /\ k + 1 \in Nat \ {0}
    BY <1>6
  <2>2. Max(1 .. k + 1) = k + 1 /\ (1 .. k + 1) \ {k + 1} = 1 .. k
    BY <2>1, MaxIntervalo
  <2>3. 1 .. k + 1 \in SUBSET (1 .. n) /\ 1 .. k + 1 # {}
    <3>1. k + 1 \in 1 .. k + 1
      OBVIOUS
    <3> QED BY <3>1
  <2> DEFINE s == 1 .. k + 1
             z == 1 .. k
  <2>4. Max(s) = k + 1 /\ s \ {k + 1} = z /\ s \in SUBSET (1 .. n) /\ s # {} /\ c[z] = r[z]
    BY <2>1, <2>2, <2>3
  <2> HIDE DEF s, z
  <2>5. c[s] = Guarda(c[z], Nodos(p, n)[k + 1])
    BY <1>4, <2>4 DEF Guardando
  <2>6. r[s] = Guarda(r[z], Nodos(p, n)[k + 1])
    BY <1>3, <2>4 DEF Guardando
  <2> QED BY <2>4, <2>5, <2>6 DEF s
<1>7. n \in S
  <2> HIDE DEF S
  <2> QED BY <1>5, <1>6, InduccionNat
<1>8. r[1 .. n] = [tabla |-> ConPaginas(t, p, 1 .. n), overflow |-> o]
  <2>1. 1 .. n \in SUBSET (1 .. n)
    OBVIOUS
  <2> QED BY <2>1 DEF r
<1> QED BY <1>2, <1>7, <1>8 DEF b
-----------------------------------------------------------------------------
\* What depends on the script only.
LEMMA GuionQueda ==
  ASSUME UNCHANGED guion
  PROVE  /\ CantidadDePaginas' = CantidadDePaginas /\ UltimaDelStack' = UltimaDelStack
         /\ SinColision' = SinColision
         /\ \A k : TextoDePagina(k)' = TextoDePagina(k)
         /\ \A k : Escrita(k)' = Escrita(k)
<1>1. CantidadDePaginas' = CantidadDePaginas /\ UltimaDelStack' = UltimaDelStack
  BY DEF CantidadDePaginas, UltimaDelStack
<1> QED BY <1>1 DEF SinColision, TextoDePagina, Escrita

\* What a sentence does not change, and what it changes of its process only.
LEMMA PrimitivaAvanza ==
  ASSUME NEW p \in Pids, Primitivas(p)
  PROVE  /\ estado[p] = "ejecuta" /\ UNCHANGED <<guion, punteroMemoria, overflow>>
         /\ Avanza(p, {"busca", "caida", "fin", "desborda"})
<1> DEFINE E == {"busca", "caida", "fin", "desborda"}
<1>1. ASSUME Cae(p) PROVE UNCHANGED <<guion, punteroMemoria, overflow>> /\ Avanza(p, E)
  BY <1>1 DEF Cae, Avanza, memoria
<1>2. ASSUME NEW x, Sigue(p, x) PROVE UNCHANGED guion /\ Avanza(p, E)
  BY <1>2 DEF Sigue, Avanza
<1>3. ASSUME NEW e \in {"fin", "desborda"}, Deja(p, e) PROVE UNCHANGED guion /\ Avanza(p, E)
  BY <1>3 DEF Deja, Avanza
<1>4. ASSUME NEW d, NEW y, EscribirVariable(p, d, y) PROVE UNCHANGED <<punteroMemoria, overflow>>
  BY <1>4 DEF EscribirVariable, EscribirEnPagina
<1>5. UNCHANGED memoria => UNCHANGED <<punteroMemoria, overflow>>
  BY DEF memoria
<1>6. UNCHANGED <<estado, lectura>> => Avanza(p, E)
  BY DEF Avanza
<1> HIDE DEF E
<1>7. ASSUME Variables(p) PROVE UNCHANGED <<guion, punteroMemoria, overflow>> /\ Avanza(p, E)
  BY <1>7, <1>1, <1>2, <1>3, <1>4, <1>5 DEF Variables
<1>8. ASSUME Asigna(p) PROVE UNCHANGED <<guion, punteroMemoria, overflow>> /\ Avanza(p, E)
  BY <1>8, <1>2, <1>4 DEF Asigna
<1>9. ASSUME Jnz(p) PROVE UNCHANGED <<guion, punteroMemoria, overflow>> /\ Avanza(p, E)
  BY <1>9, <1>2, <1>5 DEF Jnz
<1>10. ASSUME Llama(p) PROVE UNCHANGED <<guion, punteroMemoria, overflow>> /\ Avanza(p, E)
  BY <1>10, <1>1, <1>2, <1>3, <1>4, <1>5 DEF Llama
<1>11. ASSUME Retorna(p) PROVE UNCHANGED <<guion, punteroMemoria, overflow>> /\ Avanza(p, E)
  BY <1>11, <1>2, <1>4, <1>5, <1>6 DEF Retorna
<1>12. ASSUME Finaliza(p) PROVE UNCHANGED <<guion, punteroMemoria, overflow>> /\ Avanza(p, E)
  BY <1>12, <1>2, <1>3, <1>5 DEF Finaliza
<1>13. estado[p] = "ejecuta"
  BY NombresDefinidos DEF Primitivas, Variables, Asigna, Jnz, Llama, Retorna, Finaliza
<1> QED BY <1>7, <1>8, <1>9, <1>10, <1>11, <1>12, <1>13 DEF Primitivas, E

\* The frames of Memoria, when none is given or left.
LEMMA MarcosQuedan ==
  ASSUME PaginasEnSuMarco, UNCHANGED <<guion, punteroMemoria, overflow>>,
         \A p \in Pids : \/ estado'[p] = estado[p]
                        \/ {estado[p], estado'[p]} \cap {"nuevo", "libre"} = {}
  PROVE  PaginasEnSuMarco'
<1>1. SinColision' /\ UltimaDelStack' = UltimaDelStack
  BY GuionQueda DEF PaginasEnSuMarco
<1>2. \A p \in Pids : \A k \in 0 .. UltimaDelStack : EnMemoria(estado'[p], k) <=> EnMemoria(estado[p], k)
  BY DEF EnMemoria
<1>3. \A p \in Pids : \A k \in 0 .. UltimaDelStack :
        punteroMemoria'[Marco(p, k)] = IF EnMemoria(estado'[p], k) THEN Pagina(p, k) ELSE Nada
  BY <1>2 DEF PaginasEnSuMarco
<1>4. \A p \in Pids : \A k \in 0 .. UltimaDelStack : Marco(p, k)' = Marco(p, k) /\ Pagina(p, k)' = Pagina(p, k)
  BY DEF Marco, CalcularPosicion, Pagina
<1>5. Frames' = Frames /\ Nada' = Nada
  BY DEF Frames, Nada
<1> QED BY <1>1, <1>3, <1>4, <1>5 DEF PaginasEnSuMarco, EnMemoria

\* INICIALIZARPROCESO: all the pages of the process are in their frames.
LEMMA MarcosInicializa ==
  ASSUME guion \in Guiones, estado \in [Pids -> Estados], PaginasEnSuMarco, NEW p \in Pids, Inicializa(p)
  PROVE  PaginasEnSuMarco'
<1> DEFINE u == UltimaDelStack
           n == u + 1
           t == punteroMemoria
<1>1. u \in Nat /\ PaginasTotales = n /\ n \in Nat
  BY PaginasDelGuion
<1>2. SinColision /\ overflow = [f \in Frames |-> {}] /\ t = [f \in Frames |-> t[f]] /\ DOMAIN t = Frames
  BY DEF PaginasEnSuMarco
<1>3. \A k \in 0 .. u : t[Marco(p, k)] = Nada
  BY DEF PaginasEnSuMarco, EnMemoria, Inicializa
<1>4. \A i \in 1 .. n : i - 1 \in 0 .. u
  BY <1>1
<1>5. Caben(t, p, n)
  <2>1. ASSUME NEW i \in 1 .. n, NEW j \in 1 .. n, i # j PROVE Marco(p, i - 1) # Marco(p, j - 1)
    <3>1. i - 1 \in 0 .. u /\ j - 1 \in 0 .. u /\ i - 1 # j - 1
      BY <1>1, <2>1
    <3> QED BY <1>2, <3>1, OtroMarco
  <2> HIDE DEF t, n
  <2> QED BY <2>1, <1>3, <1>4 DEF Caben
<1>6. Paginado = [tabla |-> t, overflow |-> overflow]
  BY DEF Paginado
<1>7. punteroMemoria' = ConPaginas(t, p, 1 .. n) /\ overflow' = overflow
  <2> DEFINE m == FoldLeft(Guarda, Paginado, Nodos(p, n))
  <2>1. punteroMemoria' = m.tabla /\ overflow' = m.overflow
    BY <1>1 DEF Inicializa, InicializarPrograma
  <2>2. m = [tabla |-> ConPaginas(t, p, 1 .. n), overflow |-> overflow]
    <3>1. m = ConTodas(t, overflow, p, n)
      BY <1>6, Zenon DEF ConTodas
    <3>2. p \in Pids
      OBVIOUS
    <3>3. n \in Nat /\ DOMAIN t = Frames /\ t = [f \in Frames |-> t[f]] /\ Caben(t, p, n)
      BY <1>1, <1>2, <1>5
    <3> HIDE DEF t, n, m
    <3>4. ConTodas(t, overflow, p, n) = [tabla |-> ConPaginas(t, p, 1 .. n), overflow |-> overflow]
      <4>1. PICK r, o : r = t /\ o = overflow
        OBVIOUS
      <4>2. DOMAIN r = Frames /\ r = [f \in Frames |-> r[f]] /\ Caben(r, p, n) /\ n \in Nat
        BY <3>3, <4>1
      <4>3. ConTodas(r, o, p, n) = [tabla |-> ConPaginas(r, p, 1 .. n), overflow |-> o]
        BY <4>2, GuardaTodas
      <4> QED BY <4>1, <4>3
    <3> QED BY <3>1, <3>4
  <2> HIDE DEF m
  <2> QED BY <2>1, <2>2
<1>8. ASSUME NEW q \in Pids, NEW k \in 0 .. u
      PROVE  punteroMemoria'[Marco(q, k)] = IF q = p THEN Pagina(p, k) ELSE t[Marco(q, k)]
  <2>1. k \in Nat /\ k + 1 \in 1 .. n /\ k + 1 - 1 = k
    BY <1>1
  <2>2. Marco(q, k) \in Frames
    BY <2>1, MarcoEs
  <2>3. CASE q = p
    <3>1. \A i \in 1 .. n : Marco(q, k) = Marco(p, i - 1) <=> i = k + 1
      BY <1>5, <2>1, <2>3 DEF Caben
    <3>2. (CHOOSE i \in 1 .. n : Marco(q, k) = Marco(p, i - 1)) = k + 1
      BY <3>1, <2>1
    <3>3. \E i \in 1 .. n : Marco(q, k) = Marco(p, i - 1)
      BY <3>1, <2>1
    <3> HIDE DEF n, t
    <3> QED BY <1>7, <2>1, <2>2, <2>3, <3>2, <3>3 DEF ConPaginas
  <2>4. CASE q # p
    <3>1. \A i \in 1 .. n : Marco(q, k) # Marco(p, i - 1)
      BY <1>2, <1>4, <2>4, OtroMarco
    <3> HIDE DEF n, t
    <3> QED BY <1>7, <2>2, <2>4, <3>1 DEF ConPaginas
  <2> QED BY <2>3, <2>4
<1>9. estado' = [estado EXCEPT ![p] = "carga"] /\ UNCHANGED guion
  BY DEF Inicializa
<1>10. SinColision' /\ u' = u
  BY <1>2, <1>9, GuionQueda
<1>11. \A q \in Pids : \A k \in 0 .. u :
         punteroMemoria'[Marco(q, k)] = IF EnMemoria(estado'[q], k) THEN Pagina(q, k) ELSE Nada
  <2> SUFFICES ASSUME NEW q \in Pids, NEW k \in 0 .. u
               PROVE  punteroMemoria'[Marco(q, k)] = IF EnMemoria(estado'[q], k) THEN Pagina(q, k) ELSE Nada
    OBVIOUS
  <2>1. CASE q = p
    <3>1. EnMemoria(estado'[q], k)
      BY <1>9, <2>1 DEF EnMemoria
    <3> QED BY <1>8, <2>1, <3>1
  <2>2. CASE q # p
    <3>1. estado'[q] = estado[q]
      BY <1>9, <2>2
    <3>2. t[Marco(q, k)] = IF EnMemoria(estado[q], k) THEN Pagina(q, k) ELSE Nada
      BY DEF PaginasEnSuMarco
    <3> QED BY <1>8, <2>2, <3>1, <3>2
  <2> QED BY <2>1, <2>2
<1>12. punteroMemoria' = [f \in Frames |-> punteroMemoria'[f]]
  BY <1>7 DEF ConPaginas
<1> HIDE DEF u
<1> QED BY <1>2, <1>7, <1>10, <1>11, <1>12 DEF PaginasEnSuMarco, EnMemoria, u, Marco, CalcularPosicion, Pagina, Frames, Nada

\* LIBERARPAGINAS: of a process that ended, page 0 is left.
LEMMA MarcosLibera ==
  ASSUME guion \in Guiones, estado \in [Pids -> Estados], PaginasEnSuMarco, NEW p \in Pids, LiberaElKernel(p)
  PROVE  PaginasEnSuMarco'
<1> DEFINE u == UltimaDelStack
           t == punteroMemoria
           nodos == {Pagina(p, i) : i \in 1 .. u}
<1>1. u \in Nat
  BY PaginasDelGuion
<1>2. SinColision /\ overflow = [f \in Frames |-> {}] /\ t = [f \in Frames |-> t[f]]
  BY DEF PaginasEnSuMarco
<1>3. /\ punteroMemoria' = [f \in Frames |-> IF t[f] \in nodos THEN Nada ELSE t[f]]
      /\ UNCHANGED <<overflow, guion>> /\ estado' = [estado EXCEPT ![p] = "libre"]
      /\ estado[p] \in {"fin", "desborda"}
  BY DEF LiberaElKernel, LiberarPaginas
<1>4. SinColision' /\ u' = u
  BY <1>2, <1>3, GuionQueda
<1>5. ASSUME NEW q \in Pids, NEW k \in 0 .. u
      PROVE  punteroMemoria'[Marco(q, k)] = IF EnMemoria(estado'[q], k) THEN Pagina(q, k) ELSE Nada
  <2>1. k \in Nat
    BY <1>1
  <2>2. Marco(q, k) \in Frames /\ Pagina(q, k) # Nada
    BY <2>1, MarcoEs
  <2>3. t[Marco(q, k)] = IF EnMemoria(estado[q], k) THEN Pagina(q, k) ELSE Nada
    BY DEF PaginasEnSuMarco
  <2>4. punteroMemoria'[Marco(q, k)] = IF t[Marco(q, k)] \in nodos THEN Nada ELSE t[Marco(q, k)]
    BY <1>3, <2>2
  <2>5. Pagina(q, k) \in nodos <=> q = p /\ k # 0
    <3>1. Pagina(q, k) \in nodos <=> \E i \in 1 .. u : q = p /\ k = i
      BY DEF Pagina
    <3>2. k # 0 <=> k \in 1 .. u
      <4> HIDE DEF u
      <4> QED BY <1>1, <2>1
    <3> QED BY <1>1, <3>1, <3>2
  <2>6. estado'[q] = IF q = p THEN "libre" ELSE estado[q]
    BY <1>3
  <2>7. q = p => EnMemoria(estado[q], k)
    BY <1>3 DEF EnMemoria
  <2> HIDE DEF nodos, t
  <2>8. Nada \notin nodos
    <3>1. \A i \in 1 .. u : i \in Nat
      BY <1>1
    <3>2. \A i \in 1 .. u : Pagina(p, i) # Nada
      BY <3>1, MarcoEs
    <3> QED BY <3>2 DEF nodos
  <2> QED BY <2>3, <2>4, <2>5, <2>6, <2>7, <2>8 DEF EnMemoria
<1> HIDE DEF u, nodos
<1>6. punteroMemoria' = [f \in Frames |-> punteroMemoria'[f]]
  BY <1>3
<1> QED BY <1>2, <1>3, <1>4, <1>5, <1>6 DEF PaginasEnSuMarco, EnMemoria, u, Marco, CalcularPosicion, Pagina, Frames, Nada
-----------------------------------------------------------------------------
\* What is read of a page that a process has.
LEMMA LeeDePagina ==
  ASSUME guion \in Guiones, PaginasEnSuMarco, NEW p \in Pids, NEW k \in 0 .. UltimaDelStack,
         EnMemoria(estado[p], k), NEW o \in Nat, NEW n
  PROVE  LeerDePagina(Pagina(p, k), o, n) = [i \in 1 .. n |-> En(contenido, p, k, o + i - 1)]
<1>0. UltimaDelStack \in Nat /\ k \in Nat /\ MARCOS_SIZE \in Nat \ {0} /\ o \in Int
  BY PaginasDelGuion, MarcosAssumption
<1> DEFINE x == Marco(p, k) * MARCOS_SIZE
<1>1. Direccion(Pagina(p, k), o) = x + o
  BY <1>0, EnSuMarco
<1>2. x \in Nat
  <2>1. Marco(p, k) \in Nat
    BY <1>0, MarcoEs
  <2> QED BY <1>0, <2>1, Productos
<1>3. LeerDePagina(Pagina(p, k), o, n)
        = [i \in 1 .. n |-> IF x + o + i - 1 \in DOMAIN contenido THEN contenido[x + o + i - 1] ELSE Otro]
  BY <1>1, Zenon DEF LeerDePagina
<1>4. ASSUME NEW i \in 1 .. n PROVE x + o + i - 1 = x + (o + i - 1)
  <2>1. i \in Int
    OBVIOUS
  <2> HIDE DEF x
  <2> QED BY <1>0, <1>2, <2>1
<1>5. \A i \in 1 .. n : En(contenido, p, k, o + i - 1)
                          = IF x + o + i - 1 \in DOMAIN contenido THEN contenido[x + o + i - 1] ELSE Otro
  BY <1>4 DEF En, Lee
<1> HIDE DEF x
<1> QED BY <1>3, <1>5

\* What is read of all of a page is its copy.
LEMMA LeePaginaEntera ==
  ASSUME guion \in Guiones, PaginasEnSuMarco, NEW p \in Pids, NEW k \in 0 .. UltimaDelStack,
         EnMemoria(estado[p], k)
  PROVE  LeerDePagina(Pagina(p, k), 0, MARCOS_SIZE) = Copia(contenido, p, k)
<1>1. LeerDePagina(Pagina(p, k), 0, MARCOS_SIZE) = [i \in 1 .. MARCOS_SIZE |-> En(contenido, p, k, 0 + i - 1)]
  BY LeeDePagina
<1>2. \A i \in 1 .. MARCOS_SIZE : 0 + i - 1 = i - 1
  OBVIOUS
<1> QED BY <1>1, <1>2 DEF Copia

\* A write changes no other page.
LEMMA OtraCopia ==
  ASSUME NEW m, NEW n, NEW u, NEW p, NEW k, NEW d, NEW celdas,
         Escribio(m, n, u, p, k, d, celdas), NEW q \in Pids, NEW j \in 0 .. u, q # p \/ j # k
  PROVE  Copia(n, q, j) = Copia(m, q, j)
<1>1. \A o \in 0 .. MARCOS_SIZE - 1 : En(n, q, j, o) = En(m, q, j, o)
  BY DEF Escribio
<1>2. \A a \in 1 .. MARCOS_SIZE : a - 1 \in 0 .. MARCOS_SIZE - 1
  BY MarcosAssumption
<1> QED BY <1>1, <1>2 DEF Copia

\* A write changes the copies only of a page that is among the written ones.
LEMMA CopiasEscribe ==
  ASSUME NEW c, NEW m, NEW n, NEW nodo, NEW E, NEW F, NEW L,
         SoloEscribe(c, m, n, nodo, E, F, L), CopiasDe(c, m, E, L)
  PROVE  CopiasDe(c, n, F, L)
<1>1. /\ \A x \in L : x # nodo => Copia(n, x.pid, x.pagina) = Copia(m, x.pid, x.pagina)
      /\ E \subseteq F
      /\ (\E i \in 1 .. Len(c.nodos) : c.nodos[i] = nodo) => nodo \in F
  BY DEF SoloEscribe
<1> SUFFICES ASSUME NEW i \in 1 .. Len(c.nodos), c.nodos[i] # Nada, c.nodos[i] \notin F
             PROVE  c.copias[i] = Copia(n, c.nodos[i].pid, c.nodos[i].pagina)
  BY DEF CopiasDe, CopiaFiel
<1>2. c.nodos[i] \in L /\ c.copias[i] = Copia(m, c.nodos[i].pid, c.nodos[i].pagina)
  BY <1>1 DEF CopiasDe, CopiaFiel
<1>3. c.nodos[i] # nodo
  BY <1>1
<1> QED BY <1>1, <1>2, <1>3

\* A copy is made of the page as it is.
LEMMA CopiasCopia ==
  ASSUME NEW c, NEW E, NEW L, CopiasDe(c, contenido, E, L), NEW nodo \in L,
         LeerDePagina(nodo, 0, MARCOS_SIZE) = Copia(contenido, nodo.pid, nodo.pagina)
  PROVE  CopiasDe(Copiar(c, nodo), contenido, E, L)
<1> DEFINE x == LeerDePagina(nodo, 0, MARCOS_SIZE)
           r == Copiar(c, nodo)
           n == Len(c.nodos)
<1>1. /\ DOMAIN c = {"nodos", "copias", "entradasPid", "reemplazada"}
      /\ EsLista(c.nodos) /\ EsLista(c.copias) /\ Len(c.copias) = n
  BY DEF CopiasDe
<1> HIDE DEF x
<1>2. /\ DOMAIN r = DOMAIN c /\ r.nodos = Append(c.nodos, nodo) /\ r.copias = Append(c.copias, x)
  BY <1>1 DEF Copiar, x
<1> HIDE DEF r
<1>3. /\ EsLista(r.nodos) /\ EsLista(r.copias) /\ n \in Nat
      /\ Len(r.nodos) = n + 1 /\ Len(r.copias) = n + 1
  BY <1>1, <1>2, ListaCrece
<1>4. r.nodos[n + 1] = nodo /\ r.copias[n + 1] = x
      /\ \A i \in 1 .. n : r.nodos[i] = c.nodos[i] /\ r.copias[i] = c.copias[i]
  <2>1. PICK S, T : c.nodos \in Seq(S) /\ c.copias \in Seq(T)
    BY <1>1 DEF EsLista
  <2>2. /\ \A i \in 1 .. n : Append(c.nodos, nodo)[i] = c.nodos[i]
        /\ Append(c.nodos, nodo)[n + 1] = nodo
    BY <2>1
  <2>3. /\ \A i \in 1 .. Len(c.copias) : Append(c.copias, x)[i] = c.copias[i]
        /\ Append(c.copias, x)[Len(c.copias) + 1] = x
    BY <2>1
  <2> QED BY <1>1, <1>2, <2>2, <2>3
<1>5. ASSUME NEW i \in 1 .. n + 1, r.nodos[i] # Nada
      PROVE  r.nodos[i] \in L /\ CopiaFiel(contenido, E, r.nodos[i], r.copias[i])
  <2>1. CASE i = n + 1
    BY <1>4, <2>1 DEF CopiaFiel, x
  <2>2. CASE i # n + 1
    <3>1. i \in 1 .. n
      BY <1>3, <2>2
    <3>2. r.nodos[i] = c.nodos[i] /\ r.copias[i] = c.copias[i]
      BY <1>4, <3>1
    <3>3. c.nodos[i] \in L /\ CopiaFiel(contenido, E, c.nodos[i], c.copias[i])
      BY <1>5, <3>1, <3>2 DEF CopiasDe
    <3> QED BY <3>2, <3>3
  <2> QED BY <2>1, <2>2
<1>6. CopiasDe(r, contenido, E, L)
  BY <1>1, <1>2, <1>3, <1>5 DEF CopiasDe
<1> QED BY <1>6 DEF r

\* Other counters of the cache.
LEMMA CopiasOtras ==
  ASSUME NEW c, NEW d, NEW m, NEW E, NEW L, CopiasDe(c, m, E, L), DOMAIN d = DOMAIN c,
         d.nodos = c.nodos, d.copias = c.copias
  PROVE  CopiasDe(d, m, E, L)
BY DEF CopiasDe

\* LEERSENTENCIA and DEREFERENCIAR of a page that is in the table.
LEMMA CopiasConsulta ==
  ASSUME NEW E, NEW L, CopiasDe(cache, contenido, E, L), NEW nodo \in L,
         LeerDePagina(nodo, 0, MARCOS_SIZE) = Copia(contenido, nodo.pid, nodo.pagina),
         Consultar(nodo)
  PROVE  CopiasDe(cache', contenido, E, L)
<1> DEFINE c == cache
           z == [c EXCEPT !.entradasPid = 0]
           y == [c EXCEPT !.reemplazada = TRUE]
<1>1. \/ cache' = c
      \/ cache' = Copiar(z, nodo)
      \/ cache' = Copiar(c, nodo)
      \/ cache' = y
  BY DEF Consultar, AlmacenarFrameEnCache
<1>2. DOMAIN c = {"nodos", "copias", "entradasPid", "reemplazada"}
  BY DEF CopiasDe
<1>3. CopiasDe(z, contenido, E, L) /\ CopiasDe(y, contenido, E, L)
  <2>1. DOMAIN z = DOMAIN c /\ z.nodos = c.nodos /\ z.copias = c.copias
    BY <1>2
  <2>2. DOMAIN y = DOMAIN c /\ y.nodos = c.nodos /\ y.copias = c.copias
    BY <1>2
  <2> HIDE DEF z, y
  <2> QED BY <2>1, <2>2, CopiasOtras
<1> HIDE DEF z, y
<1>4. CopiasDe(Copiar(z, nodo), contenido, E, L)
  BY <1>3, CopiasCopia
<1>5. CopiasDe(Copiar(c, nodo), contenido, E, L)
  BY CopiasCopia
<1> QED BY <1>1, <1>3, <1>4, <1>5

\* The command of the console.
LEMMA CopiasFlush ==
  ASSUME NEW m, NEW E, NEW L, CopiasDe(cache, m, E, L), Flush
  PROVE  CopiasDe(cache', m, E, L)
<1> DEFINE c == cache
           r == [i \in DOMAIN c.nodos |-> Nada]
<1>1. /\ DOMAIN c = {"nodos", "copias", "entradasPid", "reemplazada"}
      /\ EsLista(c.nodos) /\ EsLista(c.copias) /\ Len(c.copias) = Len(c.nodos)
  BY DEF CopiasDe
<1>2. cache' = [c EXCEPT !.nodos = r]
  BY DEF Flush
<1>3. DOMAIN c.nodos = 1 .. Len(c.nodos) /\ Len(c.nodos) \in Nat
  <2>1. PICK S : c.nodos \in Seq(S)
    BY <1>1 DEF EsLista
  <2> QED BY <2>1, LenProperties
<1>4. r \in Seq({Nada}) /\ Len(r) = Len(c.nodos) /\ \A i \in 1 .. Len(c.nodos) : r[i] = Nada
  <2>1. r \in [1 .. Len(c.nodos) -> {Nada}] /\ \A i \in 1 .. Len(c.nodos) : r[i] = Nada
    BY <1>3
  <2> HIDE DEF r
  <2> QED BY <1>3, <2>1, FuncionLista
<1> HIDE DEF r
<1>5. DOMAIN cache' = DOMAIN c /\ cache'.nodos = r /\ cache'.copias = c.copias
  BY <1>1, <1>2
<1>6. EsLista(r)
  BY <1>4 DEF EsLista
<1> HIDE DEF c
<1> QED BY <1>1, <1>4, <1>5, <1>6 DEF CopiasDe
-----------------------------------------------------------------------------
\* ESCRIBIRVARIABLE: the cells of a variable.
LEMMA EscribirEs ==
  ASSUME guion \in Guiones, PaginasEnSuMarco, NEW p \in Pids, estado[p] = "ejecuta",
         NEW d, DondeEscribe(d), NEW y, EscribirVariable(p, d, y)
  PROVE  /\ d.pag \in 0 .. UltimaDelStack /\ d.pag \notin 1 .. CantidadDePaginas
         /\ \E celdas : /\ Len(celdas) = VARIABLE_SIZE
                        /\ \A i \in 1 .. VARIABLE_SIZE : celdas[i] = y
                        /\ Escribio(contenido, contenido', UltimaDelStack, p, d.pag, d.off, celdas)
<1> DEFINE celdas == [i \in 1 .. VARIABLE_SIZE |-> y]
           k == d.pag
           o == d.off
<1>1. VARIABLE_SIZE \in Nat
  BY EjecucionAssumption
<1>2. CantidadDePaginas \in Nat \ {0} /\ UltimaDelStack \in Nat /\ CantidadDePaginas < UltimaDelStack
  BY PaginasDelGuion
<1>3. k \in 0 .. UltimaDelStack /\ k \notin 1 .. CantidadDePaginas
      /\ o \in Nat /\ o + VARIABLE_SIZE <= MARCOS_SIZE
  BY <1>2 DEF DondeEscribe, Escrita
<1>4. Len(celdas) = VARIABLE_SIZE
  <2>1. celdas \in [1 .. VARIABLE_SIZE -> {y}]
    OBVIOUS
  <2> HIDE DEF celdas
  <2> QED BY <1>1, <2>1, FuncionLista
<1>5. \A i \in 1 .. VARIABLE_SIZE : celdas[i] = y
  OBVIOUS
<1>6. EscribirEnPagina(Pagina(p, k), o, celdas)
  BY DEF EscribirVariable
<1>7. EnMemoria(estado[p], k)
  BY DEF EnMemoria
<1> HIDE DEF celdas, k, o
<1>8. Escribio(contenido, contenido', UltimaDelStack, p, k, o, celdas)
  BY <1>1, <1>3, <1>4, <1>6, <1>7, Escribe
<1> QED BY <1>3, <1>4, <1>5, <1>8 DEF k, o

\* What a CPU reads of a page of a process.
LEMMA CopiasConsultaBien ==
  ASSUME guion \in Guiones, PaginasEnSuMarco, NEW E, CopiasDe(cache, contenido, E, Leidas),
         NEW p \in Pids, estado[p] \in {"busca", "ejecuta"}, ConsultaBien(p)
  PROVE  CopiasDe(cache', contenido, E, Leidas)
<1>1. CASE UNCHANGED cache
  BY <1>1
<1>2. ASSUME NEW k \in 0 .. UltimaDelStack, Consultar(Pagina(p, k))
      PROVE  CopiasDe(cache', contenido, E, Leidas)
  <2>1. Pagina(p, k) \in Leidas
    BY DEF Leidas
  <2>2. LeerDePagina(Pagina(p, k), 0, MARCOS_SIZE) = Copia(contenido, p, k)
    BY LeePaginaEntera DEF EnMemoria
  <2> DEFINE nodo == Pagina(p, k)
  <2>3. LeerDePagina(nodo, 0, MARCOS_SIZE) = Copia(contenido, nodo.pid, nodo.pagina)
    BY <2>2 DEF Pagina
  <2>4. nodo \in Leidas /\ Consultar(nodo)
    BY <1>2, <2>1
  <2> HIDE DEF nodo
  <2> QED BY <2>3, <2>4, CopiasConsulta
<1> QED BY <1>1, <1>2 DEF ConsultaBien

\* A sentence keeps the copies of the cache.
LEMMA CopiasPrimitiva ==
  ASSUME InvPilas, Retornos, PaginasEnSuMarco, CopiasFieles, NEW p \in Pids, Primitivas(p)
  PROVE  CopiasDe(cache', contenido', sucias', Leidas) /\ \A n \in sucias' : Escrita(n.pagina)
<1>1. guion \in Guiones /\ estado[p] = "ejecuta" /\ EscribeBien(p) /\ ConsultaBien(p)
  BY PrimitivaEscribe DEF InvPilas, Pilas
<1>2. CopiasDe(cache, contenido, sucias, Leidas) /\ \A n \in sucias : Escrita(n.pagina)
  BY DEF CopiasFieles
<1>3. CopiasDe(cache', contenido, sucias, Leidas)
  BY <1>1, <1>2, CopiasConsultaBien
<1>4. CASE UNCHANGED <<memoria, sucias>>
  BY <1>2, <1>3, <1>4 DEF memoria
<1>5. ASSUME NEW d, NEW y, DondeEscribe(d), EscribirVariable(p, d, y)
      PROVE  CopiasDe(cache', contenido', sucias', Leidas) /\ \A n \in sucias' : Escrita(n.pagina)
  <2> DEFINE nodo == Pagina(p, d.pag)
  <2>1. sucias' = IF \E i \in DOMAIN cache'.nodos : cache'.nodos[i] = nodo
                  THEN sucias \cup {nodo} ELSE sucias
    BY <1>5 DEF EscribirVariable
  <2>2. PICK celdas : Escribio(contenido, contenido', UltimaDelStack, p, d.pag, d.off, celdas)
    BY <1>1, <1>5, EscribirEs
  <2>3. Escrita(nodo.pagina)
    BY <1>5 DEF DondeEscribe, Pagina
  <2> HIDE DEF nodo
  <2>4. sucias \subseteq sucias' /\ \A n \in sucias' : Escrita(n.pagina)
    BY <1>2, <2>1, <2>3
  <2>5. (\E i \in 1 .. Len(cache'.nodos) : cache'.nodos[i] = nodo) => nodo \in sucias'
    <3>1. DOMAIN cache'.nodos = 1 .. Len(cache'.nodos)
      <4>1. PICK S : cache'.nodos \in Seq(S)
        BY <1>3 DEF CopiasDe, EsLista
      <4> QED BY <4>1, LenProperties
    <3> QED BY <2>1, <3>1
  <2>6. \A x \in Leidas : x # nodo => Copia(contenido', x.pid, x.pagina) = Copia(contenido, x.pid, x.pagina)
    <3> SUFFICES ASSUME NEW q \in Pids, NEW i \in 0 .. UltimaDelStack, Pagina(q, i) # nodo
                 PROVE  Copia(contenido', q, i) = Copia(contenido, q, i)
      BY DEF Leidas, Pagina
    <3>1. q # p \/ i # d.pag
      BY DEF nodo
    <3> QED BY <2>2, <3>1, OtraCopia
  <2>7. SoloEscribe(cache', contenido, contenido', nodo, sucias, sucias', Leidas)
    BY <2>4, <2>5, <2>6 DEF SoloEscribe
  <2>8. CopiasDe(cache', contenido', sucias', Leidas)
    BY <1>3, <2>7, CopiasEscribe
  <2> QED BY <2>4, <2>8
<1> QED BY <1>1, <1>4, <1>5 DEF EscribeBien

\* More programs are loaded.
LEMMA CopiasMas ==
  ASSUME NEW c, NEW m, NEW E, NEW L, CopiasDe(c, m, E, L), NEW M, L \subseteq M
  PROVE  CopiasDe(c, m, E, M)
BY DEF CopiasDe

\* Copies of a cache, or of a memory, that does not change.
LEMMA CopiasFielesQueda ==
  ASSUME UNCHANGED guion, CopiasDe(cache', contenido', sucias', Leidas),
         \A n \in sucias' : Escrita(n.pagina),
         \A q \in Pids : estado[q] \notin {"nuevo", "carga"} => estado'[q] \notin {"nuevo", "carga"}
  PROVE  CopiasFieles'
<1>1. UltimaDelStack' = UltimaDelStack /\ \A k : Escrita(k)' = Escrita(k)
  BY GuionQueda
<1>2. Leidas \subseteq Leidas'
  BY <1>1 DEF Leidas, Pagina
<1>3. CopiasDe(cache', contenido', sucias', Leidas')
  BY <1>2, CopiasMas
<1>4. CopiasDe(cache, contenido, sucias, Leidas)'
  BY <1>3 DEF CopiasDe, CopiaFiel, Copia, En, Lee, Marco, CalcularPosicion, Nada, EsLista, Otro
<1>5. \A n \in sucias' : Escrita(n.pagina)'
  BY <1>1
<1> QED BY <1>4, <1>5 DEF CopiasFieles

\* PAGINA: no copy is of a program that is being loaded.
LEMMA CopiasEnvia ==
  ASSUME guion \in Guiones, estado \in [Pids -> Estados], PaginasEnSuMarco, TextoCargado,
         CopiasFieles, NEW p \in Pids, EnviaPagina(p)
  PROVE  CopiasFieles' /\ Escribio(contenido, contenido', UltimaDelStack, p, lectura[p].pag, 0, TextoDePagina(lectura[p].pag))
<1> DEFINE k == lectura[p].pag
           celdas == TextoDePagina(k)
<1>1. /\ estado[p] = "carga" /\ EscribirEnPagina(Pagina(p, k), 0, celdas)
      /\ UNCHANGED <<cache, guion, sucias>>
      /\ UNCHANGED estado \/ estado' = [estado EXCEPT ![p] = "busca"]
  BY DEF EnviaPagina
<1>2. k \in 1 .. CantidadDePaginas
  BY <1>1 DEF TextoCargado
<1>3. CantidadDePaginas \in Nat /\ UltimaDelStack \in Nat /\ CantidadDePaginas < UltimaDelStack /\ MARCOS_SIZE \in Nat
  BY PaginasDelGuion, MarcosAssumption
<1>4. k \in 0 .. UltimaDelStack
  BY <1>2, <1>3
<1>5. Len(celdas) = MARCOS_SIZE
  <2>1. PICK S : celdas \in [1 .. MARCOS_SIZE -> S]
    <3>1. DOMAIN celdas = 1 .. MARCOS_SIZE /\ celdas = [i \in 1 .. MARCOS_SIZE |-> celdas[i]]
      BY DEF TextoDePagina
    <3> HIDE DEF celdas
    <3>2. celdas \in [1 .. MARCOS_SIZE -> {celdas[i] : i \in 1 .. MARCOS_SIZE}]
      BY <3>1
    <3> QED BY <3>2
  <2> HIDE DEF celdas
  <2> QED BY <1>3, <2>1, FuncionLista
<1> HIDE DEF celdas
<1>6. Escribio(contenido, contenido', UltimaDelStack, p, k, 0, celdas)
  <2>1. EnMemoria(estado[p], k) /\ 0 + Len(celdas) <= MARCOS_SIZE /\ Len(celdas) \in Nat
    BY <1>1, <1>3, <1>5 DEF EnMemoria
  <2> HIDE DEF k
  <2> QED BY <1>1, <1>4, <2>1, Escribe
<1>7. CopiasDe(cache, contenido, sucias, Leidas) /\ \A n \in sucias : Escrita(n.pagina)
  BY DEF CopiasFieles
<1>8. \A i \in 1 .. Len(cache.nodos) : cache.nodos[i] # Pagina(p, k)
  <2> SUFFICES ASSUME NEW i \in 1 .. Len(cache.nodos), cache.nodos[i] = Pagina(p, k) PROVE FALSE
    OBVIOUS
  <2>1. Pagina(p, k) # Nada
    <3>1. k \in Nat
      BY <1>3, <1>4
    <3> QED BY <3>1, MarcoEs
  <2>2. Pagina(p, k) \in Leidas
    BY <1>7, <2>1 DEF CopiasDe
  <2>3. p \in {q \in Pids : estado[q] \notin {"nuevo", "carga"}}
    <3>1. PICK q \in {q \in Pids : estado[q] \notin {"nuevo", "carga"}}, j \in 0 .. UltimaDelStack :
            Pagina(p, k) = Pagina(q, j)
      BY <2>2 DEF Leidas
    <3>2. Pagina(p, k).pid = p /\ Pagina(q, j).pid = q
      BY DEF Pagina
    <3> QED BY <3>1, <3>2
  <2> QED BY <1>1, <2>3
<1>9. CopiasDe(cache, contenido', sucias, Leidas)
  <2>1. \A x \in Leidas : x # Pagina(p, k) => Copia(contenido', x.pid, x.pagina) = Copia(contenido, x.pid, x.pagina)
    <3> SUFFICES ASSUME NEW q \in Pids, NEW i \in 0 .. UltimaDelStack, Pagina(q, i) # Pagina(p, k)
                 PROVE  Copia(contenido', q, i) = Copia(contenido, q, i)
      BY DEF Leidas, Pagina
    <3>1. q # p \/ i # k
      OBVIOUS
    <3> HIDE DEF k
    <3> QED BY <1>6, <3>1, OtraCopia
  <2>2. SoloEscribe(cache, contenido, contenido', Pagina(p, k), sucias, sucias, Leidas)
    BY <1>8, <2>1 DEF SoloEscribe
  <2> QED BY <1>7, <2>2, CopiasEscribe
<1>10. CopiasDe(cache', contenido', sucias', Leidas) /\ \A n \in sucias' : Escrita(n.pagina)
  BY <1>1, <1>7, <1>9
<1>11. \A q \in Pids : estado[q] \notin {"nuevo", "carga"} => estado'[q] \notin {"nuevo", "carga"}
  BY <1>1
<1> QED BY <1>1, <1>6, <1>10, <1>11, CopiasFielesQueda DEF celdas
-----------------------------------------------------------------------------
\* The frames of Memoria, after any step.
LEMMA PasoMarcos ==
  ASSUME InvPilas, PaginasEnSuMarco, [NextEjecucion]_vars
  PROVE  PaginasEnSuMarco'
<1>1. guion \in Guiones /\ estado \in [Pids -> Estados]
  BY DEF InvPilas, Pilas
<1>2. ASSUME NEW p \in Pids, Inicializa(p) PROVE PaginasEnSuMarco'
  BY <1>1, <1>2, MarcosInicializa
<1>3. ASSUME NEW p \in Pids, LiberaElKernel(p) PROVE PaginasEnSuMarco'
  BY <1>1, <1>3, MarcosLibera
<1>4. ASSUME NEW p \in Pids, NEW e, UNCHANGED <<guion, punteroMemoria, overflow>>,
             estado[p] \in {"carga", "busca", "ejecuta"}, e \notin {"nuevo", "libre"},
             UNCHANGED estado \/ estado' = [estado EXCEPT ![p] = e]
      PROVE  PaginasEnSuMarco'
  <2>1. \A q \in Pids : estado'[q] = estado[q] \/ {estado[q], estado'[q]} \cap {"nuevo", "libre"} = {}
    BY <1>1, <1>4
  <2> QED BY <1>4, <2>1, MarcosQuedan
<1>5. ASSUME UNCHANGED <<guion, memoria, estado>> PROVE PaginasEnSuMarco'
  BY <1>5, MarcosQuedan DEF memoria
<1>6. ASSUME NEW p \in Pids, Cae(p), estado[p] = "ejecuta" PROVE PaginasEnSuMarco'
  <2>1. UNCHANGED <<guion, punteroMemoria, overflow>> /\ estado' = [estado EXCEPT ![p] = "caida"]
    BY <1>6 DEF Cae, memoria
  <2> QED BY <1>4, <1>6, <2>1
<1>7. ASSUME NEW p \in Pids, EnviaPagina(p) PROVE PaginasEnSuMarco'
  <2>1. UNCHANGED <<guion, punteroMemoria, overflow>> /\ estado[p] = "carga"
    BY <1>7 DEF EnviaPagina, EscribirEnPagina
  <2>2. UNCHANGED estado \/ estado' = [estado EXCEPT ![p] = "busca"]
    BY <1>7 DEF EnviaPagina
  <2> QED BY <1>4, <2>1, <2>2
<1>8. ASSUME NEW p \in Pids, LeerSentencia(p) PROVE PaginasEnSuMarco'
  <2>1. UNCHANGED <<guion, punteroMemoria, overflow>> /\ estado[p] = "busca"
    BY <1>8 DEF LeerSentencia, memoria
  <2>2. UNCHANGED estado \/ estado' = [estado EXCEPT ![p] = "ejecuta"]
    BY <1>8 DEF LeerSentencia
  <2> QED BY <1>4, <2>1, <2>2
<1>9. ASSUME NEW p \in Pids, Primitivas(p) PROVE PaginasEnSuMarco'
  <2>1. /\ estado[p] = "ejecuta" /\ UNCHANGED <<guion, punteroMemoria, overflow>>
        /\ UNCHANGED estado \/ \E e \in {"busca", "caida", "fin", "desborda"} :
                                 estado' = [estado EXCEPT ![p] = e]
    BY <1>9, PrimitivaAvanza DEF Avanza
  <2> QED BY <1>4, <2>1
<1>10. ASSUME NEW p \in Pids, UsaSinDefinir(p) PROVE PaginasEnSuMarco'
  BY <1>5, <1>6, <1>10 DEF UsaSinDefinir
<1>11. ASSUME NEW p \in Pids, OtroTexto(p) PROVE PaginasEnSuMarco'
  BY <1>6, <1>11 DEF OtroTexto
<1>12. ASSUME NEW p \in Pids, FinDeQuantum(p) PROVE PaginasEnSuMarco'
  BY <1>5, <1>12 DEF FinDeQuantum
<1>13. ASSUME VaciaCache \/ VaciaEnLectura PROVE PaginasEnSuMarco'
  BY <1>5, <1>13 DEF VaciaCache, VaciaEnLectura
<1>14. ASSUME UNCHANGED vars PROVE PaginasEnSuMarco'
  BY <1>5, <1>14 DEF vars
<1> QED BY <1>2, <1>3, <1>7, <1>8, <1>9, <1>10, <1>11, <1>12, <1>13, <1>14 DEF NextEjecucion

\* The copies of the cache, after any step.
LEMMA PasoCopias ==
  ASSUME InvPilas, Retornos, PaginasEnSuMarco, TextoCargado, CopiasFieles, LecturaBien,
         [NextEjecucion]_vars
  PROVE  CopiasFieles'
<1>1. /\ guion \in Guiones /\ estado \in [Pids -> Estados]
      /\ CopiasDe(cache, contenido, sucias, Leidas) /\ \A n \in sucias : Escrita(n.pagina)
  BY DEF InvPilas, Pilas, CopiasFieles
<1> DEFINE Cargadas == \A q \in Pids : estado[q] \notin {"nuevo", "carga"} => estado'[q] \notin {"nuevo", "carga"}
<1>2. ASSUME UNCHANGED <<guion, cache, contenido, sucias>>, Cargadas PROVE CopiasFieles'
  <2>1. CopiasDe(cache', contenido', sucias', Leidas) /\ \A n \in sucias' : Escrita(n.pagina)
    BY <1>1, <1>2
  <2> QED BY <1>2, <2>1, CopiasFielesQueda
<1>3. ASSUME NEW p \in Pids, NEW e, e \notin {"nuevo", "carga"}, estado' = [estado EXCEPT ![p] = e]
      PROVE  Cargadas
  BY <1>1, <1>3
<1>4. UNCHANGED estado => Cargadas
  OBVIOUS
<1>5. ASSUME NEW p \in Pids, Inicializa(p) PROVE CopiasFieles'
  <2>1. UNCHANGED <<guion, cache, contenido, sucias>>
    BY <1>5 DEF Inicializa, InicializarPrograma
  <2>2. Cargadas
    BY <1>1, <1>5 DEF Inicializa
  <2> QED BY <1>2, <2>1, <2>2
<1>6. ASSUME NEW p \in Pids, LiberaElKernel(p) PROVE CopiasFieles'
  <2>1. UNCHANGED <<guion, cache, contenido, sucias>> /\ estado' = [estado EXCEPT ![p] = "libre"]
    BY <1>6 DEF LiberaElKernel, LiberarPaginas
  <2>2. Cargadas
    BY <1>3, <2>1
  <2> QED BY <1>2, <2>1, <2>2
<1>7. ASSUME NEW p \in Pids, EnviaPagina(p) PROVE CopiasFieles'
  BY <1>1, <1>7, CopiasEnvia
<1>8. ASSUME NEW p \in Pids, LeerSentencia(p) PROVE CopiasFieles'
  <2>1. /\ estado[p] = "busca" /\ Consultar(Pagina(p, lectura[p].pag))
        /\ UNCHANGED <<guion, memoria, sucias>>
        /\ UNCHANGED estado \/ estado' = [estado EXCEPT ![p] = "ejecuta"]
    BY <1>8 DEF LeerSentencia
  <2>2. ConsultaBien(p)
    <3>1. lectura[p].pag \in 0 .. CantidadDePaginas
      BY <2>1 DEF LecturaBien, LecturaDe, LecturaPendiente
    <3>2. lectura[p].pag \in 0 .. UltimaDelStack
      BY <1>1, <3>1, PaginasDelGuion
    <3> QED BY <2>1, <3>2 DEF ConsultaBien
  <2>3. CopiasDe(cache', contenido, sucias, Leidas)
    BY <1>1, <2>1, <2>2, CopiasConsultaBien
  <2>4. Cargadas
    BY <1>3, <2>1
  <2>5. CopiasDe(cache', contenido', sucias', Leidas) /\ \A n \in sucias' : Escrita(n.pagina)
    BY <1>1, <2>1, <2>3 DEF memoria
  <2> QED BY <2>1, <2>4, <2>5, CopiasFielesQueda
<1>9. ASSUME NEW p \in Pids, Primitivas(p) PROVE CopiasFieles'
  <2>1. /\ UNCHANGED guion
        /\ UNCHANGED estado \/ \E e \in {"busca", "caida", "fin", "desborda"} :
                                 estado' = [estado EXCEPT ![p] = e]
    BY <1>9, PrimitivaAvanza DEF Avanza
  <2>2. Cargadas
    BY <1>3, <1>4, <2>1
  <2>3. CopiasDe(cache', contenido', sucias', Leidas) /\ \A n \in sucias' : Escrita(n.pagina)
    BY <1>9, CopiasPrimitiva
  <2> QED BY <2>1, <2>2, <2>3, CopiasFielesQueda
<1>10. ASSUME NEW p \in Pids, Cae(p) PROVE CopiasFieles'
  <2>1. UNCHANGED <<guion, cache, contenido, sucias>> /\ estado' = [estado EXCEPT ![p] = "caida"]
    BY <1>10 DEF Cae, memoria
  <2>2. Cargadas
    BY <1>3, <2>1
  <2> QED BY <1>2, <2>1, <2>2
<1>11. ASSUME UNCHANGED <<guion, memoria, cache, sucias, estado>> PROVE CopiasFieles'
  BY <1>2, <1>4, <1>11 DEF memoria
<1>12. ASSUME NEW p \in Pids, UsaSinDefinir(p) PROVE CopiasFieles'
  BY <1>10, <1>11, <1>12 DEF UsaSinDefinir
<1>13. ASSUME NEW p \in Pids, OtroTexto(p) PROVE CopiasFieles'
  BY <1>10, <1>13 DEF OtroTexto
<1>14. ASSUME NEW p \in Pids, FinDeQuantum(p) PROVE CopiasFieles'
  BY <1>11, <1>14 DEF FinDeQuantum
<1>15. ASSUME Flush, UNCHANGED <<guion, memoria, sucias, estado>> PROVE CopiasFieles'
  <2>1. CopiasDe(cache', contenido, sucias, Leidas)
    BY <1>1, <1>15, CopiasFlush
  <2>2. CopiasDe(cache', contenido', sucias', Leidas) /\ \A n \in sucias' : Escrita(n.pagina)
    BY <1>1, <1>15, <2>1 DEF memoria
  <2> QED BY <1>4, <1>15, <2>2, CopiasFielesQueda
<1>16. ASSUME VaciaCache \/ VaciaEnLectura PROVE CopiasFieles'
  BY <1>15, <1>16 DEF VaciaCache, VaciaEnLectura
<1>17. ASSUME UNCHANGED vars PROVE CopiasFieles'
  BY <1>11, <1>17 DEF vars
<1> QED BY <1>5, <1>6, <1>7, <1>8, <1>9, <1>12, <1>13, <1>14, <1>16, <1>17 DEF NextEjecucion
-----------------------------------------------------------------------------
\* A stack that returns, without its last context, and with another one on top.
LEMMA RetornosFrente ==
  ASSUME NEW T, NEW s \in Seq(T), s # <<>>, RetornosBien(s)
  PROVE  /\ RetornosBien(Front(s))
         /\ Last(s).retVar # NULO => Len(s) > 1 /\ RetornoBien(s[Len(s) - 1], Last(s))
<1> DEFINE f == Front(s)
           n == Len(s)
<1>1. /\ f \in Seq(T) /\ n \in Nat \ {0} /\ Len(f) = n - 1 /\ \A i \in 1..n - 1 : f[i] = s[i]
      /\ DOMAIN s = 1..n /\ Last(s) = s[n]
  BY ListaFrontal, LenProperties DEF Last
<1>2. DOMAIN f = 1..n - 1
  BY <1>1, LenProperties
<1>3. n \in 1..n
  BY <1>1
<1>4. Last(s).retVar # NULO => n > 1 /\ RetornoBien(s[n - 1], Last(s))
  BY <1>1, <1>3 DEF RetornosBien
<1> HIDE DEF f, n
<1>5. RetornosBien(f)
  <2> SUFFICES ASSUME NEW i \in 1..n - 1, f[i].retVar # NULO PROVE i > 1 /\ RetornoBien(f[i - 1], f[i])
    BY <1>2 DEF RetornosBien
  <2>1. i \in 1..n /\ f[i] = s[i]
    BY <1>1
  <2>2. i > 1 /\ RetornoBien(s[i - 1], s[i])
    BY <1>1, <2>1 DEF RetornosBien
  <2>3. i - 1 \in 1..n - 1
    BY <2>2, <1>1
  <2> QED BY <1>1, <2>1, <2>2, <2>3
<1> QED BY <1>4, <1>5 DEF f, n

\* A stack with one more context.
LEMMA RetornosAgrega ==
  ASSUME NEW T, NEW s \in Seq(T), NEW c \in T, RetornosBien(s),
         c.retVar # NULO => s # <<>> /\ RetornoBien(Last(s), c)
  PROVE  RetornosBien(Append(s, c))
<1> DEFINE r == Append(s, c)
           n == Len(s)
<1>1. /\ r \in Seq(T) /\ Len(r) = n + 1 /\ r[n + 1] = c /\ \A i \in 1..n : r[i] = s[i]
  BY AgregaFrontal
<1>2. n \in Nat /\ DOMAIN s = 1..n /\ DOMAIN r = 1..n + 1 /\ (s # <<>> => n # 0) /\ Last(s) = s[n]
  BY <1>1, LenProperties, EmptySeq DEF Last
<1> HIDE DEF r, n
<1>3. ASSUME NEW i \in 1..n + 1, r[i].retVar # NULO PROVE i > 1 /\ RetornoBien(r[i - 1], r[i])
  <2>1. CASE i = n + 1
    <3>1. s # <<>> /\ RetornoBien(Last(s), c)
      BY <1>1, <1>3, <2>1
    <3>2. n \in 1..n /\ i - 1 = n /\ i > 1
      BY <1>2, <2>1, <3>1
    <3> QED BY <1>1, <1>2, <2>1, <3>1, <3>2
  <2>2. CASE i # n + 1
    <3>1. i \in 1..n
      BY <1>2, <2>2
    <3>2. i > 1 /\ RetornoBien(s[i - 1], s[i])
      BY <1>1, <1>2, <1>3, <3>1 DEF RetornosBien
    <3>3. i - 1 \in 1..n
      BY <1>2, <3>1, <3>2
    <3> QED BY <1>1, <3>1, <3>2, <3>3
  <2> QED BY <2>1, <2>2
<1> QED BY <1>2, <1>3 DEF RetornosBien, r

\* A stack whose last context has other values, and the same names.
LEMMA RetornosOtro ==
  ASSUME NEW T, NEW s \in Seq(T), s # <<>>, RetornosBien(s), NEW S, T \subseteq S, NEW c \in S,
         c.retVar = Last(s).retVar, c.retPos = Last(s).retPos, c.destino = Last(s).destino
  PROVE  RetornosBien(Append(Front(s), c))
<1> DEFINE f == Front(s)
           n == Len(s)
<1>1. /\ f \in Seq(T) /\ n \in Nat \ {0} /\ Len(f) = n - 1 /\ \A i \in 1..n - 1 : f[i] = s[i]
      /\ f \in Seq(S)
  <2>1. Seq(T) \subseteq Seq(S)
    OBVIOUS
  <2> QED BY <2>1, ListaFrontal
<1>2. /\ RetornosBien(f)
      /\ Last(s).retVar # NULO => n > 1 /\ RetornoBien(s[n - 1], Last(s))
  BY RetornosFrente
<1>3. c.retVar # NULO => f # <<>> /\ RetornoBien(Last(f), c)
  <2> SUFFICES ASSUME c.retVar # NULO PROVE f # <<>> /\ RetornoBien(Last(f), c)
    OBVIOUS
  <2>1. n > 1 /\ RetornoBien(s[n - 1], Last(s))
    BY <1>2
  <2> HIDE DEF f, n
  <2>2. f # <<>> /\ n - 1 \in 1..n - 1
    BY <1>1, <2>1
  <2>3. Last(f) = s[n - 1]
    BY <1>1, <2>2 DEF Last
  <2> QED BY <2>1, <2>2, <2>3 DEF RetornoBien
<1> HIDE DEF f
<1>4. RetornosBien(Append(f, c))
  BY <1>1, <1>2, <1>3, RetornosAgrega
<1> QED BY <1>4 DEF f

\* What follows a sentence, unless it is the end of a function.
LEMMA PcSigue ==
  ASSUME guion \in Guiones, NEW p \in Pids, PcBien(p)
  PROVE  /\ pcb[p].pc + 1 \in 0 .. Len(guion.codigo)
         /\ pcb[p].pc + 1 = Len(guion.codigo) => Sentencia(p).op \in {"fin", "retorna"}
         /\ Sentencia(p).op \in {"jnz", "llama"} =>
              /\ (Sentencia(p).a - 1) + 1 \in 0 .. Len(guion.codigo)
              /\ (Sentencia(p).a - 1) + 1 # Len(guion.codigo)
<1>1. PICK n, k : n = Len(guion.codigo) /\ k = pcb[p].pc
  OBVIOUS
<1>2. n \in Nat \ {0} /\ DOMAIN guion.codigo = 1..n /\ k \in 0..n - 1
  BY <1>1, GuionesAssumption DEF PcBien
<1>3. k + 1 \in 1..n /\ k + 1 \in 0..n
  BY <1>2
<1>4. Sentencia(p) = guion.codigo[k + 1]
  BY <1>1 DEF Sentencia
<1>5. /\ Sentencia(p).op \in {"jnz", "llama"} => Sentencia(p).a \in 0..n - 1
      /\ k + 1 = n => Sentencia(p).op \in {"fin", "retorna"}
  BY <1>1, <1>2, <1>3, <1>4, GuionesAssumption
<1>6. \A a \in 0..n - 1 : (a - 1) + 1 \in 0..n /\ (a - 1) + 1 # n
  BY <1>2
<1> QED BY <1>1, <1>3, <1>5, <1>6

\* A variable has no place only if the caller has none before it.
LEMMA LugarNulo ==
  ASSUME guion \in Guiones, NEW U, NEW s, PilaBien(U, s), s # <<>>, DireccionDeVariable(s) = NULO
  PROVE  /\ Last(s).vars = <<>> /\ Last(s).args = <<>>
         /\ Len(s) > 1 /\ s[Len(s) - 1].vars = <<>>
<1> DEFINE n == Len(s)
           t == Last(s)
           f == Front(s)
<1>1. /\ s \in Seq(Contextos(U)) /\ n \in Nat \ {0} /\ t = s[n] /\ DOMAIN s = 1..n
      /\ f \in Seq(Contextos(U)) /\ t \in Contextos(U) /\ s = Append(f, t) /\ EnOrden(VivasDe(s))
  <2>1. s \in Seq(Contextos(U)) /\ EnOrden(VivasDe(s))
    BY DEF PilaBien
  <2> QED BY <2>1, ListaFrontal, LenProperties DEF Last
<1>2. VivasDe(s) \in Seq(Elem(U))
  BY <1>1, VivasTipo
<1>3. t.vars = <<>>
  <2> SUFFICES ASSUME t.vars # <<>> PROVE FALSE
    OBVIOUS
  <2>0. VivasDe(Append(f, t)) # <<>> /\ Last(VivasDe(Append(f, t))).dir = UltimaVariable(t)
    BY <1>1, UltimaViva
  <2>1. VivasDe(s) # <<>> /\ Last(VivasDe(s)).dir = UltimaVariable(t)
    BY <1>1, <2>0
  <2>2. EnPagina(UltimaVariable(t)) /\ UltimaVariable(t) \in Lugares
    BY <1>1, <1>2, <2>1, UltimaEnPagina
  <2>3. ProximaDireccion(UltimaVariable(t)) # NULO
    BY <2>2, ProximaBien
  <2> QED BY <2>3 DEF DireccionDeVariable
<1>4. t.args = <<>>
  <2> SUFFICES ASSUME t.args # <<>> PROVE FALSE
    OBVIOUS
  <2>0. VivasDe(Append(f, t)) # <<>> /\ Last(VivasDe(Append(f, t))) = Last(t.args)
    BY <1>1, <1>3, UltimaViva
  <2>1. VivasDe(s) # <<>> /\ Last(VivasDe(s)) = Last(t.args)
    BY <1>1, <2>0
  <2>2. EnPagina(Last(t.args).dir) /\ Last(t.args).dir \in Lugares
    BY <1>1, <1>2, <2>1, UltimaEnPagina
  <2>3. ProximaDireccion(Last(t.args).dir) # NULO
    BY <2>2, ProximaBien
  <2> QED BY <1>3, <2>3 DEF DireccionDeVariable
<1>5. /\ ~ \A i \in 1..n : s[i].vars = <<>>
      /\ ProximaDireccion(UltimaVariable(s[n - 1])) = NULO
  <2>1. CantidadDePaginas \in Nat \ {0}
    BY PaginasDelGuion
  <2>2. DireccionPrimeraPagina # NULO
    BY <2>1 DEF DireccionPrimeraPagina, NULO
  <2> QED BY <1>1, <1>3, <1>4, <2>2 DEF DireccionDeVariable
<1>6. n > 1 /\ n - 1 \in 1..n - 1 /\ Len(f) = n - 1 /\ f # <<>> /\ Last(f) = s[n - 1]
  <2>1. PICK i \in 1..n : s[i].vars # <<>>
    BY <1>5
  <2>2. i # n
    BY <1>1, <1>3, <2>1
  <2>3. n > 1
    <3> HIDE DEF n
    <3> QED BY <1>1, <2>1, <2>2
  <2>4. Len(f) = n - 1 /\ \A j \in 1..n - 1 : f[j] = s[j]
    BY <1>1, ListaFrontal
  <2> HIDE DEF n, f
  <2>5. n - 1 \in 1..n - 1 /\ f # <<>>
    BY <1>1, <2>3, <2>4
  <2> QED BY <2>3, <2>4, <2>5 DEF Last
<1>7. s[n - 1].vars = <<>>
  <2> SUFFICES ASSUME s[n - 1].vars # <<>> PROVE FALSE
    OBVIOUS
  <2> DEFINE g == Front(f)
             r == Last(f)
  <2>1. /\ g \in Seq(Contextos(U)) /\ r \in Contextos(U) /\ f = Append(g, r) /\ PilaBien(U, f)
    BY <1>1, <1>6, ListaFrontal, PilaSinUltimo
  <2>0. r.vars # <<>>
    BY <1>6
  <2>2. VivasDe(f) # <<>> /\ Last(VivasDe(f)).dir = UltimaVariable(r)
    <3>1. VivasDe(Append(g, r)) # <<>> /\ Last(VivasDe(Append(g, r))).dir = UltimaVariable(r)
      BY <2>0, <2>1, UltimaViva
    <3> QED BY <2>1, <3>1
  <2>3. VivasDe(f) \in Seq(Elem(U)) /\ EnOrden(VivasDe(f))
    BY <1>1, <2>1, VivasTipo DEF PilaBien
  <2> HIDE DEF f, g, n
  <2>4. EnPagina(UltimaVariable(r)) /\ UltimaVariable(r) \in Lugares
    BY <2>2, <2>3, UltimaEnPagina
  <2>5. ProximaDireccion(UltimaVariable(r)) # NULO
    BY <2>4, ProximaBien
  <2> QED BY <1>5, <1>6, <2>5
<1> QED BY <1>3, <1>4, <1>6, <1>7

\* The context on top returns to where it did once a name of it has another value.
LEMMA TopeRetorna ==
  ASSUME NEW U, NEW s, PilaBien(U, s), s # <<>>, RetornosBien(s), NEW x, NEW y
  PROVE  RetornosBien(Front(s) \o <<ConValor(Last(s), x, y)>>)
<1> DEFINE c == ConValor(Last(s), x, y)
           W == U \cup {y}
           T == Contextos(U)
           S == Contextos(W)
<1>1. T \subseteq S /\ PilaBien(W, s)
  <2>1. U \subseteq W
    OBVIOUS
  <2> HIDE DEF W
  <2> QED BY <2>1, PilaMayor
<1>2. s \in Seq(T) /\ Last(s) \in T /\ Front(s) \in Seq(T)
  <2>1. s \in Seq(T)
    BY DEF PilaBien
  <2> QED BY <2>1, ListaFrontal
<1>3. c \in S /\ c.retVar = Last(s).retVar
  <2>1. y \in W /\ Last(s) \in Contextos(W)
    BY <1>1, <1>2
  <2> HIDE DEF W
  <2> QED BY <2>1, ContextoConValor DEF MismoContexto
<1>4. c.retPos = Last(s).retPos /\ c.destino = Last(s).destino
  BY <1>2 DEF ConValor, Contextos
<1> HIDE DEF c, T, S
<1>5. RetornosBien(Append(Front(s), c))
  BY <1>1, <1>2, <1>3, <1>4, RetornosOtro
<1>6. Front(s) \in Seq(S)
  BY <1>1, <1>2
<1>7. Append(Front(s), c) = Front(s) \o <<c>>
  BY <1>3, <1>6, AgregaFrontal
<1> QED BY <1>5, <1>7 DEF c

\* definirVariable.
LEMMA VariablesSigue ==
  ASSUME NEW U, Pilas(U), NEW p \in Pids, RetornosBien(Pila(p)), PcBien(p), Variables(p)
  PROVE  SentenciaBien(p)
<1> DEFINE s == Pila(p)
           d == DireccionDeVariable(s)
           v == [etiqueta |-> Sentencia(p).x, dir |-> d, valor |-> Cero]
           W == U \cup {Sentencia(p).x, Cero}
           n == Len(s)
           x == [pcb[p] EXCEPT !.pila[n].vars = Append(@, v)]
           c == ConVariable(Last(s), v)
<1>1. estado[p] = "ejecuta" /\ Sentencia(p).op = "variables"
  BY DEF Variables, Ejecuta
<1>2. /\ guion \in Guiones /\ EsPcb(pcb[p]) /\ s = pcb[p].pila
      /\ PilaBien(U, s) /\ s # <<>> /\ s \in Seq(Contextos(U)) /\ Tope(p) = Last(s)
      /\ n \in Nat \ {0} /\ DOMAIN s = 1..n
  BY <1>1, PilaDe
<1>3. \/ d = NULO /\ Cae(p)
      \/ Deja(p, "desborda")
      \/ d # NULO /\ ~Desborda(d) /\ Sigue(p, x)
  BY DEF Variables
<1>4. CASE d = NULO /\ Cae(p)
  <2>1. Last(s).vars = <<>> /\ Last(s).args = <<>> /\ n > 1 /\ s[n - 1].vars = <<>>
    <3> HIDE DEF s
    <3> QED BY <1>2, <1>4, LugarNulo
  <2>2. NoSoportada(p)
    BY <1>1, <1>2, <2>1 DEF NoSoportada
  <2> QED BY <1>4, <2>2 DEF SentenciaBien
<1>5. CASE Deja(p, "desborda")
  BY <1>5 DEF SentenciaBien
<1>6. CASE d # NULO /\ ~Desborda(d) /\ Sigue(p, x)
  <2>1. d \in Lugares
    BY <1>2, <1>6, LugarDeVariable
  <2>2. U \subseteq W /\ PilaBien(W, s)
    BY <1>2, PilaMayor
  <2>3. v \in Vars(W) /\ v.dir = d
    BY <2>1 DEF Vars
  <2>5. c = [s[n] EXCEPT !.vars = Append(@, v)] /\ Last(s) = s[n]
    BY DEF ConVariable, Last
  <2>6. /\ c \in Contextos(W) /\ s \in Seq(Contextos(W)) /\ c.retVar = Last(s).retVar
        /\ c.retPos = Last(s).retPos /\ c.destino = Last(s).destino
    <3>1. Last(s) \in Contextos(W) /\ s \in Seq(Contextos(W))
      BY <1>2, <2>2, PilaSinUltimo DEF PilaBien
    <3> HIDE DEF s, v, W
    <3> QED BY <3>1, <2>3, GrupoConVariable
  <2> HIDE DEF c, v, W
  <2>7. EsPcb(x) /\ x.pila = [s EXCEPT ![n] = c] /\ x.pc = pcb[p].pc
    <3>1. "pila" \in DOMAIN pcb[p] /\ DOMAIN x = DOMAIN pcb[p] /\ x.pc = pcb[p].pc
      BY <1>2 DEF EsPcb
    <3>2. x.pila = [s EXCEPT ![n].vars = Append(@, v)]
      BY <1>2, <3>1
    <3> QED BY <3>1, <3>2, <2>5, <1>2 DEF EsPcb
  <2>8. [s EXCEPT ![n] = c] = Append(Front(s), c)
    <3> HIDE DEF s
    <3>1. s \in Seq(Contextos(W)) /\ s # <<>> /\ c \in Contextos(W)
      BY <1>2, <2>6
    <3> QED BY <3>1, CambiaUltimo, Zenon
  <2>9. RetornosBien(Append(Front(s), c))
    <3> HIDE DEF s
    <3> DEFINE C == Contextos(W)
    <3>1. RetornosBien(s)
      BY DEF s
    <3>2. C \subseteq C /\ s \in Seq(C) /\ c \in C
      BY <2>6
    <3> HIDE DEF C
    <3> QED BY <1>2, <2>6, <3>1, <3>2, RetornosOtro
  <2>10. pcb[p].pc + 1 \in 0 .. Len(guion.codigo) /\ pcb[p].pc + 1 # Len(guion.codigo)
    BY <1>1, <1>2, PcSigue
  <2>11. Sigue(p, x)
    BY <1>6
  <2> HIDE DEF x
  <2>12. SigueBien(p, x)
    BY <2>7, <2>8, <2>9, <2>10, <2>11 DEF SigueBien
  <2> QED BY <2>12 DEF SentenciaBien
<1> QED BY <1>3, <1>4, <1>5, <1>6

\* asignar.
LEMMA AsignaSigue ==
  ASSUME NEW U, Pilas(U), NEW p \in Pids, RetornosBien(Pila(p)), PcBien(p), Asigna(p)
  PROVE  SentenciaBien(p)
<1> DEFINE s == Pila(p)
           y == Valor(p, Sentencia(p).e)
           W == U \cup {y}
           c == ConValor(Tope(p), Sentencia(p).x, y)
           q == Front(s) \o <<c>>
           x == [pcb[p] EXCEPT !.pila = Front(@) \o <<ConValor(Tope(p), Sentencia(p).x, y)>>]
<1>1. estado[p] = "ejecuta" /\ Sigue(p, x) /\ Sentencia(p).op = "asigna"
  BY DEF Asigna, Ejecuta
<1>2. /\ EsPcb(pcb[p]) /\ s = pcb[p].pila /\ PilaBien(U, s) /\ s # <<>> /\ Tope(p) = Last(s)
      /\ guion \in Guiones
  BY <1>1, PilaDe
<1>3. RetornosBien(q)
  <2> HIDE DEF s, y, W
  <2> QED BY <1>2, TopeRetorna DEF s
<1>4. EsPcb(x) /\ x.pila = q /\ x.pc = pcb[p].pc
  BY <1>2 DEF EsPcb
<1>5. pcb[p].pc + 1 \in 0 .. Len(guion.codigo) /\ pcb[p].pc + 1 # Len(guion.codigo)
  BY <1>1, <1>2, PcSigue
<1> HIDE DEF x, q, W
<1>6. SigueBien(p, x)
  BY <1>1, <1>3, <1>4, <1>5 DEF SigueBien
<1> QED BY <1>6 DEF SentenciaBien

\* irAlLabel.
LEMMA JnzSigue ==
  ASSUME NEW U, Pilas(U), NEW p \in Pids, RetornosBien(Pila(p)), PcBien(p), Jnz(p)
  PROVE  SentenciaBien(p)
<1>1. estado[p] = "ejecuta" /\ Sentencia(p).op = "jnz"
  BY DEF Jnz, Ejecuta
<1>2. guion \in Guiones /\ EsPcb(pcb[p]) /\ Pila(p) = pcb[p].pila
  BY <1>1, PilaDe
<1> DEFINE x == [pcb[p] EXCEPT !.pc = Sentencia(p).a - 1]
<1>3. Sigue(p, x) \/ Sigue(p, pcb[p])
  BY DEF Jnz
<1>4. EsPcb(x) /\ x.pila = pcb[p].pila /\ x.pc = Sentencia(p).a - 1
  BY <1>2 DEF EsPcb
<1>5. /\ pcb[p].pc + 1 \in 0 .. Len(guion.codigo) /\ pcb[p].pc + 1 # Len(guion.codigo)
      /\ (Sentencia(p).a - 1) + 1 \in 0 .. Len(guion.codigo)
      /\ (Sentencia(p).a - 1) + 1 # Len(guion.codigo)
  BY <1>1, <1>2, PcSigue
<1> HIDE DEF x
<1>6. CASE Sigue(p, x)
  <2>1. SigueBien(p, x)
    BY <1>2, <1>4, <1>5, <1>6 DEF SigueBien
  <2> QED BY <2>1 DEF SentenciaBien
<1>7. CASE Sigue(p, pcb[p])
  <2>1. SigueBien(p, pcb[p])
    BY <1>2, <1>5, <1>7 DEF SigueBien
  <2> QED BY <2>1 DEF SentenciaBien
<1> QED BY <1>3, <1>6, <1>7
-----------------------------------------------------------------------------
\* What a call keeps of the one that called.
LEMMA LlamadoRetorna ==
  ASSUME guion \in Guiones, NEW p \in Pids, PcBien(p), Ejecuta(p, "llama")
  PROVE  Llamado(p).retVar # NULO => RetornoBien(Tope(p), Llamado(p))
<1> SUFFICES ASSUME Llamado(p).retVar # NULO PROVE RetornoBien(Tope(p), Llamado(p))
  OBVIOUS
<1> DEFINE x == Sentencia(p).x
<1>1. x # ""
  BY DEF Llamado, Contexto
<1>2. Sentencia(p).op = "llama" /\ Definido(Tope(p), x)
  BY <1>1, NombresDefinidos
<1>3. Llamado(p).retPos = pcb[p].pc /\ Llamado(p).retVar = ObtenerPosicionVariable(p, x) /\ Llamado(p).destino = x
  BY <1>1 DEF Llamado, Contexto
<1>4. pcb[p].pc + 1 \in 0 .. Len(guion.codigo) /\ pcb[p].pc + 1 # Len(guion.codigo)
  BY <1>2, PcSigue
<1>5. pcb[p].pc + 1 \in 0 .. Len(guion.codigo) - 1
  <2>1. PICK n, k : n = Len(guion.codigo) /\ k = pcb[p].pc
    OBVIOUS
  <2>2. n \in Nat /\ k \in Int
    BY <2>1, GuionesAssumption DEF PcBien
  <2> QED BY <1>4, <2>1, <2>2
<1>6. ObtenerPosicionVariable(p, x) = DirDe(Tope(p), x)
  BY DEF ObtenerPosicionVariable, DirDe
<1> HIDE DEF x
<1> QED BY <1>2, <1>3, <1>5, <1>6 DEF RetornoBien

\* An argument has no place only if the caller has no variables.
LEMMA ArgumentoNulo ==
  ASSUME guion \in Guiones, NEW U, NEW s, PilaBien(U, s), s # <<>>, NEW W, NEW c \in Contextos(W),
         U \subseteq W, c.args = <<>>, DireccionDeArgumento(Append(s, c)) = NULO
  PROVE  Last(s).vars = <<>>
<1> DEFINE t == Last(s)
           f == Front(s)
           r == Append(s, c)
           n == Len(s)
<1> SUFFICES ASSUME t.vars # <<>> PROVE FALSE
  OBVIOUS
<1>1. /\ s \in Seq(Contextos(U)) /\ n \in Nat \ {0} /\ t = s[n] /\ s = Append(f, t)
      /\ f \in Seq(Contextos(U)) /\ t \in Contextos(U) /\ EnOrden(VivasDe(s))
  <2>1. s \in Seq(Contextos(U)) /\ EnOrden(VivasDe(s))
    BY DEF PilaBien
  <2> QED BY <2>1, ListaFrontal DEF Last
<1>2. Last(r) = c /\ Len(r) = n + 1 /\ r[n] = t
  <2>1. s \in Seq(Contextos(W)) /\ c \in Contextos(W)
    BY PilaMayor DEF PilaBien
  <2>2. Last(r) = c /\ Len(r) = n + 1 /\ \A i \in 1..n : r[i] = s[i]
    BY ONLY <2>1, AgregaFrontal, ZenonT(60)
  <2>3. n \in 1..n
    BY <1>1
  <2> HIDE DEF r, t, f
  <2> QED BY <1>1, <2>2, <2>3
<1>3. ProximaDireccion(UltimaVariable(t)) = NULO
  <2>1. Len(r) - 1 = n
    BY <1>1, <1>2
  <2>2. DireccionDeArgumento(r) = NULO
    OBVIOUS
  <2> HIDE DEF r, n, t
  <2> QED BY <2>1, <2>2, <1>2 DEF DireccionDeArgumento
<1>4. VivasDe(s) # <<>> /\ Last(VivasDe(s)).dir = UltimaVariable(t)
  <2>1. VivasDe(Append(f, t)) # <<>> /\ Last(VivasDe(Append(f, t))).dir = UltimaVariable(t)
    BY <1>1, UltimaViva
  <2> QED BY <1>1, <2>1
<1>5. VivasDe(s) \in Seq(Elem(U))
  BY <1>1, VivasTipo
<1>6. EnPagina(UltimaVariable(t)) /\ UltimaVariable(t) \in Lugares
  BY <1>1, <1>4, <1>5, UltimaEnPagina
<1> QED BY <1>3, <1>6, ProximaBien

\* llamarSinRetorno and llamarConRetorno.
LEMMA LlamaSigue ==
  ASSUME NEW U, Pilas(U), NEW p \in Pids, RetornosBien(Pila(p)), PcBien(p), Llama(p)
  PROVE  SentenciaBien(p)
<1> DEFINE s     == Pila(p)
           args  == Sentencia(p).args
           c     == Llamado(p)
           nueva == Append(s, c)
           d     == DireccionDeArgumento(nueva)
           y     == [valor |-> args[1]]
           e     == ConArgumento(c, d, y)
           dos   == Append(s, e)
           W     == U \cup {c.retPos, c.retVar, c.destino, y}
           va    == [pcb[p] EXCEPT !.pc = Sentencia(p).a - 1]
           x1    == [va EXCEPT !.pila = nueva]
           x2    == [va EXCEPT !.pila = dos]
<1>1. estado[p] = "ejecuta" /\ Sentencia(p).op = "llama" /\ Ejecuta(p, "llama")
  BY DEF Llama, Ejecuta
<1>2. /\ guion \in Guiones /\ EsPcb(pcb[p]) /\ s = pcb[p].pila
      /\ PilaBien(U, s) /\ s # <<>> /\ Tope(p) = Last(s)
  BY <1>1, PilaDe
<1>3. \/ Cae(p) /\ (pcb[p].liberados \/ Len(args) = 2)
      \/ Cae(p) /\ args # <<>> /\ d = NULO
      \/ Sigue(p, x1)
      \/ Deja(p, "desborda")
      \/ d # NULO /\ Sigue(p, x2)
  BY DEF Llama
<1>4. U \subseteq W /\ PilaBien(W, s) /\ y \in W
  BY <1>2, PilaMayor
<1>5. /\ c \in Contextos(W) /\ c.vars = <<>> /\ c.args = <<>>
      /\ c.retVar # NULO => s # <<>> /\ RetornoBien(Last(s), c)
  <2>1. /\ c = [retPos |-> c.retPos, retVar |-> c.retVar, destino |-> c.destino,
                vars |-> <<>>, args |-> <<>>]
        /\ c.vars = <<>> /\ c.args = <<>>
    BY DEF Llamado, Contexto
  <2>2. c.retVar # NULO => s # <<>> /\ RetornoBien(Last(s), c)
    BY <1>1, <1>2, LlamadoRetorna
  <2> HIDE DEF c, y
  <2>3. <<>> \in Seq(Vars(W)) /\ <<>> \in Seq(Args(W))
    OBVIOUS
  <2>4. c.retPos \in W /\ c.retVar \in W /\ c.destino \in W
    OBVIOUS
  <2> QED BY <2>1, <2>2, <2>3, <2>4 DEF Contextos
<1>6. CASE Cae(p) /\ (pcb[p].liberados \/ Len(args) = 2)
  <2>1. NoSoportada(p)
    BY <1>1, <1>6 DEF NoSoportada
  <2> QED BY <1>6, <2>1 DEF SentenciaBien
<1>7. CASE Cae(p) /\ args # <<>> /\ d = NULO
  <2>1. Last(s).vars = <<>>
    <3>1. DireccionDeArgumento(Append(s, c)) = NULO
      BY <1>7
    <3> HIDE DEF s, c, W
    <3> QED BY <1>2, <1>4, <1>5, <3>1, ArgumentoNulo
  <2>2. NoSoportada(p)
    BY <1>1, <1>2, <1>7, <2>1 DEF NoSoportada
  <2> QED BY <1>7, <2>2 DEF SentenciaBien
<1>8. CASE Deja(p, "desborda")
  BY <1>8 DEF SentenciaBien
<1>9. va.pc + 1 \in 0 .. Len(guion.codigo) /\ va.pc + 1 # Len(guion.codigo) /\ EsPcb(va)
  <2>1. va.pc = Sentencia(p).a - 1 /\ EsPcb(va)
    BY <1>2 DEF EsPcb
  <2> QED BY <1>1, <1>2, <2>1, PcSigue
<1>10. s \in Seq(Contextos(W)) /\ RetornosBien(s)
  BY <1>4 DEF PilaBien
<1> HIDE DEF W, s
<1>11. CASE Sigue(p, x1)
  <2> HIDE DEF c
  <2>1. RetornosBien(nueva)
    BY <1>5, <1>10, RetornosAgrega
  <2> HIDE DEF va, nueva
  <2>2. EsPcb(x1) /\ x1.pila = nueva /\ x1.pc = va.pc
    BY <1>9 DEF EsPcb
  <2> HIDE DEF x1
  <2>3. SigueBien(p, x1)
    BY <1>9, <1>11, <2>1, <2>2 DEF SigueBien
  <2> QED BY <2>3 DEF SentenciaBien
<1>12. CASE d # NULO /\ Sigue(p, x2)
  <2> HIDE DEF c, y
  <2>1. e \in Contextos(W)
    <3>1. d = DireccionDeArgumento(Append(s, c)) /\ d # NULO
      BY <1>12
    <3> HIDE DEF d
    <3> QED BY <1>2, <1>4, <1>5, <3>1, ContextoDeLlamada
  <2>2. e.retVar = c.retVar /\ e.retPos = c.retPos /\ e.destino = c.destino
    BY <1>5 DEF ConArgumento, Contextos
  <2>3. e.retVar # NULO => s # <<>> /\ RetornoBien(Last(s), e)
    BY <1>5, <2>2 DEF RetornoBien
  <2> HIDE DEF e
  <2>4. RetornosBien(dos)
    BY <1>10, <2>1, <2>3, RetornosAgrega
  <2>5. Sigue(p, x2)
    BY <1>12
  <2> HIDE DEF va, dos
  <2>6. EsPcb(x2) /\ x2.pila = dos /\ x2.pc = va.pc
    BY <1>9 DEF EsPcb
  <2> HIDE DEF x2
  <2>7. SigueBien(p, x2)
    BY <1>9, <2>4, <2>5, <2>6 DEF SigueBien
  <2> QED BY <2>7 DEF SentenciaBien
<1> QED BY <1>3, <1>6, <1>7, <1>8, <1>11, <1>12

\* retornar goes to the sentence after the call.
LEMMA RetornaSigue ==
  ASSUME NEW U, Pilas(U), NEW p \in Pids, RetornosBien(Pila(p)), PcBien(p), Retorna(p)
  PROVE  SentenciaBien(p)
<1> DEFINE s == Pila(p)
           f == Front(s)
           y == Valor(p, Sentencia(p).e)
           k == Tope(p).destino
           b == s[Len(s) - 1]
           z == Destruye(p, ConValor(b, k, y))
           x == [z EXCEPT !.pc = Tope(p).retPos]
           q == Front(f) \o <<ConValor(b, k, y)>>
<1>1. estado[p] = "ejecuta"
  BY DEF Retorna, Ejecuta
<1>2. /\ guion \in Guiones /\ EsPcb(pcb[p]) /\ s = pcb[p].pila /\ PilaBien(U, s) /\ s # <<>>
      /\ s \in Seq(Contextos(U)) /\ Tope(p) = Last(s) /\ RetornosBien(s)
  BY <1>1, PilaDe
<1>3. \/ UNCHANGED <<guion, estado, pcb, lectura>>
      \/ Tope(p).retVar # NULO /\ Sigue(p, x)
  BY DEF Retorna
<1>4. CASE Tope(p).retVar # NULO /\ Sigue(p, x)
  <2>1. Len(s) # 1
    BY <1>2, <1>4 DEF PilaBien, Last
  <2>2. EsPcb(x) /\ x.pila = q /\ x.pc = Tope(p).retPos
    BY <1>2 DEF EsPcb, Destruye
  <2>3. Sigue(p, x)
    BY <1>4
  <2> HIDE DEF x
  <2>4. RetornosBien(f) /\ RetornoBien(b, Tope(p))
    <3> HIDE DEF s
    <3> QED BY <1>2, <1>4, RetornosFrente
  <2> HIDE DEF s
  <2>5. PilaBien(U, f) /\ f # <<>> /\ Last(f) = b
    BY <1>2, <2>1, PilaAbajo
  <2> HIDE DEF y, f, k, b
  <2>6. RetornosBien(q)
    BY <2>4, <2>5, TopeRetorna
  <2>7. x.pc + 1 \in 0 .. Len(guion.codigo) /\ x.pc + 1 # Len(guion.codigo)
    <3>1. PICK n, j : n = Len(guion.codigo) /\ j = x.pc
      OBVIOUS
    <3>2. n \in Nat /\ j + 1 \in 0..n - 1
      BY <1>2, <2>2, <2>4, <3>1, GuionesAssumption DEF RetornoBien
    <3>3. j + 1 \in 0..n /\ j + 1 # n
      BY <3>2
    <3> QED BY <3>1, <3>3
  <2>8. SigueBien(p, x)
    BY <2>2, <2>3, <2>6, <2>7 DEF SigueBien
  <2> QED BY <2>8 DEF SentenciaBien
<1> QED BY <1>3, <1>4 DEF SentenciaBien

\* finalizar of a function goes to the sentence after it, that may not exist.
LEMMA FinalizaSigue ==
  ASSUME NEW U, Pilas(U), NEW p \in Pids, RetornosBien(Pila(p)), PcBien(p), Finaliza(p)
  PROVE  SentenciaBien(p)
<1> DEFINE s == Pila(p)
           f == Front(s)
           b == s[Len(s) - 1]
           x == Destruye(p, b)
           q == Front(f) \o <<b>>
<1>1. estado[p] = "ejecuta" /\ Sentencia(p).op = "fin"
  BY DEF Finaliza, Ejecuta
<1>2. /\ guion \in Guiones /\ EsPcb(pcb[p]) /\ s = pcb[p].pila /\ PilaBien(U, s) /\ s # <<>>
      /\ s \in Seq(Contextos(U)) /\ Len(s) \in Nat /\ RetornosBien(s)
  BY <1>1, PilaDe
<1>3. Deja(p, "fin") \/ (Len(s) > 1 /\ Sigue(p, x))
  BY DEF Finaliza
<1>4. CASE Deja(p, "fin")
  BY <1>4 DEF SentenciaBien
<1>5. CASE Len(s) > 1 /\ Sigue(p, x)
  <2>1. Len(s) # 1
    <3>1. PICK n : n = Len(s)
      OBVIOUS
    <3>2. n \in Nat /\ n > 1
      BY <1>2, <1>5, <3>1
    <3>3. n # 1
      BY <3>2
    <3> QED BY <3>1, <3>3
  <2>2. EsPcb(x) /\ x.pila = q /\ x.pc = pcb[p].pc
    BY <1>2 DEF EsPcb, Destruye
  <2>3. Sigue(p, x)
    BY <1>5
  <2>4. NoSoportada(p)
    BY <1>1, <1>5 DEF NoSoportada
  <2> HIDE DEF x
  <2>5. RetornosBien(f)
    <3> HIDE DEF s
    <3> QED BY <1>2, RetornosFrente
  <2> HIDE DEF s
  <2>6. f # <<>> /\ f = q
    BY <1>2, <2>1, PilaAbajo
  <2>7. pcb[p].pc + 1 \in 0 .. Len(guion.codigo)
    BY <1>2, PcSigue
  <2> HIDE DEF f, q
  <2>8. SigueBien(p, x)
    BY <2>2, <2>3, <2>4, <2>5, <2>6, <2>7 DEF SigueBien
  <2> QED BY <2>8 DEF SentenciaBien
<1> QED BY <1>3, <1>4, <1>5

\* How a sentence ends.
LEMMA PrimitivaSigue ==
  ASSUME InvPilas, Retornos, LecturaBien, NEW p \in Pids, Primitivas(p)
  PROVE  SentenciaBien(p) /\ estado[p] = "ejecuta"
<1>1. PICK U : Pilas(U)
  BY DEF InvPilas
<1>2. RetornosBien(Pila(p))
  BY DEF Retornos, Pila
<1>3. estado[p] = "ejecuta"
  BY PrimitivaAvanza
<1>4. PcBien(p)
  BY <1>3 DEF LecturaBien, LecturaDe, EnMarcha
<1> QED BY <1>1, <1>2, <1>3, <1>4, VariablesSigue, AsignaSigue, JnzSigue, LlamaSigue, RetornaSigue,
           FinalizaSigue DEF Primitivas
-----------------------------------------------------------------------------
\* A stack of a process is another one, that returns.
LEMMA RetornosCambia ==
  ASSUME UNCHANGED guion, DOMAIN pcb = Pids, Retornos, NEW p \in Pids, NEW x, RetornosBien(x.pila),
         pcb' = [pcb EXCEPT ![p] = x]
  PROVE  Retornos'
<1>1. \A q \in Pids : RetornosBien(pcb'[q].pila)
  BY DEF Retornos
<1>2. ASSUME NEW s, RetornosBien(s) PROVE RetornosBien(s)'
  BY <1>2 DEF RetornosBien, RetornoBien, Definido, IndiceDe, DirDe, NULO, SelectLastInSeq, Max
<1>3. \A q \in Pids : RetornosBien(pcb[q].pila)'
  <2> SUFFICES ASSUME NEW q \in Pids PROVE RetornosBien(pcb[q].pila)'
    OBVIOUS
  <2>1. PICK s : s = pcb'[q].pila
    OBVIOUS
  <2>2. RetornosBien(s)'
    BY <1>1, <1>2, <2>1
  <2> QED BY <2>1, <2>2 DEF RetornosBien
<1> QED BY <1>3 DEF Retornos

\* The same, when the stacks do not change.
LEMMA RetornosQuedan ==
  ASSUME UNCHANGED <<guion, pcb>>, Retornos
  PROVE  Retornos'
<1>1. ASSUME NEW s, RetornosBien(s) PROVE RetornosBien(s)'
  BY <1>1 DEF RetornosBien, RetornoBien, Definido, IndiceDe, DirDe, NULO, SelectLastInSeq, Max
<1>2. ASSUME NEW q \in Pids PROVE RetornosBien(pcb[q].pila)'
  <2>1. PICK s : s = pcb[q].pila
    OBVIOUS
  <2>2. RetornosBien(s)'
    BY <1>1, <2>1 DEF Retornos
  <2> QED BY <2>1, <2>2 DEF RetornosBien
<1> QED BY <1>2 DEF Retornos

\* The stacks return, after any step.
LEMMA PasoRetornos ==
  ASSUME InvPilas, Retornos, LecturaBien, [NextEjecucion]_vars
  PROVE  Retornos'
<1>1. DOMAIN pcb = Pids /\ \A q \in Pids : EsPcb(pcb[q])
  BY DEF InvPilas, Pilas
<1>2. ASSUME NEW p \in Pids, Primitivas(p) PROVE Retornos'
  <2>1. SentenciaBien(p)
    BY <1>2, PrimitivaSigue
  <2>2. CASE Cae(p)
    BY <2>2, RetornosQuedan DEF Cae
  <2>3. ASSUME NEW e, Deja(p, e) PROVE Retornos'
    <3> DEFINE x == [pcb[p] EXCEPT !.pila = <<>>]
    <3>1. pcb' = [pcb EXCEPT ![p] = x] /\ UNCHANGED guion
      BY <2>3 DEF Deja
    <3>2. x.pila = <<>>
      BY <1>1 DEF EsPcb
    <3>3. RetornosBien(x.pila)
      BY <3>2 DEF RetornosBien
    <3> HIDE DEF x
    <3> QED BY <1>1, <3>1, <3>3, RetornosCambia
  <2>4. ASSUME NEW y, SigueBien(p, y) PROVE Retornos'
    <3> DEFINE x == [y EXCEPT !.pc = y.pc + 1]
    <3>1. pcb' = [pcb EXCEPT ![p] = x] /\ UNCHANGED guion
      BY <2>4 DEF SigueBien, Sigue
    <3>2. x.pila = y.pila
      BY <2>4 DEF SigueBien, EsPcb
    <3>3. RetornosBien(x.pila)
      BY <2>4, <3>2 DEF SigueBien
    <3> HIDE DEF x
    <3> QED BY <1>1, <3>1, <3>3, RetornosCambia
  <2>5. CASE UNCHANGED <<guion, estado, pcb, lectura>>
    BY <2>5, RetornosQuedan
  <2> QED BY <2>1, <2>2, <2>3, <2>4, <2>5 DEF SentenciaBien
<1>3. ASSUME NEW p \in Pids, FinDeQuantum(p) PROVE Retornos'
  <2> DEFINE x == [pcb[p] EXCEPT !.liberados = FALSE]
  <2>1. pcb' = [pcb EXCEPT ![p] = x] /\ UNCHANGED guion
    BY <1>3 DEF FinDeQuantum
  <2>2. x.pila = pcb[p].pila
    BY <1>1 DEF EsPcb
  <2>3. RetornosBien(x.pila)
    BY <2>2 DEF Retornos
  <2> HIDE DEF x
  <2> QED BY <1>1, <2>1, <2>3, RetornosCambia
<1>4. ASSUME NEW p \in Pids, Inicializa(p) \/ EnviaPagina(p) \/ LeerSentencia(p) \/ UsaSinDefinir(p)
                             \/ OtroTexto(p) \/ LiberaElKernel(p)
      PROVE  UNCHANGED <<guion, pcb>>
  BY <1>4 DEF Inicializa, EnviaPagina, LeerSentencia, UsaSinDefinir, OtroTexto, LiberaElKernel, Cae
<1>5. VaciaCache \/ VaciaEnLectura \/ UNCHANGED vars => UNCHANGED <<guion, pcb>>
  BY DEF VaciaCache, VaciaEnLectura, vars
<1> QED BY <1>2, <1>3, <1>4, <1>5, RetornosQuedan DEF NextEjecucion
-----------------------------------------------------------------------------
\* The text in memory, when no page of it is written.
LEMMA TextoQueda ==
  ASSUME guion \in Guiones, UNCHANGED guion, TextoCargado, DOMAIN lectura' = Pids,
         \A q \in Pids : estado'[q] \in {"nuevo", "carga"} =>
           /\ estado[q] \in {"nuevo", "carga"} /\ lectura'[q] = lectura[q]
           /\ estado'[q] = "nuevo" => estado[q] = "nuevo",
         \A q \in Pids : estado'[q] \in {"busca", "ejecuta"} => estado[q] \in {"busca", "ejecuta"},
         \A q \in Pids : \A k \in 1 .. CantidadDePaginas : Copia(contenido', q, k) = Copia(contenido, q, k)
  PROVE  TextoCargado'
<1>1. CantidadDePaginas' = CantidadDePaginas /\ \A k : TextoDePagina(k)' = TextoDePagina(k)
  BY GuionQueda
<1>2. \A q \in Pids : estado'[q] \in {"nuevo", "carga"} =>
        /\ "pag" \in DOMAIN lectura'[q] /\ lectura'[q].pag \in 1 .. CantidadDePaginas
        /\ estado'[q] = "nuevo" => lectura'[q].pag = 1
  BY DEF TextoCargado
<1>3. ASSUME NEW q \in Pids, NEW k \in 1 .. CargadaHasta(q)'
      PROVE  Copia(contenido', q, k) = TextoDePagina(k)
  <2>1. k \in 1 .. CargadaHasta(q) /\ k \in 1 .. CantidadDePaginas
    <3>1. CASE estado'[q] = "carga"
      <4>1. CargadaHasta(q)' = lectura'[q].pag - 1
        BY <3>1 DEF CargadaHasta
      <4>2. lectura'[q] = lectura[q] /\ lectura[q].pag \in 1 .. CantidadDePaginas
            /\ estado[q] \in {"nuevo", "carga"} /\ (estado[q] = "nuevo" => lectura[q].pag = 1)
        BY <3>1 DEF TextoCargado
      <4>3. k \in 1 .. lectura[q].pag - 1
        BY <4>1, <4>2
      <4>4. k \in 1 .. CantidadDePaginas /\ lectura[q].pag # 1
        <5>1. CantidadDePaginas \in Nat
          BY PaginasDelGuion
        <5> QED BY <4>2, <4>3, <5>1
      <4>5. CargadaHasta(q) = lectura[q].pag - 1
        BY <4>2, <4>4 DEF CargadaHasta
      <4> QED BY <4>3, <4>4, <4>5
    <3>2. CASE estado'[q] \in {"busca", "ejecuta"}
      <4>1. CargadaHasta(q)' = CantidadDePaginas'
        BY <3>2 DEF CargadaHasta
      <4>2. CargadaHasta(q) = CantidadDePaginas
        BY <3>2 DEF CargadaHasta
      <4> QED BY <1>1, <4>1, <4>2
    <3>3. CASE estado'[q] \notin {"carga", "busca", "ejecuta"}
      <4>1. CargadaHasta(q)' = 0
        BY <3>3 DEF CargadaHasta
      <4>2. k \in 1 .. 0
        BY <4>1
      <4> QED BY <4>2
    <3> QED BY <3>1, <3>2, <3>3
  <2>2. Copia(contenido, q, k) = TextoDePagina(k)
    BY <2>1 DEF TextoCargado
  <2> QED BY <2>1, <2>2
<1>4. \A q \in Pids : \A k \in 1 .. CargadaHasta(q)' : Copia(contenido, q, k)' = TextoDePagina(k)'
  BY <1>1, <1>3 DEF Copia, En, Lee, Marco, CalcularPosicion, Otro
<1> QED BY <1>1, <1>2, <1>4 DEF TextoCargado

\* How long what is sent of a page is, and how many were sent.
LEMMA LargoDelTexto ==
  ASSUME NEW k
  PROVE  Len(TextoDePagina(k)) = MARCOS_SIZE
         /\ TextoDePagina(k) = [i \in 1 .. MARCOS_SIZE |-> TextoDePagina(k)[i]]
<1> DEFINE c == TextoDePagina(k)
<1>1. c = [i \in 1 .. MARCOS_SIZE |-> c[i]]
  BY DEF TextoDePagina
<1> HIDE DEF c
<1>2. c \in [1 .. MARCOS_SIZE -> {c[i] : i \in 1 .. MARCOS_SIZE}]
  BY <1>1
<1> DEFINE S == {c[i] : i \in 1 .. MARCOS_SIZE}
<1> HIDE DEF S
<1>3. MARCOS_SIZE \in Nat /\ c \in [1 .. MARCOS_SIZE -> S]
  BY <1>2, MarcosAssumption DEF S
<1>4. Len(c) = MARCOS_SIZE
  BY <1>3, FuncionLista
<1> QED BY <1>1, <1>4 DEF c

\* The pages that were sent are pages of the text.
LEMMA TextoHasta ==
  ASSUME guion \in Guiones, TextoCargado, NEW q \in Pids, NEW j \in 1 .. CargadaHasta(q)
  PROVE  j \in 1 .. CantidadDePaginas
<1>1. CantidadDePaginas \in Nat
  BY PaginasDelGuion
<1>2. CASE estado[q] = "carga"
  <2>1. lectura[q].pag \in 1 .. CantidadDePaginas /\ CargadaHasta(q) = lectura[q].pag - 1
    BY <1>2 DEF TextoCargado, CargadaHasta
  <2> QED BY <1>1, <2>1
<1>3. CASE estado[q] \in {"busca", "ejecuta"}
  BY <1>3 DEF CargadaHasta
<1>4. CASE estado[q] \notin {"carga", "busca", "ejecuta"}
  <2>1. j \in 1 .. 0
    BY <1>4 DEF CargadaHasta
  <2> QED BY <2>1
<1> QED BY <1>2, <1>3, <1>4

\* PAGINA: the text in memory has one more page.
LEMMA TextoEnvia ==
  ASSUME guion \in Guiones, estado \in [Pids -> Estados], PaginasEnSuMarco, TextoCargado,
         CopiasFieles, NEW p \in Pids, EnviaPagina(p)
  PROVE  TextoCargado'
<1> DEFINE k == lectura[p].pag
           c == TextoDePagina(k)
           C == CantidadDePaginas
<1>1. /\ estado[p] = "carga" /\ UNCHANGED guion
      /\ \/ /\ k = C /\ estado' = [estado EXCEPT ![p] = "busca"]
            /\ \E l : lectura' = [lectura EXCEPT ![p] = l]
         \/ k # C /\ UNCHANGED estado /\ lectura' = [lectura EXCEPT ![p].pag = k + 1]
  BY DEF EnviaPagina
<1>2. k \in 1 .. C /\ DOMAIN lectura = Pids /\ "pag" \in DOMAIN lectura[p]
  BY <1>1 DEF TextoCargado
<1>3. C \in Nat /\ UltimaDelStack \in Nat /\ C < UltimaDelStack /\ MARCOS_SIZE \in Nat \ {0}
  BY PaginasDelGuion, MarcosAssumption
<1>4. C' = C /\ \A j : TextoDePagina(j)' = TextoDePagina(j)
  BY <1>1, GuionQueda
<1>5. Escribio(contenido, contenido', UltimaDelStack, p, k, 0, c)
  BY CopiasEnvia
<1>6. Copia(contenido', p, k) = c
  <2>1. Len(c) = MARCOS_SIZE /\ c = [i \in 1 .. MARCOS_SIZE |-> c[i]]
    BY <1>3, LargoDelTexto
  <2> HIDE DEF c, k, C
  <2>2. ASSUME NEW i \in 1 .. MARCOS_SIZE PROVE En(contenido', p, k, i - 1) = c[i]
    <3>1. i - 1 \in 0 .. MARCOS_SIZE - 1 /\ i - 1 \in 0 .. 0 + Len(c) - 1 /\ (i - 1) - 0 + 1 = i
      BY <1>3, <2>1
    <3>2. k \in 0 .. UltimaDelStack
      BY <1>2, <1>3
    <3>3. En(contenido', p, k, i - 1) = c[(i - 1) - 0 + 1]
      BY <1>5, <3>1, <3>2 DEF Escribio
    <3> QED BY <3>1, <3>3
  <2> QED BY <2>1, <2>2 DEF Copia
<1>7. ASSUME NEW q \in Pids, NEW j \in 1 .. C, q # p \/ j # k
      PROVE  Copia(contenido', q, j) = Copia(contenido, q, j)
  <2>1. j \in 0 .. UltimaDelStack
    BY <1>3
  <2> HIDE DEF k, c, C
  <2> QED BY <1>5, <1>7, <2>1, OtraCopia
<1> HIDE DEF c
<1>8. \A q \in Pids : estado'[q] \in {"nuevo", "carga"} =>
        /\ "pag" \in DOMAIN lectura'[q] /\ lectura'[q].pag \in 1 .. C
        /\ estado'[q] = "nuevo" => lectura'[q].pag = 1
  <2> SUFFICES ASSUME NEW q \in Pids, estado'[q] \in {"nuevo", "carga"}
               PROVE  /\ "pag" \in DOMAIN lectura'[q] /\ lectura'[q].pag \in 1 .. C
                      /\ estado'[q] = "nuevo" => lectura'[q].pag = 1
    OBVIOUS
  <2>1. CASE q # p
    <3>1. lectura'[q] = lectura[q] /\ estado'[q] = estado[q]
      BY <1>1, <1>2, <2>1
    <3> QED BY <3>1 DEF TextoCargado
  <2>2. CASE q = p
    <3>1. k # C /\ UNCHANGED estado /\ lectura' = [lectura EXCEPT ![p].pag = k + 1]
      BY <1>1, <2>2
    <3>2. "pag" \in DOMAIN lectura'[p] /\ lectura'[p].pag = k + 1 /\ estado'[p] = "carga"
      BY <1>1, <1>2, <3>1
    <3>3. k + 1 \in 1 .. C
      BY <1>2, <1>3, <3>1
    <3> QED BY <2>2, <3>2, <3>3
  <2> QED BY <2>1, <2>2
<1>9. ASSUME NEW q \in Pids, NEW j \in 1 .. CargadaHasta(q)'
      PROVE  Copia(contenido', q, j) = TextoDePagina(j)
  <2>1. CASE q # p
    <3>1. CargadaHasta(q)' = CargadaHasta(q)
      <4>1. lectura'[q] = lectura[q] /\ estado'[q] = estado[q]
        BY <1>1, <1>2, <2>1
      <4> QED BY <1>4, <4>1 DEF CargadaHasta
    <3>2. Copia(contenido, q, j) = TextoDePagina(j)
      BY <3>1 DEF TextoCargado
    <3>3. j \in 1 .. C
      BY <1>3, <2>1, <3>1, TextoHasta
    <3> QED BY <1>7, <2>1, <3>2, <3>3
  <2>2. CASE q = p
    <3>1. CargadaHasta(p)' = k
      <4>1. CASE k = C
        <5>1. estado'[p] = "busca"
          BY <1>1, <4>1
        <5> QED BY <1>4, <4>1, <5>1 DEF CargadaHasta
      <4>2. CASE k # C
        <5>1. estado'[p] = "carga" /\ lectura'[p].pag = k + 1
          BY <1>1, <1>2, <4>2
        <5>2. CargadaHasta(p)' = (k + 1) - 1
          BY <5>1 DEF CargadaHasta
        <5>3. k \in Int
          BY <1>2
        <5> HIDE DEF k
        <5> QED BY <5>2, <5>3
      <4> QED BY <4>1, <4>2
    <3>2. CargadaHasta(p) = k - 1
      BY <1>1 DEF CargadaHasta
    <3>3. j \in 1 .. k
      BY <2>2, <3>1
    <3>4. j = k \/ (j \in 1 .. k - 1 /\ j # k)
      <4>1. k \in Int
        BY <1>2
      <4> HIDE DEF k
      <4> QED BY <3>3, <4>1
    <3>5. CASE j = k
      BY <1>6, <2>2, <3>5 DEF c
    <3>6. CASE j \in 1 .. k - 1 /\ j # k
      <4>1. Copia(contenido, p, j) = TextoDePagina(j)
        BY <3>2, <3>6 DEF TextoCargado
      <4>2. j \in 1 .. C
        <5> HIDE DEF k, C
        <5> QED BY <1>2, <1>3, <3>6
      <4> QED BY <1>7, <2>2, <3>6, <4>1, <4>2
    <3> QED BY <3>4, <3>5, <3>6
  <2> QED BY <2>1, <2>2
<1>10. \A q \in Pids : \A j \in 1 .. CargadaHasta(q)' : Copia(contenido, q, j)' = TextoDePagina(j)'
  BY <1>4, <1>9 DEF Copia, En, Lee, Marco, CalcularPosicion, Otro
<1>11. DOMAIN lectura' = Pids
  BY <1>1, <1>2
<1> QED BY <1>4, <1>8, <1>10, <1>11 DEF TextoCargado

\* The text in memory, after any step: a sentence does not write in it.
LEMMA PasoTexto ==
  ASSUME InvPilas, Retornos, PaginasEnSuMarco, TextoCargado, CopiasFieles, [NextEjecucion]_vars
  PROVE  TextoCargado'
<1>1. guion \in Guiones /\ estado \in [Pids -> Estados] /\ DOMAIN lectura = Pids
  BY DEF InvPilas, Pilas, TextoCargado
<1> DEFINE Igual == \A q \in Pids : \A k \in 1 .. CantidadDePaginas :
                       Copia(contenido', q, k) = Copia(contenido, q, k)
<1>2. UNCHANGED contenido => Igual
  OBVIOUS
<1>3. ASSUME NEW p \in Pids, UNCHANGED guion, Igual, estado[p] \notin {"nuevo", "carga"},
             \/ UNCHANGED estado
             \/ \E e : /\ estado' = [estado EXCEPT ![p] = e] /\ e \notin {"nuevo", "carga"}
                       /\ e \in {"busca", "ejecuta"} => estado[p] \in {"busca", "ejecuta"},
             UNCHANGED lectura \/ \E l : lectura' = [lectura EXCEPT ![p] = l]
      PROVE  TextoCargado'
  <2>1. DOMAIN lectura' = Pids
    BY <1>1, <1>3
  <2>2. \A q \in Pids : estado'[q] \in {"nuevo", "carga"} =>
           /\ estado[q] \in {"nuevo", "carga"} /\ lectura'[q] = lectura[q]
           /\ estado'[q] = "nuevo" => estado[q] = "nuevo"
    BY <1>1, <1>3
  <2>3. \A q \in Pids : estado'[q] \in {"busca", "ejecuta"} => estado[q] \in {"busca", "ejecuta"}
    BY <1>1, <1>3
  <2> QED BY <1>1, <1>3, <2>1, <2>2, <2>3, TextoQueda
<1>4. ASSUME UNCHANGED <<guion, memoria, estado, lectura>> PROVE TextoCargado'
  <2>1. Igual
    BY <1>4 DEF memoria
  <2> QED BY <1>1, <1>4, <2>1, TextoQueda
<1>5. ASSUME NEW p \in Pids, Primitivas(p) PROVE TextoCargado'
  <2>1. estado[p] = "ejecuta" /\ UNCHANGED guion /\ EscribeBien(p)
        /\ Avanza(p, {"busca", "caida", "fin", "desborda"})
    BY <1>5, PrimitivaAvanza, PrimitivaEscribe
  <2>2. Igual
    <3>1. CASE UNCHANGED memoria
      BY <3>1 DEF memoria
    <3>2. ASSUME NEW d, NEW y, DondeEscribe(d), EscribirVariable(p, d, y) PROVE Igual
      <4>1. PICK celdas : Escribio(contenido, contenido', UltimaDelStack, p, d.pag, d.off, celdas)
        BY <1>1, <2>1, <3>2, EscribirEs
      <4>2. d.pag \notin 1 .. CantidadDePaginas
        BY <1>1, <2>1, <3>2, EscribirEs
      <4> SUFFICES ASSUME NEW q \in Pids, NEW k \in 1 .. CantidadDePaginas
                   PROVE  Copia(contenido', q, k) = Copia(contenido, q, k)
        OBVIOUS
      <4>3. k # d.pag
        BY <4>2
      <4>4. k \in 0 .. UltimaDelStack
        BY <1>1, PaginasDelGuion
      <4> QED BY <4>1, <4>3, <4>4, OtraCopia
    <3> QED BY <2>1, <3>1, <3>2 DEF EscribeBien
  <2> QED BY <1>3, <2>1, <2>2 DEF Avanza
<1>6. ASSUME NEW p \in Pids, Inicializa(p) PROVE TextoCargado'
  <2>1. /\ UNCHANGED <<guion, contenido, lectura>> /\ estado[p] = "nuevo"
        /\ estado' = [estado EXCEPT ![p] = "carga"]
    BY <1>6 DEF Inicializa, InicializarPrograma
  <2>2. Igual
    BY <2>1
  <2>3. \A q \in Pids : estado'[q] \in {"nuevo", "carga"} =>
           /\ estado[q] \in {"nuevo", "carga"} /\ lectura'[q] = lectura[q]
           /\ estado'[q] = "nuevo" => estado[q] = "nuevo"
    BY <1>1, <2>1
  <2>4. \A q \in Pids : estado'[q] \in {"busca", "ejecuta"} => estado[q] \in {"busca", "ejecuta"}
    BY <1>1, <2>1
  <2> QED BY <1>1, <2>1, <2>2, <2>3, <2>4, TextoQueda
<1>7. ASSUME NEW p \in Pids, EnviaPagina(p) PROVE TextoCargado'
  BY <1>1, <1>7, TextoEnvia
<1>8. ASSUME NEW p \in Pids, LeerSentencia(p) PROVE TextoCargado'
  <2>1. /\ estado[p] = "busca" /\ UNCHANGED <<memoria, guion>>
        /\ UNCHANGED estado \/ estado' = [estado EXCEPT ![p] = "ejecuta"]
        /\ \E l : lectura' = [lectura EXCEPT ![p] = l]
    BY <1>8 DEF LeerSentencia
  <2>2. Igual
    BY <2>1 DEF memoria
  <2> QED BY <1>3, <2>1, <2>2
<1>9. ASSUME NEW p \in Pids, LiberaElKernel(p) PROVE TextoCargado'
  <2>1. /\ UNCHANGED <<guion, contenido, lectura>> /\ estado[p] \in {"fin", "desborda"}
        /\ estado' = [estado EXCEPT ![p] = "libre"]
    BY <1>9 DEF LiberaElKernel, LiberarPaginas
  <2>2. Igual
    BY <2>1
  <2>3. \A q \in Pids : estado'[q] \in {"nuevo", "carga"} =>
           /\ estado[q] \in {"nuevo", "carga"} /\ lectura'[q] = lectura[q]
           /\ estado'[q] = "nuevo" => estado[q] = "nuevo"
    BY <1>1, <2>1
  <2>4. \A q \in Pids : estado'[q] \in {"busca", "ejecuta"} => estado[q] \in {"busca", "ejecuta"}
    BY <1>1, <2>1
  <2> QED BY <1>1, <2>1, <2>2, <2>3, <2>4, TextoQueda
<1>10. ASSUME NEW p \in Pids, Cae(p), estado[p] = "ejecuta" PROVE TextoCargado'
  <2>1. UNCHANGED <<guion, contenido, lectura>> /\ estado' = [estado EXCEPT ![p] = "caida"]
    BY <1>10 DEF Cae, memoria
  <2> QED BY <1>2, <1>3, <1>10, <2>1
<1>11. ASSUME NEW p \in Pids, UsaSinDefinir(p) \/ OtroTexto(p) PROVE TextoCargado'
  BY <1>4, <1>10, <1>11 DEF UsaSinDefinir, OtroTexto
<1>12. ASSUME NEW p \in Pids, FinDeQuantum(p) PROVE TextoCargado'
  BY <1>4, <1>12 DEF FinDeQuantum
<1>13. ASSUME VaciaCache \/ VaciaEnLectura \/ UNCHANGED vars PROVE TextoCargado'
  BY <1>4, <1>13 DEF VaciaCache, VaciaEnLectura, vars
<1> QED BY <1>5, <1>6, <1>7, <1>8, <1>9, <1>11, <1>12, <1>13 DEF NextEjecucion
-----------------------------------------------------------------------------
\* The page where a sentence begins, that is the next one, or the same.
LEMMA Arriba ==
  ASSUME NEW i \in Nat, NEW m \in Nat \ {0}, NEW c \in Nat, i <= c * m
  PROVE  /\ (i + m - 1) \div m \in 0 .. c /\ i % m \in 0 .. m - 1
         /\ (IF i % m = 0 THEN (i + m - 1) \div m ELSE (i + m - 1) \div m - 1) * m + (i % m) = i
<1> DEFINE a == i \div m
           r == i % m
           j == i + m - 1
           q == j \div m
           t == j % m
<1>1. j \in Nat
  OBVIOUS
<1>2. a \in Nat /\ r \in 0 .. m - 1 /\ i = (a * m) + r
  BY Division
<1>3. q \in Nat /\ t \in 0 .. m - 1 /\ j = (q * m) + t
  <2> HIDE DEF j
  <2> QED BY <1>1, Division
<1> HIDE DEF a, r, q, t
<1>4. PICK x, y : x = a * m /\ y = q * m
  OBVIOUS
<1>5. x \in Nat /\ y \in Nat /\ i = x + r /\ i + m - 1 = y + t
  BY <1>2, <1>3, <1>4, Productos
<1>6. (a + 1) * m = x + m /\ a + 1 \in Nat
  BY <1>2, <1>4, Productos
<1>7. CASE r = 0
  <2>1. q = a
    <3>1. ~(q < a)
      <4> SUFFICES ASSUME q < a PROVE FALSE
        OBVIOUS
      <4>1. y + m <= x
        BY <1>2, <1>3, <1>4, Productos
      <4> QED BY <1>3, <1>5, <1>7, <4>1
    <3>2. ~(a < q)
      <4> SUFFICES ASSUME a < q PROVE FALSE
        OBVIOUS
      <4>1. x + m <= y
        BY <1>2, <1>3, <1>4, Productos
      <4> QED BY <1>3, <1>5, <1>7, <4>1
    <3> QED BY <1>2, <1>3, <3>1, <3>2
  <2>2. ~(c < a)
    <3> SUFFICES ASSUME c < a PROVE FALSE
      OBVIOUS
    <3>1. c * m + m <= x /\ c * m \in Nat
      BY <1>2, <1>4, Productos
    <3>2. PICK z : z = c * m
      OBVIOUS
    <3> QED BY <1>5, <1>7, <3>1, <3>2
  <2> QED BY <1>2, <1>4, <1>5, <1>7, <2>1, <2>2 DEF q, r
<1>8. CASE r # 0
  <2>1. q = a + 1
    <3>1. ~(q < a + 1)
      <4> SUFFICES ASSUME q < a + 1 PROVE FALSE
        OBVIOUS
      <4>1. y + m <= x + m
        BY <1>3, <1>4, <1>6, Productos
      <4> QED BY <1>2, <1>3, <1>5, <1>8, <4>1
    <3>2. ~(a + 1 < q)
      <4> SUFFICES ASSUME a + 1 < q PROVE FALSE
        OBVIOUS
      <4>1. x + m + m <= y
        BY <1>3, <1>4, <1>6, Productos
      <4> QED BY <1>2, <1>3, <1>5, <1>8, <4>1
    <3> QED BY <1>3, <1>6, <3>1, <3>2
  <2>2. a + 1 <= c
    <3> SUFFICES ASSUME c < a + 1 PROVE FALSE
      BY <1>6
    <3>1. ~(a < c)
      BY <1>2
    <3>2. c * m \in Nat /\ (c < a => c * m + m <= x)
      BY <1>2, <1>4, Productos
    <3>3. c = a => c * m = x
      BY <1>4
    <3>4. PICK z : z = c * m
      OBVIOUS
    <3> QED BY <1>2, <1>5, <1>8, <3>1, <3>2, <3>3, <3>4
  <2>3. q - 1 = a
    BY <1>2, <2>1
  <2> QED BY <1>2, <1>4, <1>5, <1>6, <1>8, <2>1, <2>2, <2>3 DEF q, r
<1> QED BY <1>7, <1>8

\* What is left of a sentence after a page: it is in the next ones, that are of the text.
LEMMA OtraPagina ==
  ASSUME NEW m \in Nat \ {0}, NEW c \in Nat, NEW t \in Nat, t <= c * m,
         NEW fin \in Nat, fin <= t, NEW falta \in Nat, falta <= fin,
         NEW pag \in 0 .. c, NEW off \in 0 .. m - 1, NEW x \in {pag, pag - 1},
         x * m + off = fin - falta, ~(off + falta <= m)
  PROVE  /\ m - off \in 1 .. falta /\ m - off # falta /\ pag + 1 \in 0 .. c
         /\ (x + 1) * m + 0 = fin - (falta - (m - off))
<1>1. x \in Int
  OBVIOUS
<1>2. (x + 1) * m = x * m + m
  BY <1>1, Z3
<1>3. PICK y : y = x * m
  OBVIOUS
<1>4. y \in Int
  BY <1>1, <1>3
<1>5. m - off \in 1 .. falta /\ m - off # falta /\ y + m = fin - (falta - (m - off))
  BY <1>3, <1>4
<1>6. y + m < t
  BY <1>5
<1>7. x + 1 < c
  <2> SUFFICES ASSUME ~(x + 1 < c) PROVE FALSE
    OBVIOUS
  <2>1. c * m <= (x + 1) * m
    BY <1>1, Z3
  <2>2. PICK z \in Int : z = c * m
    OBVIOUS
  <2> QED BY <1>2, <1>3, <1>4, <1>6, <2>1, <2>2
<1> QED BY <1>2, <1>3, <1>4, <1>5, <1>7

\* The entry that is found in the cache has the page.
LEMMA EntradaDe ==
  ASSUME NEW nodo, EsLista(cache.nodos), BuscarNodoCache(nodo) # 0
  PROVE  BuscarNodoCache(nodo) \in 1 .. Len(cache.nodos) /\ cache.nodos[BuscarNodoCache(nodo)] = nodo
<1> DEFINE n == Len(cache.nodos)
           I == {i \in 1 .. n : cache.nodos[i] = nodo}
<1>1. n \in Nat
  BY ListaCrece
<1>2. BuscarNodoCache(nodo) = IF I # {} THEN Min(I) ELSE 0
  BY DEF BuscarNodoCache, SelectInSeq
<1>3. I \subseteq Nat
  OBVIOUS
<1>4. I # {}
  BY <1>2
<1>5. Min(I) \in I
  <2> HIDE DEF I
  <2> QED BY <1>3, <1>4, MinEs
<1> QED BY <1>2, <1>4, <1>5

\* What is read of a page of the text, from Memoria or from the cache.
LEMMA LeeTexto ==
  ASSUME guion \in Guiones, PaginasEnSuMarco, TextoCargado, CopiasFieles, NEW p \in Pids,
         estado[p] = "busca", NEW k \in 1 .. CantidadDePaginas, NEW o \in Nat, NEW n \in Nat,
         o + n <= MARCOS_SIZE
  PROVE  LET r == LeerDeMemoria(Pagina(p, k), o, n)
         IN  /\ EsLista(r) /\ Len(r) = n
             /\ \A i \in 1 .. n : r[i] = TextoDePagina(k)[o + i]
<1> DEFINE nodo == Pagina(p, k)
           b == BuscarNodoCache(nodo)
           c == Copia(contenido, p, k)
           r == LeerDeMemoria(nodo, o, n)
<1>0. CantidadDePaginas \in Nat /\ UltimaDelStack \in Nat /\ CantidadDePaginas < UltimaDelStack
      /\ MARCOS_SIZE \in Nat \ {0}
  BY PaginasDelGuion, MarcosAssumption
<1>1. k \in 0 .. UltimaDelStack /\ k \in Nat
  BY <1>0
<1>2. c = TextoDePagina(k)
  BY DEF TextoCargado, CargadaHasta
<1>3. \A i \in 1 .. n : o + i \in 1 .. MARCOS_SIZE /\ o + i - 1 = (o + i) - 1
  BY <1>0
<1>4. CASE b = 0
  <2>1. r = LeerDePagina(nodo, o, n)
    BY <1>4 DEF LeerDeMemoria
  <2>2. EnMemoria(estado[p], k)
    BY DEF EnMemoria
  <2>3. r = [i \in 1 .. n |-> En(contenido, p, k, o + i - 1)]
    <3> HIDE DEF r
    <3> QED BY <1>1, <2>1, <2>2, LeeDePagina
  <2>4. \A i \in 1 .. n : r[i] = c[o + i]
    BY <1>3, <2>3 DEF Copia
  <2>5. EsLista(r) /\ Len(r) = n
    <3> DEFINE S == {En(contenido, p, k, o + i - 1) : i \in 1 .. n}
    <3>1. r \in [1 .. n -> S]
      BY <2>3
    <3> HIDE DEF r, S
    <3> QED BY <3>1, FuncionLista DEF EsLista
  <2> QED BY <1>2, <2>4, <2>5
<1>5. CASE b # 0
  <2>0. CopiasDe(cache, contenido, sucias, Leidas) /\ \A m \in sucias : Escrita(m.pagina)
    BY DEF CopiasFieles
  <2>1. b \in 1 .. Len(cache.nodos) /\ cache.nodos[b] = nodo
    BY <1>5, <2>0, EntradaDe DEF CopiasDe
  <2>2. nodo # Nada /\ nodo.pid = p /\ nodo.pagina = k
    BY <1>1, MarcoEs DEF Pagina
  <2>3. nodo \notin sucias
    <3>1. ~Escrita(k)
      BY <1>0 DEF Escrita
    <3> QED BY <2>0, <2>2, <3>1
  <2>4. cache.copias[b] = c
    BY <2>0, <2>1, <2>2, <2>3 DEF CopiasDe, CopiaFiel
  <2>5. r = SubSeq(c, o + 1, o + n)
    BY <1>5, <2>4 DEF LeerDeMemoria
  <2> DEFINE S == {c[i] : i \in 1 .. MARCOS_SIZE}
  <2>6. \A i \in o + 1 .. o + n : c[i] \in S
    BY <1>0
  <2> HIDE DEF r, c, S
  <2>7. PICK x \in Int, y \in Int : x = o + 1 /\ y = o + n
    BY <1>0
  <2>8. /\ r \in Seq(S) /\ Len(r) = IF x <= y THEN y - x + 1 ELSE 0
        /\ \A i \in 1 .. y - x + 1 : r[i] = c[x + i - 1]
    <3>1. \A i \in x .. y : c[i] \in S
      BY <2>6, <2>7
    <3>2. r = SubSeq(c, x, y)
      BY <2>5, <2>7
    <3> QED BY <3>1, <3>2, SubSeqProperties
  <2>9. Len(r) = n /\ y - x + 1 = n
    BY <2>7, <2>8
  <2>10. \A i \in 1 .. n : r[i] = c[o + i]
    <3>1. \A i \in 1 .. n : x + i - 1 = o + i
      BY <2>7
    <3> QED BY <2>8, <2>9, <3>1
  <2> QED BY <1>2, <2>8, <2>9, <2>10 DEF EsLista, r
<1> QED BY <1>4, <1>5

\* Two lists, one after another.
LEMMA DatosJuntos ==
  ASSUME NEW d, NEW r, EsLista(d), EsLista(r)
  PROVE  /\ EsLista(d \o r) /\ Len(d) \in Nat /\ Len(r) \in Nat
         /\ Len(d \o r) = Len(d) + Len(r)
         /\ \A i \in 1 .. Len(d) + Len(r) : (d \o r)[i] = IF i <= Len(d) THEN d[i] ELSE r[i - Len(d)]
<1>1. PICK S, T : d \in Seq(S) /\ r \in Seq(T)
  BY DEF EsLista
<1> DEFINE U == S \cup T
<1>2. d \in Seq(U) /\ r \in Seq(U)
  BY <1>1
<1> HIDE DEF U
<1> QED BY <1>2, ConcatProperties, LenProperties DEF EsLista

\* The page where a sentence goes on has the text that follows, if it is BienUbicada.
LEMMA TextoQueSigue ==
  ASSUME guion \in Guiones, NEW s, s.inicio \in Nat, s.tamano \in Nat,
         s.inicio + s.tamano <= guion.tamano, BienUbicada(s),
         NEW falta \in 0 .. s.tamano, NEW pag \in 0 .. CantidadDePaginas, NEW off \in 0 .. MARCOS_SIZE - 1,
         (pag - 1) * MARCOS_SIZE + off = s.inicio + s.tamano - falta
  PROVE  /\ pag \in 1 .. CantidadDePaginas
         /\ \A i \in 1 .. falta : off + i <= MARCOS_SIZE =>
              TextoDePagina(pag)[off + i] = [codigo |-> s.inicio + (s.tamano - falta + i) - 1]
<1> DEFINE M == MARCOS_SIZE
           C == CantidadDePaginas
           t == guion.tamano
           fin == s.inicio + s.tamano
           x == (pag - 1) * M
           r == t % M
<1>1. /\ M \in Nat \ {0} /\ C \in Nat \ {0} /\ t \in Nat /\ fin \in Nat
      /\ t <= C * M /\ (C - 1) * M < t
  <2>1. C \in Nat \ {0} /\ t <= C * M /\ (C - 1) * M < t
    BY PaginasDelGuion
  <2>2. t \in Nat /\ M \in Nat \ {0}
    BY MarcosAssumption, GuionesAssumption
  <2>3. fin \in Nat
    OBVIOUS
  <2> QED BY <2>1, <2>2, <2>3
<1>2. x + off = fin - falta /\ fin <= t /\ falta <= fin
  BY <1>1
<1>3. pag # 0
  <2> SUFFICES ASSUME pag = 0 PROVE FALSE
    OBVIOUS
  <2>1. x = 0 - M
    <3>1. x = (0 - 1) * M
      OBVIOUS
    <3> QED BY <1>1, <3>1
  <2> HIDE DEF x
  <2> QED BY <1>1, <1>2, <2>1
<1>4. pag \in 1 .. C
  <2> HIDE DEF x
  <2> QED BY <1>1, <1>3
<1>5. pag - 1 \in Nat /\ x \in Nat
  BY <1>1, <1>4, Productos
<1>6. pag = C => (t % M # 0 /\ t = x + r /\ r \in 0 .. M - 1) \/ falta = 0
  <2> SUFFICES ASSUME pag = C, falta # 0 PROVE t % M # 0 /\ t = x + r /\ r \in 0 .. M - 1
    OBVIOUS
  <2>1. t % M # 0
    <3> SUFFICES ASSUME t % M = 0 PROVE FALSE
      OBVIOUS
    <3>1. fin <= x
      BY DEF BienUbicada
    <3> HIDE DEF x, fin
    <3> QED BY <1>1, <1>2, <1>5, <3>1
  <2>2. r # 0 /\ r \in 0 .. M - 1 /\ t \div M \in Nat /\ t = ((t \div M) * M) + r
    BY <1>1, <2>1, Division
  <2>3. t \div M = pag - 1
    <3>1. PICK q, y, z : q = t \div M /\ y = q * M /\ z = C * M
      OBVIOUS
    <3> HIDE DEF r
    <3>2. /\ q \in Nat /\ y \in Nat /\ t = y + r /\ z \in Nat /\ t <= z /\ x < t
          /\ r # 0 /\ r \in 0 .. M - 1
      <4>1. q \in Nat /\ t = y + r /\ t <= z /\ x < t
        BY <1>1, <2>2, <3>1
      <4>2. y \in Nat /\ z \in Nat
        BY <1>1, <3>1, <4>1, Productos
      <4> QED BY <2>2, <4>1, <4>2
    <3>3. /\ C < q => z + M <= y
          /\ C = q => z = y
          /\ q < pag - 1 => y + M <= x
      <4>1. C < q => z + M <= y
        BY <1>1, <3>1, <3>2, Productos
      <4>2. q < pag - 1 => y + M <= x
        BY <1>1, <1>5, <3>1, <3>2, Productos
      <4> QED BY <3>1, <4>1, <4>2
    <3> HIDE DEF x
    <3>4. ~(C < q) /\ C # q
      BY <1>1, <3>2, <3>3
    <3>5. ~(q < pag - 1)
      BY <1>1, <1>5, <3>2, <3>3
    <3>6. q = pag - 1
      BY <1>1, <3>2, <3>4, <3>5
    <3> QED BY <3>1, <3>6
  <2> QED BY <2>1, <2>2, <2>3
<1>7. ASSUME NEW i \in 1 .. falta, off + i <= M
      PROVE  TextoDePagina(pag)[off + i] = [codigo |-> s.inicio + (s.tamano - falta + i) - 1]
  <2>1. off + i \in 1 .. M /\ x + (off + i) - 1 = s.inicio + (s.tamano - falta + i) - 1
    <3>1. PICK a, b : a = s.inicio /\ b = s.tamano
      OBVIOUS
    <3>2. a \in Nat /\ b \in Nat /\ falta \in 0 .. b /\ x + off = a + b - falta
      BY <1>2, <3>1
    <3> HIDE DEF x
    <3>3. off + i \in 1 .. M
      BY <1>1, <1>7
    <3>4. x + (off + i) - 1 = a + (b - falta + i) - 1
      BY <1>5, <3>2
    <3> QED BY <3>1, <3>3, <3>4
  <2>2. pag < C \/ off + i <= r
    <3> SUFFICES ASSUME pag = C PROVE off + i <= r
      BY <1>1, <1>4
    <3>1. t = x + r /\ r \in Nat /\ i \in Nat /\ i <= falta
      <4>1. falta # 0 /\ i \in Nat /\ i <= falta
        OBVIOUS
      <4>2. t = x + r /\ r \in 0 .. M - 1
        BY <1>6, <4>1
      <4>3. r \in Nat
        <5> HIDE DEF r
        <5> QED BY <4>2
      <4> QED BY <4>1, <4>2, <4>3
    <3> HIDE DEF x, r, fin
    <3> QED BY <1>1, <1>2, <1>5, <3>1
  <2>3. TextoDePagina(pag)[off + i] = [codigo |-> x + (off + i) - 1]
    BY <2>1, <2>2 DEF TextoDePagina
  <2> QED BY <2>1, <2>3
<1> QED BY <1>4, <1>7
-----------------------------------------------------------------------------
\* What was read for a process that does not change, or that ends.
LEMMA LecturaQueda ==
  ASSUME UNCHANGED guion, NEW q \in Pids, LecturaDe(q), estado'[q] = estado[q],
         lectura'[q] = lectura[q], DOMAIN pcb'[q] = DOMAIN pcb[q], pcb'[q].pc = pcb[q].pc
  PROVE  LecturaDe(q)'
<1>1. CantidadDePaginas' = CantidadDePaginas
  BY GuionQueda
<1>2. Ubicacion(q)' = Ubicacion(q) /\ \A s : BienUbicada(s)' = BienUbicada(s)
  BY <1>1 DEF Ubicacion, BienUbicada
<1>3. PcBien(q) => PcBien(q)'
  BY DEF PcBien
<1>4. LecturaHecha(q) => LecturaHecha(q)'
  BY <1>2 DEF LecturaHecha, EsLista
<1>5. LecturaPendiente(q) => LecturaPendiente(q)'
  BY <1>1, <1>2 DEF LecturaPendiente, PaginasAntes
<1> QED BY <1>3, <1>4, <1>5 DEF LecturaDe, EnMarcha

\* Nothing is asked of a process that does not run.
LEMMA LecturaFuera ==
  ASSUME NEW q \in Pids, estado'[q] \notin EnMarcha
  PROVE  LecturaDe(q)'
BY DEF LecturaDe, EnMarcha

\* A sentence that will be read.
LEMMA LecturaEmpieza ==
  ASSUME guion \in Guiones, UNCHANGED guion, NEW p \in Pids, estado'[p] = "busca",
         "pc" \in DOMAIN pcb'[p], pcb'[p].pc \in 0 .. Len(guion.codigo) - 1,
         lectura'[p] = Estructura(pcb'[p].pc)
  PROVE  LecturaDe(p)'
<1> DEFINE k == pcb'[p].pc
           s == guion.indice[k + 1]
           l == lectura'[p]
           M == MARCOS_SIZE
<1>1. CantidadDePaginas' = CantidadDePaginas
  BY GuionQueda
<1>2. Ubicacion(p)' = s
  BY DEF Ubicacion
<1>3. s.inicio \in Nat /\ s.tamano \in Nat /\ s.inicio + s.tamano <= guion.tamano /\ guion.tamano \in Nat
  <2>1. k + 1 \in DOMAIN guion.indice
    <3>1. PICK n \in Nat : n = Len(guion.codigo)
      BY GuionesAssumption
    <3>2. k + 1 \in 1 .. n
      BY <3>1
    <3> QED BY <3>1, <3>2, GuionesAssumption
  <2> QED BY <2>1, GuionesAssumption
<1>4. /\ l.pag = (s.inicio + M - 1) \div M /\ l.off = s.inicio % M /\ l.falta = s.tamano
      /\ l.datos = <<>>
  BY DEF Estructura
<1> HIDE DEF s, l
<1>5. PICK i, t : i = s.inicio /\ t = s.tamano
  OBVIOUS
<1>6. CantidadDePaginas \in Nat /\ guion.tamano <= CantidadDePaginas * M /\ M \in Nat \ {0}
  BY PaginasDelGuion, MarcosAssumption
<1>7. i \in Nat /\ t \in Nat /\ i <= CantidadDePaginas * M
  <2>1. PICK z : z = CantidadDePaginas * M
    OBVIOUS
  <2>2. z \in Nat
    BY <1>6, <2>1, Productos
  <2> QED BY <1>3, <1>5, <1>6, <2>1, <2>2
<1>8. /\ (i + M - 1) \div M \in 0 .. CantidadDePaginas /\ i % M \in 0 .. M - 1
      /\ (IF i % M = 0 THEN (i + M - 1) \div M ELSE (i + M - 1) \div M - 1) * M + (i % M) = i
  BY <1>6, <1>7, Arriba
<1>9. PaginasAntes(s, l) = IF i % M = 0 THEN (i + M - 1) \div M ELSE (i + M - 1) \div M - 1
  BY <1>4, <1>5 DEF PaginasAntes
<1>10. i = i + t - t
  BY <1>7
<1>11. /\ l.pag \in 0 .. CantidadDePaginas /\ l.off \in 0 .. M - 1
       /\ PaginasAntes(s, l) * M + l.off = s.inicio + s.tamano - l.falta
       /\ l.falta = 0 => s.tamano = 0
  BY <1>4, <1>5, <1>8, <1>9, <1>10
<1>12. LecturaPendiente(p)'
  BY <1>1, <1>2, <1>11 DEF LecturaPendiente, l, PaginasAntes
<1>13. LecturaHecha(p)'
  <2>1. l.falta \in 0 .. s.tamano /\ s.tamano - l.falta = 0
    BY <1>4, <1>5, <1>7
  <2>2. EsLista(l.datos) /\ Len(l.datos) = 0
    BY <1>4 DEF EsLista
  <2> QED BY <1>2, <2>1, <2>2 DEF LecturaHecha, l, EsLista
<1>14. PcBien(p)'
  BY DEF PcBien
<1> QED BY <1>12, <1>13, <1>14 DEF LecturaDe, EnMarcha

\* leerSentencia: the sentence has what the text has, and what is left is in the next page.
LEMMA LecturaSigue ==
  ASSUME InvPilas, PaginasEnSuMarco, TextoCargado, CopiasFieles, LecturaBien, NEW p \in Pids,
         LeerSentencia(p)
  PROVE  LecturaDe(p)'
<1> DEFINE l == lectura[p]
           s == Ubicacion(p)
           M == MARCOS_SIZE
           C == CantidadDePaginas
           n == IF l.off + l.falta <= M THEN l.falta ELSE M - l.off
           r == LeerDeMemoria(Pagina(p, l.pag), l.off, n)
<1>1. guion \in Guiones /\ estado \in [Pids -> Estados] /\ DOMAIN lectura = Pids
  BY DEF InvPilas, Pilas, TextoCargado
<1>2. /\ estado[p] = "busca" /\ UNCHANGED <<guion, pcb>>
      /\ lectura'[p] = [pag |-> l.pag + 1, off |-> 0, falta |-> l.falta - n, datos |-> l.datos \o r]
      /\ estado'[p] = IF n = l.falta THEN "ejecuta" ELSE "busca"
  BY <1>1 DEF LeerSentencia
<1>20. /\ lectura'[p].pag = l.pag + 1 /\ lectura'[p].off = 0
       /\ lectura'[p].falta = l.falta - n /\ lectura'[p].datos = l.datos \o r
  <2> HIDE DEF n, r
  <2> QED BY <1>2
<1>3. PcBien(p) /\ LecturaHecha(p) /\ LecturaPendiente(p)
  BY <1>2 DEF LecturaBien, LecturaDe, EnMarcha
<1>4. s.inicio \in Nat /\ s.tamano \in Nat /\ s.inicio + s.tamano <= guion.tamano /\ guion.tamano \in Nat
  <2>1. pcb[p].pc + 1 \in DOMAIN guion.indice
    <3>1. PICK m \in Nat : m = Len(guion.codigo)
      BY <1>1, GuionesAssumption
    <3>2. pcb[p].pc + 1 \in 1 .. m
      BY <1>3, <3>1 DEF PcBien
    <3> QED BY <1>1, <3>1, <3>2, GuionesAssumption
  <2> QED BY <1>1, <2>1, GuionesAssumption DEF Ubicacion
<1>5. CantidadDePaginas' = C /\ Ubicacion(p)' = s /\ \A x : BienUbicada(x)' = BienUbicada(x)
  BY <1>2, GuionQueda DEF Ubicacion, BienUbicada
<1>6. C \in Nat /\ M \in Nat \ {0} /\ guion.tamano <= C * M
  BY <1>1, PaginasDelGuion, MarcosAssumption
<1>7. PICK pag, off, falta, i, t, x, fin :
        /\ pag = l.pag /\ off = l.off /\ falta = l.falta /\ i = s.inicio /\ t = s.tamano
        /\ x = PaginasAntes(s, l) /\ fin = i + t
  OBVIOUS
<1>8. /\ pag \in 0 .. C /\ off \in 0 .. M - 1 /\ falta \in 0 .. t
      /\ x * M + off = i + t - falta /\ (falta = 0 => t = 0)
      /\ x = IF i % M = 0 THEN pag ELSE pag - 1
  BY <1>3, <1>7 DEF LecturaPendiente, LecturaHecha, PaginasAntes
<1> HIDE DEF s, l, C, M
<1>9. i \in Nat /\ t \in Nat /\ fin \in Nat /\ fin <= guion.tamano /\ guion.tamano \in Nat
      /\ falta \in Nat /\ falta <= fin /\ x \in {pag, pag - 1} /\ x * M + off = fin - falta
  BY <1>4, <1>7, <1>8
<1>10. n = IF off + falta <= M THEN falta ELSE M - off
  BY <1>7
<1>11. n # falta => /\ n \in 1 .. falta /\ pag + 1 \in 0 .. C
                    /\ (x + 1) * M + 0 = fin - (falta - n)
  BY <1>6, <1>8, <1>9, <1>10, OtraPagina
<1>12. n \in 0 .. falta /\ off + n <= M
  BY <1>6, <1>8, <1>9, <1>10
<1> HIDE DEF n
<1>13. PICK f \in Nat : f = falta - n /\ f <= t
  BY <1>8, <1>9, <1>12
<1>14. lectura'[p].falta = f /\ lectura'[p].pag = pag + 1 /\ lectura'[p].off = 0
       /\ lectura'[p].datos = l.datos \o r
  <2> HIDE DEF r
  <2> QED BY <1>7, <1>13, <1>20
<1>15. PcBien(p)'
  BY <1>2, <1>3 DEF PcBien
<1>16. BienUbicada(s) =>
         /\ EsLista(l.datos \o r) /\ Len(l.datos \o r) = t - f
         /\ \A j \in 1 .. t - f : (l.datos \o r)[j] = [codigo |-> i + j - 1]
  <2> SUFFICES ASSUME BienUbicada(s)
               PROVE  /\ EsLista(l.datos \o r) /\ Len(l.datos \o r) = t - f
                      /\ \A j \in 1 .. t - f : (l.datos \o r)[j] = [codigo |-> i + j - 1]
    OBVIOUS
  <2>1. i % M # 0
    BY <1>7 DEF BienUbicada, M
  <2>2. (pag - 1) * M + off = i + t - falta
    BY <1>8, <2>1
  <2>3. /\ pag \in 1 .. C
        /\ \A j \in 1 .. falta : off + j <= M =>
             TextoDePagina(pag)[off + j] = [codigo |-> i + (t - falta + j) - 1]
    BY <1>1, <1>4, <1>7, <1>8, <2>2, TextoQueSigue DEF M, C
  <2>4. /\ EsLista(r) /\ Len(r) = n
        /\ \A j \in 1 .. n : r[j] = TextoDePagina(pag)[off + j]
    <3>1. pag \in 1 .. CantidadDePaginas /\ off \in Nat /\ n \in Nat /\ off + n <= MARCOS_SIZE
      BY <1>6, <1>8, <1>9, <1>12, <2>3 DEF M, C
    <3>2. r = LeerDeMemoria(Pagina(p, pag), off, n)
      BY <1>7
    <3> HIDE DEF r
    <3> QED BY <1>1, <1>2, <3>1, <3>2, LeeTexto
  <2>5. /\ EsLista(l.datos) /\ Len(l.datos) = t - falta
        /\ \A j \in 1 .. t - falta : l.datos[j] = [codigo |-> i + j - 1]
    BY <1>3, <1>7 DEF LecturaHecha, l, s
  <2> HIDE DEF r
  <2>6. PICK d : d = l.datos
    OBVIOUS
  <2>7. /\ EsLista(d \o r) /\ Len(d \o r) = Len(d) + Len(r)
        /\ \A j \in 1 .. Len(d) + Len(r) : (d \o r)[j] = IF j <= Len(d) THEN d[j] ELSE r[j - Len(d)]
    BY <2>4, <2>5, <2>6, DatosJuntos
  <2>8. PICK a \in Nat : a = t - falta /\ a + n = t - f
    BY <1>8, <1>9, <1>12, <1>13
  <2>9. \A j \in 1 .. a + n : (d \o r)[j] = [codigo |-> i + j - 1]
    <3> SUFFICES ASSUME NEW j \in 1 .. a + n PROVE (d \o r)[j] = [codigo |-> i + j - 1]
      OBVIOUS
    <3>1. (d \o r)[j] = IF j <= a THEN d[j] ELSE r[j - a]
      BY <2>4, <2>5, <2>6, <2>7, <2>8
    <3>2. CASE j <= a
      BY <2>5, <2>6, <2>8, <3>1, <3>2
    <3>3. CASE ~(j <= a)
      <4>1. PICK b \in 1 .. n : b = j - a
        BY <1>12, <2>8, <3>3
      <4>2. (d \o r)[j] = r[b] /\ r[b] = TextoDePagina(pag)[off + b]
        BY <2>4, <3>1, <3>3, <4>1
      <4>3. b \in 1 .. falta /\ off + b <= M /\ t - falta + b = j
        BY <1>6, <1>8, <1>9, <1>12, <2>8, <4>1
      <4>4. TextoDePagina(pag)[off + b] = [codigo |-> i + (t - falta + b) - 1]
        BY <2>3, <4>3
      <4> QED BY <4>2, <4>3, <4>4
    <3> QED BY <3>2, <3>3
  <2> QED BY <2>4, <2>5, <2>6, <2>7, <2>8, <2>9
<1>17. LecturaHecha(p)'
  <2>1. lectura'[p].falta \in 0 .. s.tamano
    BY <1>7, <1>9, <1>13, <1>14
  <2>2. BienUbicada(s) =>
          /\ EsLista(lectura'[p].datos) /\ Len(lectura'[p].datos) = s.tamano - lectura'[p].falta
          /\ \A j \in 1 .. s.tamano - lectura'[p].falta : lectura'[p].datos[j] = [codigo |-> s.inicio + j - 1]
    BY <1>7, <1>14, <1>16
  <2> QED BY <1>5, <2>1, <2>2 DEF LecturaHecha, EsLista
<1>18. CASE n = falta
  <2>1. estado'[p] = "ejecuta" /\ lectura'[p].falta = 0
    BY <1>2, <1>7, <1>9, <1>13, <1>14, <1>18
  <2> QED BY <1>15, <1>17, <2>1 DEF LecturaDe, EnMarcha
<1>19. CASE n # falta
  <2>1. estado'[p] = "busca" /\ f # 0 /\ pag + 1 \in 0 .. C /\ (x + 1) * M + 0 = i + t - f
    <3>1. estado'[p] = "busca"
      BY <1>2, <1>7, <1>19
    <3>2. n \in 1 .. falta /\ pag + 1 \in 0 .. C /\ (x + 1) * M + 0 = fin - (falta - n)
      BY <1>11, <1>19
    <3>3. n \in Nat /\ fin = i + t /\ f = falta - n
      BY <1>7, <1>13, <3>2
    <3>4. f # 0 /\ fin - (falta - n) = i + t - f
      BY <1>9, <1>19, <3>3
    <3> QED BY <3>1, <3>2, <3>4
  <2>2. PICK z : z = lectura'[p]
    OBVIOUS
  <2>3. PaginasAntes(s, z) = x + 1
    <3>1. x + 1 = IF i % M = 0 THEN pag + 1 ELSE (pag + 1) - 1
      <4>1. pag \in Int
        BY <1>8
      <4>2. CASE i % M = 0
        BY <1>8, <4>2
      <4>3. CASE i % M # 0
        BY <1>8, <4>1, <4>3
      <4> QED BY <4>2, <4>3
    <3>2. PaginasAntes(s, z) = IF i % M = 0 THEN pag + 1 ELSE (pag + 1) - 1
      BY <1>7, <1>14, <2>2 DEF PaginasAntes, M
    <3> QED BY <3>1, <3>2
  <2>4. LecturaPendiente(p)'
    <3>1. z.pag \in 0 .. C /\ z.off \in 0 .. M - 1 /\ (z.falta = 0 => s.tamano = 0)
      BY <1>6, <1>14, <2>1, <2>2
    <3>2. PaginasAntes(s, z) * M + z.off = s.inicio + s.tamano - z.falta
      BY <1>7, <1>14, <2>1, <2>2, <2>3
    <3>3. /\ lectura'[p].pag \in 0 .. CantidadDePaginas' /\ lectura'[p].off \in 0 .. MARCOS_SIZE - 1
          /\ PaginasAntes(s, lectura'[p]) * MARCOS_SIZE + lectura'[p].off
               = s.inicio + s.tamano - lectura'[p].falta
          /\ lectura'[p].falta = 0 => s.tamano = 0
      BY <1>5, <2>2, <3>1, <3>2 DEF M, C
    <3> QED BY <1>5, <3>3 DEF LecturaPendiente, PaginasAntes
  <2> QED BY <1>15, <1>17, <2>1, <2>4 DEF LecturaDe, EnMarcha
<1> QED BY <1>18, <1>19
-----------------------------------------------------------------------------
\* What was read of each process, after any step.
LEMMA PasoLectura ==
  ASSUME InvPilas, Retornos, PaginasEnSuMarco, TextoCargado, CopiasFieles, LecturaBien,
         [NextEjecucion]_vars
  PROVE  LecturaBien'
<1>1. /\ guion \in Guiones /\ DOMAIN estado = Pids /\ DOMAIN lectura = Pids /\ DOMAIN pcb = Pids
      /\ \A q \in Pids : EsPcb(pcb[q])
  BY DEF InvPilas, Pilas, TextoCargado
<1>2. \A q \in Pids : LecturaDe(q)
  BY DEF LecturaBien
\* A step of p, and what it does to p.
<1> DEFINE De(p) == /\ UNCHANGED guion
                    /\ UNCHANGED estado \/ \E e : estado' = [estado EXCEPT ![p] = e]
                    /\ UNCHANGED pcb \/ \E x : pcb' = [pcb EXCEPT ![p] = x]
                    /\ UNCHANGED lectura \/ \E l : lectura' = [lectura EXCEPT ![p] = l]
<1>3. ASSUME NEW p \in Pids, De(p), LecturaDe(p)' PROVE LecturaBien'
  <2>1. ASSUME NEW q \in Pids, q # p PROVE LecturaDe(q)'
    <3>1. estado'[q] = estado[q] /\ pcb'[q] = pcb[q] /\ lectura'[q] = lectura[q]
      BY <1>1, <1>3, <2>1
    <3> QED BY <1>2, <1>3, <3>1, LecturaQueda
  <2> QED BY <1>3, <2>1 DEF LecturaBien
<1>4. ASSUME UNCHANGED <<guion, estado, pcb, lectura>> PROVE LecturaBien'
  BY <1>2, <1>4, LecturaQueda DEF LecturaBien
<1>5. ASSUME NEW p \in Pids, NEW e, e \notin EnMarcha, UNCHANGED <<guion, pcb, lectura>>,
             estado' = [estado EXCEPT ![p] = e]
      PROVE  LecturaBien'
  <2>1. estado'[p] \notin EnMarcha
    BY <1>1, <1>5
  <2> QED BY <1>3, <1>5, <2>1, LecturaFuera
<1>6. ASSUME NEW p \in Pids, Cae(p) PROVE LecturaBien'
  <2>1. "caida" \notin EnMarcha
    BY DEF EnMarcha
  <2> QED BY <1>5, <1>6, <2>1 DEF Cae
<1>7. ASSUME NEW p \in Pids, NEW x, SigueBien(p, x) PROVE LecturaBien'
  <2> DEFINE pc == x.pc + 1
  <2>1. /\ UNCHANGED guion /\ pcb' = [pcb EXCEPT ![p] = [x EXCEPT !.pc = pc]] /\ EsPcb(x)
        /\ pc \in 0 .. Len(guion.codigo)
        /\ IF pc < Len(guion.codigo)
           THEN /\ estado' = [estado EXCEPT ![p] = "busca"]
                /\ lectura' = [lectura EXCEPT ![p] = Estructura(pc)]
           ELSE estado' = [estado EXCEPT ![p] = "caida"] /\ UNCHANGED lectura
    BY <1>7 DEF SigueBien, Sigue
  <2>2. "pc" \in DOMAIN pcb'[p] /\ pcb'[p].pc = pc
    BY <1>1, <2>1 DEF EsPcb
  <2> HIDE DEF pc
  <2>3. De(p)
    BY <2>1
  <2>4. CASE pc < Len(guion.codigo)
    <3>1. estado'[p] = "busca" /\ lectura'[p] = Estructura(pcb'[p].pc)
      BY <1>1, <2>1, <2>2, <2>4
    <3>2. pcb'[p].pc \in 0 .. Len(guion.codigo) - 1
      <4>1. PICK n \in Nat : n = Len(guion.codigo)
        BY <1>1, GuionesAssumption
      <4> QED BY <2>1, <2>2, <2>4, <4>1
    <3> QED BY <1>1, <1>3, <2>1, <2>2, <2>3, <3>1, <3>2, LecturaEmpieza
  <2>5. CASE ~(pc < Len(guion.codigo))
    <3>1. estado'[p] = "caida"
      BY <1>1, <2>1, <2>5
    <3>2. "caida" \notin EnMarcha
      BY DEF EnMarcha
    <3> QED BY <1>3, <2>3, <3>1, <3>2, LecturaFuera
  <2> QED BY <2>4, <2>5
<1>8. ASSUME NEW p \in Pids, Primitivas(p) PROVE LecturaBien'
  <2>1. SentenciaBien(p)
    BY <1>8, PrimitivaSigue
  <2>2. ASSUME NEW e \in {"fin", "desborda"}, Deja(p, e) PROVE LecturaBien'
    <3>1. pcb' = [pcb EXCEPT ![p] = [pcb[p] EXCEPT !.pila = <<>>]]
      BY <2>2 DEF Deja
    <3>2. De(p) /\ estado'[p] = e
      BY <1>1, <2>2, <3>1 DEF Deja
    <3>3. e \notin EnMarcha
      BY DEF EnMarcha
    <3> QED BY <1>3, <3>2, <3>3, LecturaFuera
  <2> QED BY <1>4, <1>6, <1>7, <2>1, <2>2 DEF SentenciaBien
<1>9. ASSUME NEW p \in Pids, LeerSentencia(p) PROVE LecturaBien'
  <2>1. De(p)
    BY <1>9 DEF LeerSentencia
  <2>2. LecturaDe(p)'
    BY <1>9, LecturaSigue
  <2> QED BY <1>3, <2>1, <2>2
<1>10. ASSUME NEW p \in Pids, UNCHANGED <<guion, pcb>>, estado[p] \in {"nuevo", "carga"},
              estado'[p] = "carga"
       PROVE  LecturaDe(p)'
  <2>1. PcBien(p) /\ pcb[p].pc = 0
    BY <1>2, <1>10 DEF LecturaDe, EnMarcha
  <2>2. PcBien(p)'
    BY <1>10, <2>1 DEF PcBien
  <2> QED BY <1>10, <2>1, <2>2 DEF LecturaDe, EnMarcha
<1>11. ASSUME NEW p \in Pids, Inicializa(p) PROVE LecturaBien'
  <2>1. UNCHANGED <<guion, pcb, lectura>> /\ estado[p] = "nuevo" /\ estado' = [estado EXCEPT ![p] = "carga"]
    BY <1>11 DEF Inicializa
  <2>2. LecturaDe(p)'
    BY <1>1, <1>10, <2>1
  <2> QED BY <1>3, <2>1, <2>2
<1>12. ASSUME NEW p \in Pids, EnviaPagina(p) PROVE LecturaBien'
  <2>1. /\ UNCHANGED <<guion, pcb>> /\ estado[p] = "carga"
        /\ \/ /\ estado' = [estado EXCEPT ![p] = "busca"]
              /\ lectura' = [lectura EXCEPT ![p] = Estructura(0)]
           \/ UNCHANGED estado /\ \E l : lectura' = [lectura EXCEPT ![p] = l]
    BY <1>12 DEF EnviaPagina
  <2>2. De(p)
    BY <2>1
  <2>3. CASE UNCHANGED estado
    BY <1>3, <1>10, <2>1, <2>2, <2>3
  <2>4. CASE ~UNCHANGED estado
    <3>1. PcBien(p) /\ pcb[p].pc = 0
      BY <1>2, <2>1 DEF LecturaDe, EnMarcha
    <3>2. /\ estado'[p] = "busca" /\ lectura'[p] = Estructura(pcb'[p].pc)
          /\ "pc" \in DOMAIN pcb'[p] /\ pcb'[p].pc \in 0 .. Len(guion.codigo) - 1
      BY <1>1, <2>1, <2>4, <3>1 DEF PcBien
    <3> QED BY <1>1, <1>3, <2>1, <2>2, <3>2, LecturaEmpieza
  <2> QED BY <2>3, <2>4
<1>13. ASSUME NEW p \in Pids, FinDeQuantum(p) PROVE LecturaBien'
  <2>1. UNCHANGED <<guion, estado, lectura>> /\ pcb' = [pcb EXCEPT ![p] = [pcb[p] EXCEPT !.liberados = FALSE]]
    BY <1>13 DEF FinDeQuantum
  <2>2. De(p)
    BY <2>1
  <2>3. DOMAIN pcb'[p] = DOMAIN pcb[p] /\ pcb'[p].pc = pcb[p].pc
    BY <1>1, <2>1 DEF EsPcb
  <2>4. LecturaDe(p)'
    BY <1>2, <2>1, <2>3, LecturaQueda
  <2> QED BY <1>3, <2>2, <2>4
<1>14. ASSUME NEW p \in Pids, LiberaElKernel(p) PROVE LecturaBien'
  <2>1. "libre" \notin EnMarcha
    BY DEF EnMarcha
  <2> QED BY <1>5, <1>14, <2>1 DEF LiberaElKernel
<1>15. ASSUME NEW p \in Pids, UsaSinDefinir(p) \/ OtroTexto(p) PROVE LecturaBien'
  BY <1>4, <1>6, <1>15 DEF UsaSinDefinir, OtroTexto
<1>16. ASSUME VaciaCache \/ VaciaEnLectura \/ UNCHANGED vars PROVE LecturaBien'
  BY <1>4, <1>16 DEF VaciaCache, VaciaEnLectura, vars
<1> QED BY <1>8, <1>9, <1>11, <1>12, <1>13, <1>14, <1>15, <1>16 DEF NextEjecucion
-----------------------------------------------------------------------------
\* What makes SentenciaCorrecta inductive holds at the beginning, and after any step.
LEMMA InicioTexto == InitEjecucion => InvTexto
<1> SUFFICES ASSUME InitEjecucion PROVE InvTexto
  OBVIOUS
<1>1. /\ guion \in Guiones /\ SinColision /\ sucias = {}
      /\ punteroMemoria = [f \in Frames |-> Nada] /\ overflow = [f \in Frames |-> {}]
      /\ cache = [nodos |-> <<>>, copias |-> <<>>, entradasPid |-> 0, reemplazada |-> FALSE]
      /\ \A p \in Pids : estado[p] = "nuevo" /\ pcb[p] = PcbInicial
      /\ DOMAIN lectura = Pids /\ \A p \in Pids : lectura[p] = [pag |-> 1, falta |-> 0]
  BY DEF InitEjecucion, InitMemoria, InitCache
<1>2. /\ DOMAIN PcbInicial = {"pc", "pila", "liberados"} /\ PcbInicial.pc = 0
      /\ PcbInicial.pila = <<Contexto(0, NULO, "")>>
  BY DEF PcbInicial
<1>3. Retornos
  <2>1. DOMAIN PcbInicial.pila = {1} /\ PcbInicial.pila[1].retVar = NULO
    <3>1. PICK c : c = Contexto(0, NULO, "")
      OBVIOUS
    <3>2. c.retVar = NULO
      BY <3>1 DEF Contexto
    <3>3. PcbInicial.pila = <<c>>
      BY <1>2, <3>1
    <3> QED BY <3>2, <3>3
  <2> QED BY <1>1, <2>1 DEF Retornos, RetornosBien
<1>4. PaginasEnSuMarco
  <2>1. \A p \in Pids : \A k \in 0 .. UltimaDelStack : Marco(p, k) \in Frames
    BY MarcoEs
  <2> QED BY <1>1, <2>1 DEF PaginasEnSuMarco, EnMemoria
<1>5. TextoCargado
  <2>1. 1 \in 1 .. CantidadDePaginas
    BY <1>1, PaginasDelGuion
  <2>2. \A p \in Pids : CargadaHasta(p) = 0
    BY <1>1 DEF CargadaHasta
  <2> QED BY <1>1, <2>1, <2>2 DEF TextoCargado
<1>6. CopiasFieles
  <2>1. EsLista(<<>>) /\ Len(<<>>) = 0
    BY DEF EsLista
  <2> QED BY <1>1, <2>1 DEF CopiasFieles, CopiasDe
<1>7. LecturaBien
  <2>1. 0 \in 0 .. Len(guion.codigo) - 1
    BY <1>1, GuionesAssumption
  <2> QED BY <1>1, <1>2, <2>1 DEF LecturaBien, LecturaDe, PcBien, EnMarcha
<1> QED BY <1>3, <1>4, <1>5, <1>6, <1>7, InicioPilas DEF InvTexto

\* And after any step.
LEMMA PasoInvTexto == InvTexto /\ [NextEjecucion]_vars => InvTexto'
<1> SUFFICES ASSUME InvTexto, [NextEjecucion]_vars PROVE InvTexto'
  OBVIOUS
<1>1. InvPilas /\ Retornos /\ PaginasEnSuMarco /\ TextoCargado /\ CopiasFieles /\ LecturaBien
  BY DEF InvTexto
<1>2. InvPilas'
  BY <1>1, PasoPilas
<1>3. Retornos'
  BY <1>1, PasoRetornos
<1>4. PaginasEnSuMarco'
  BY <1>1, PasoMarcos
<1>5. TextoCargado'
  BY <1>1, PasoTexto
<1>6. CopiasFieles'
  BY <1>1, PasoCopias
<1>7. LecturaBien'
  BY <1>1, PasoLectura
<1> QED BY <1>2, <1>3, <1>4, <1>5, <1>6, <1>7 DEF InvTexto

\* What was read of a sentence, when nothing is left, is its text.
LEMMA TextoLeido == InvTexto => SentenciaCorrecta
<1> SUFFICES ASSUME InvTexto, NEW p \in Pids, estado[p] = "ejecuta",
                    BienUbicada(guion.indice[pcb[p].pc + 1])
             PROVE  lectura[p].datos = Texto(p)
  BY DEF SentenciaCorrecta
<1> DEFINE s == Ubicacion(p)
           d == lectura[p].datos
<1>1. LecturaHecha(p) /\ lectura[p].falta = 0
  BY DEF InvTexto, LecturaBien, LecturaDe
<1>2. BienUbicada(s)
  BY DEF Ubicacion
<1>3. 0 \in 0 .. s.tamano /\ EsLista(d) /\ Len(d) = s.tamano - 0
      /\ \A i \in 1 .. s.tamano - 0 : d[i] = [codigo |-> s.inicio + i - 1]
  BY <1>1, <1>2 DEF LecturaHecha
<1>4. Texto(p) = [i \in 1 .. s.tamano |-> [codigo |-> s.inicio + i - 1]]
  BY DEF Texto, Ubicacion
<1> HIDE DEF d, s
<1>5. PICK T : d \in Seq(T)
  BY <1>3 DEF EsLista
<1>6. d = [i \in 1 .. Len(d) |-> d[i]] /\ Len(d) \in Nat
  BY <1>5
<1>7. Len(d) = s.tamano
  <2>1. s.tamano - 0 \in Nat
    BY <1>3, <1>6
  <2>2. s.tamano \in Nat
    <3>1. guion \in Guiones /\ pcb[p].pc + 1 \in DOMAIN guion.indice
      <4>1. guion \in Guiones /\ PcBien(p)
        BY DEF InvTexto, InvPilas, Pilas, LecturaBien, LecturaDe, EnMarcha
      <4>2. PICK m \in Nat : m = Len(guion.codigo)
        BY <4>1, GuionesAssumption
      <4>3. pcb[p].pc + 1 \in 1 .. m
        BY <4>1, <4>2 DEF PcBien
      <4> QED BY <4>1, <4>2, <4>3, GuionesAssumption
    <3> QED BY <3>1, GuionesAssumption DEF s, Ubicacion
  <2> QED BY <1>3, <2>2
<1>8. \A i \in 1 .. s.tamano : d[i] = [codigo |-> s.inicio + i - 1]
  BY <1>3, <1>6, <1>7
<1> QED BY <1>4, <1>6, <1>7, <1>8 DEF d

\* A step after which the CPU of p is down.
LEMMA CaePor ==
  ASSUME InvTexto, NextEjecucion, NEW p \in Pids, estado[p] # "caida", estado'[p] = "caida"
  PROVE  NoSoportada(p) \/ ~BienUbicada(guion.indice[pcb[p].pc + 1])
<1>1. DOMAIN estado = Pids /\ SentenciaCorrecta
  BY TextoLeido DEF InvTexto, InvPilas, Pilas
<1>2. ASSUME NEW q \in Pids, Cae(q) PROVE q = p
  BY <1>1, <1>2 DEF Cae
<1>3. ASSUME NEW q \in Pids, Primitivas(q) PROVE NoSoportada(p)
  <2>1. SentenciaBien(q)
    BY <1>3, PrimitivaSigue DEF InvTexto
  <2>2. ASSUME Cae(q), NoSoportada(q) PROVE NoSoportada(p)
    BY <1>2, <2>2
  <2>3. ASSUME NEW e \in {"fin", "desborda"}, Deja(q, e) PROVE FALSE
    BY <1>1, <2>3 DEF Deja
  <2>4. ASSUME NEW x, SigueBien(q, x) PROVE NoSoportada(p)
    <3> DEFINE pc == x.pc + 1
    <3>1. /\ pc \in 0 .. Len(guion.codigo) /\ (pc = Len(guion.codigo) => NoSoportada(q))
          /\ IF pc < Len(guion.codigo) THEN estado' = [estado EXCEPT ![q] = "busca"]
             ELSE estado' = [estado EXCEPT ![q] = "caida"]
      BY <2>4 DEF SigueBien, Sigue
    <3> HIDE DEF pc
    <3>2. q = p /\ ~(pc < Len(guion.codigo))
      BY <1>1, <3>1
    <3>3. pc = Len(guion.codigo)
      <4>1. PICK n \in Nat : n = Len(guion.codigo)
        BY GuionesAssumption DEF InvTexto, InvPilas, Pilas
      <4> QED BY <3>1, <3>2, <4>1
    <3> QED BY <3>1, <3>2, <3>3
  <2> QED BY <2>1, <2>2, <2>3, <2>4 DEF SentenciaBien
<1>4. ASSUME NEW q \in Pids, UsaSinDefinir(q) PROVE NoSoportada(p)
  <2>1. PICK x \in Nombres(Sentencia(q)) : x = "0" /\ ~Definido(Tope(q), x) /\ Cae(q)
    BY <1>4 DEF UsaSinDefinir
  <2> QED BY <1>2, <2>1 DEF Definido, NoSoportada
<1>5. ASSUME NEW q \in Pids, OtroTexto(q) PROVE ~BienUbicada(guion.indice[pcb[p].pc + 1])
  BY <1>1, <1>2, <1>5 DEF OtroTexto, SentenciaCorrecta
<1>6. ASSUME NEW q \in Pids, \/ Inicializa(q) \/ EnviaPagina(q) \/ LeerSentencia(q)
                             \/ FinDeQuantum(q) \/ LiberaElKernel(q)
      PROVE  FALSE
  <2>1. UNCHANGED estado \/ \E e \in {"carga", "busca", "ejecuta", "libre"} :
                              estado' = [estado EXCEPT ![q] = e]
    BY <1>6 DEF Inicializa, EnviaPagina, LeerSentencia, FinDeQuantum, LiberaElKernel
  <2> QED BY <1>1, <2>1
<1>7. ~VaciaCache /\ ~VaciaEnLectura
  BY DEF VaciaCache, VaciaEnLectura
<1> QED BY <1>3, <1>4, <1>5, <1>6, <1>7 DEF NextEjecucion

\* The memory of the processes and what is read of it, after every step (InvTexto):
\* pages are in their frames, the text is as it was sent, copies are as the page
\* was, calls return to a name of who called.
THEOREM TextoSiempre == SpecEjecucion => []InvTexto
BY InicioTexto, PasoInvTexto, PTL DEF SpecEjecucion

\* In every execution a CPU executes what the script has at its program counter,
\* if the sentence is BienUbicada (SentenciaCorrecta).
THEOREM SentenciaCorrectaSiempre == SpecEjecucion => []SentenciaCorrecta
BY TextoSiempre, TextoLeido, PTL

\* In every execution a CPU crashes at a sentence that it does not support or that
\* is not BienUbicada, and at no other one (SoloCaePor).
THEOREM SoloCaePorSiempre == SpecEjecucion => SoloCaePor
<1>1. InvTexto /\ [NextEjecucion]_vars =>
        [\A p \in Pids : estado[p] # "caida" /\ estado'[p] = "caida" =>
           NoSoportada(p) \/ ~BienUbicada(guion.indice[pcb[p].pc + 1])]_vars
  BY CaePor
<1> QED BY <1>1, TextoSiempre, PTL DEF SpecEjecucion, SoloCaePor
-----------------------------------------------------------------------------
\* Of two that are alive, one is after the other: they share no cell.
LEMMA VivasApartadas ==
  ASSUME guion \in Guiones, NEW U, NEW v \in Seq(Elem(U)), EnOrden(v),
         NEW i \in 1 .. Len(v), NEW j \in 1 .. Len(v), i # j
  PROVE  Apartadas(v[i].dir, v[j].dir)
<1> DEFINE V == VARIABLE_SIZE
           P == [k \in 1 .. Len(v) |-> Puntero(v[k].dir)]
<1>1. V \in Nat /\ MARCOS_SIZE \in Nat \ {0} /\ Len(v) \in Nat /\ DOMAIN v = 1 .. Len(v)
  BY EjecucionAssumption, MarcosAssumption, LenProperties
<1>2. PICK n \in Nat : n = Len(v)
  BY <1>1
<1>3. ASSUME NEW k \in 1 .. n
      PROVE  /\ v[k].dir \in Lugares /\ v[k].dir.pag \in Nat /\ v[k].dir.off \in Nat
             /\ v[k].dir.pag * MARCOS_SIZE \in Nat /\ P[k] \in Nat
             /\ P[k] = v[k].dir.pag * MARCOS_SIZE + v[k].dir.off
  <2>1. v[k] \in Elem(U)
    BY <1>2, ElementOfSeq
  <2>2. v[k].dir \in Lugares
    BY <2>1 DEF Elem, Vars, Args
  <2>3. v[k].dir.pag \in Nat /\ v[k].dir.off \in Nat
    BY <2>2 DEF Lugares
  <2>4. v[k].dir.pag * MARCOS_SIZE \in Nat
    BY <1>1, <2>3, Productos
  <2>5. P[k] = v[k].dir.pag * MARCOS_SIZE + v[k].dir.off
    BY <1>2 DEF Puntero
  <2>6. PICK x \in Nat : x = v[k].dir.pag * MARCOS_SIZE
    BY <2>4
  <2> HIDE DEF P
  <2>7. P[k] = x + v[k].dir.off
    BY <2>5, <2>6
  <2>8. P[k] \in Nat
    <3>1. PICK y : y = P[k]
      OBVIOUS
    <3>2. PICK z : z = v[k].dir.off
      OBVIOUS
    <3>3. y = x + z /\ z \in Nat
      BY <2>3, <2>7, <3>1, <3>2
    <3> QED BY <2>6, <3>1, <3>3
  <2> QED BY <2>2, <2>3, <2>4, <2>5, <2>8
<1>4. \A k \in 1 .. n : k > 1 => P[k - 1] + V <= P[k]
  <2> SUFFICES ASSUME NEW k \in 1 .. n, k > 1 PROVE P[k - 1] + V <= P[k]
    OBVIOUS
  <2>1. k \in DOMAIN v /\ k - 1 \in 1 .. n
    BY <1>1, <1>2
  <2>2. Puntero(v[k - 1].dir) + V <= Puntero(v[k].dir)
    BY <2>1 DEF EnOrden
  <2> QED BY <1>2, <2>1, <2>2
<1> HIDE DEF P, V
<1> DEFINE S == {d \in Nat : \A k \in 1 .. n : k + d + 1 <= n => P[k] + V <= P[k + d + 1]}
<1>5. 0 \in S
  <2> SUFFICES ASSUME NEW k \in 1 .. n, k + 0 + 1 <= n PROVE P[k] + V <= P[k + 0 + 1]
    OBVIOUS
  <2>1. k + 0 + 1 \in 1 .. n /\ k + 0 + 1 > 1 /\ (k + 0 + 1) - 1 = k
    BY <1>2
  <2> QED BY <1>4, <2>1
<1>6. ASSUME NEW d \in Nat, d \in S PROVE d + 1 \in S
  <2> SUFFICES ASSUME NEW k \in 1 .. n, k + (d + 1) + 1 <= n PROVE P[k] + V <= P[k + (d + 1) + 1]
    OBVIOUS
  <2>1. /\ k + d + 1 \in 1 .. n /\ k + d + 1 <= n
        /\ k + (d + 1) + 1 \in 1 .. n /\ k + (d + 1) + 1 > 1 /\ (k + (d + 1) + 1) - 1 = k + d + 1
    BY <1>2
  <2>2. P[k] + V <= P[k + d + 1]
    BY <1>6, <2>1
  <2>3. P[k + d + 1] + V <= P[k + (d + 1) + 1]
    BY <1>4, <2>1
  <2>4. P[k] \in Nat /\ P[k + d + 1] \in Nat /\ P[k + (d + 1) + 1] \in Nat
    BY <1>3, <2>1
  <2>5. V \in Nat
    BY <1>1 DEF V
  <2> QED BY <2>2, <2>3, <2>4, <2>5
<1>7. \A d \in Nat : d \in S
  <2> HIDE DEF S
  <2> QED BY <1>5, <1>6, InduccionNat
<1>8. ASSUME NEW a \in 1 .. n, NEW b \in 1 .. n, a < b PROVE P[a] + V <= P[b]
  <2>1. PICK d \in Nat : d = b - a - 1 /\ a + d + 1 = b
    BY <1>2, <1>8
  <2>2. d \in S
    <3> HIDE DEF S
    <3> QED BY <1>7
  <2>3. a + d + 1 <= n
    BY <1>2, <2>1
  <2> QED BY <2>1, <2>2, <2>3
<1>9. ASSUME NEW a \in 1 .. n, NEW b \in 1 .. n, a < b, v[a].dir.pag = v[b].dir.pag
      PROVE  v[a].dir.off + V <= v[b].dir.off
  <2>1. PICK x \in Nat : x = v[a].dir.pag * MARCOS_SIZE
    BY <1>3
  <2>2. P[a] = x + v[a].dir.off /\ P[b] = x + v[b].dir.off
    BY <1>3, <1>9, <2>1
  <2>3. P[a] + V <= P[b]
    BY <1>8, <1>9
  <2>4. v[a].dir.off \in Nat /\ v[b].dir.off \in Nat
    BY <1>3
  <2>5. V \in Nat
    BY <1>1
  <2>6. PICK f \in Nat, g \in Nat, z \in Nat : f = v[a].dir.off /\ g = v[b].dir.off /\ z = V
    BY <2>4, <2>5
  <2>7. x + f + z <= x + g
    BY <2>2, <2>3, <2>6
  <2>8. f + z <= g
    BY <2>1, <2>7
  <2> QED BY <2>6, <2>8
<1>10. i \in 1 .. n /\ j \in 1 .. n /\ (i < j \/ j < i)
  BY <1>2
<1> QED BY <1>9, <1>10 DEF Apartadas, V

\* What is written of a variable is what there is, and the others do not change.
LEMMA ValorEscrito ==
  ASSUME guion \in Guiones, NEW m, NEW n, NEW p \in Pids, NEW e, EnPagina(e.dir),
         EscribioValor(m, n, p, e.dir, e.valor)
  PROVE  TieneValor(n, p, e)
<1> DEFINE V == VARIABLE_SIZE
           d == e.dir
<1>1. V \in Nat /\ d.off \in Nat /\ d.off + V <= MARCOS_SIZE /\ d.pag \in 0 .. UltimaDelStack /\ MARCOS_SIZE \in Nat
  BY EscribeEnPagina, EjecucionAssumption, MarcosAssumption DEF DondeEscribe
<1>2. PICK celdas : /\ Len(celdas) = V /\ \A i \in 1 .. V : celdas[i] = e.valor
                    /\ Escribio(m, n, UltimaDelStack, p, d.pag, d.off, celdas)
  BY DEF EscribioValor
<1> SUFFICES ASSUME NEW c \in 0 .. V - 1 PROVE En(n, p, d.pag, d.off + c) = e.valor
  BY DEF TieneValor
<1> HIDE DEF V, d
<1>3. PICK o \in 0 .. MARCOS_SIZE - 1 : o = d.off + c
  BY <1>1
<1>4. o \in d.off .. d.off + V - 1 /\ o - d.off + 1 \in 1 .. V
  BY <1>1, <1>3
<1>5. En(n, p, d.pag, o) = celdas[o - d.off + 1]
  BY <1>1, <1>2, <1>4 DEF Escribio
<1> QED BY <1>2, <1>3, <1>4, <1>5

\* Another one that is apart, or of another process, is as it was.
LEMMA ValorQueda ==
  ASSUME guion \in Guiones, NEW m, NEW n, NEW q \in Pids, NEW e, EnPagina(e.dir),
         TieneValor(m, q, e), NEW p \in Pids, NEW d, d.off \in Nat, NEW y, EscribioValor(m, n, p, d, y),
         q # p \/ Apartadas(e.dir, d)
  PROVE  TieneValor(n, q, e)
<1> DEFINE V == VARIABLE_SIZE
           f == e.dir
<1>1. V \in Nat /\ f.off \in Nat /\ f.off + V <= MARCOS_SIZE /\ f.pag \in 0 .. UltimaDelStack /\ MARCOS_SIZE \in Nat
  <2>1. DondeEscribe(f) /\ f.pag \in 0 .. UltimaDelStack
    BY EscribeEnPagina
  <2> QED BY <2>1, EjecucionAssumption, MarcosAssumption DEF DondeEscribe
<1>2. PICK celdas : /\ Len(celdas) = V
                    /\ Escribio(m, n, UltimaDelStack, p, d.pag, d.off, celdas)
  BY DEF EscribioValor
<1> SUFFICES ASSUME NEW c \in 0 .. V - 1 PROVE En(n, q, f.pag, f.off + c) = e.valor
  BY DEF TieneValor
<1>3. En(m, q, f.pag, f.off + c) = e.valor
  BY DEF TieneValor
<1>4. q # p \/ (f.pag = d.pag => d.off + V <= f.off \/ f.off + V <= d.off)
  BY DEF Apartadas
<1> HIDE DEF V, f
<1>5. PICK o \in 0 .. MARCOS_SIZE - 1 : o = f.off + c
  BY <1>1
<1>6. ~(q = p /\ f.pag = d.pag /\ o \in d.off .. d.off + V - 1)
  BY <1>1, <1>4, <1>5
<1>7. En(n, q, f.pag, o) = En(m, q, f.pag, o)
  BY <1>1, <1>2, <1>6 DEF Escribio
<1> QED BY <1>3, <1>5, <1>7

\* The same, of all that is alive in a stack.
LEMMA ValoresQuedan ==
  ASSUME guion \in Guiones, NEW m, NEW n, NEW q \in Pids, NEW v, EnOrden(v), ConSuValor(m, q, v),
         NEW p \in Pids, NEW d, d.off \in Nat, NEW y, EscribioValor(m, n, p, d, y),
         q # p \/ \A i \in DOMAIN v : Apartadas(v[i].dir, d)
  PROVE  ConSuValor(n, q, v)
BY ValorQueda DEF ConSuValor, EnOrden

\* The beginning of what is alive.
LEMMA ValoresDelComienzo ==
  ASSUME NEW m, NEW p, NEW T, NEW v \in Seq(T), NEW w \in Seq(T), ConSuValor(m, p, v \o w)
  PROVE  ConSuValor(m, p, v)
<1> DEFINE r == v \o w
<1>1. /\ Len(v) \in Nat /\ Len(w) \in Nat /\ DOMAIN v = 1..Len(v) /\ DOMAIN r = 1..Len(v) + Len(w)
      /\ \A i \in 1..Len(v) + Len(w) : r[i] = IF i <= Len(v) THEN v[i] ELSE w[i - Len(v)]
  BY ConcatProperties, LenProperties
<1> HIDE DEF r
<1>2. ASSUME NEW i \in 1..Len(v) PROVE i \in DOMAIN r /\ r[i] = v[i]
  BY <1>1
<1> QED BY <1>1, <1>2 DEF ConSuValor, r

\* One more is alive, and it is the one that is written.
LEMMA ValoresConOtro ==
  ASSUME guion \in Guiones, NEW U, NEW v \in Seq(Elem(U)), NEW e \in Elem(U), EnOrden(v \o <<e>>),
         NEW m, NEW n, NEW p \in Pids, ConSuValor(m, p, v), EscribioValor(m, n, p, e.dir, e.valor)
  PROVE  ConSuValor(n, p, v \o <<e>>)
<1> DEFINE r == v \o <<e>>
           k == Len(v)
           E == Elem(U)
<1>1. /\ k \in Nat /\ DOMAIN v = 1..k /\ r \in Seq(E) /\ Len(r) = k + 1 /\ r[k + 1] = e
      /\ \A i \in 1..k : r[i] = v[i]
  BY AgregaFrontal, LenProperties
<1>2. DOMAIN r = 1..k + 1
  BY <1>1, LenProperties
<1> HIDE DEF r, k, E
<1>3. \A i \in 1 .. k + 1 : EnPagina(r[i].dir)
  BY <1>2 DEF EnOrden, r
<1>4. k + 1 \in 1 .. k + 1 /\ EnPagina(e.dir)
  BY <1>1, <1>3
<1>5. TieneValor(n, p, e)
  BY <1>4, ValorEscrito
<1>6. ASSUME NEW i \in 1 .. k PROVE TieneValor(n, p, r[i])
  <2>1. i \in 1 .. Len(r) /\ k + 1 \in 1 .. Len(r) /\ i # k + 1
    BY <1>1
  <2>2. EnOrden(r) /\ r \in Seq(Elem(U))
    BY <1>1 DEF r, E
  <2>3. Apartadas(r[i].dir, r[k + 1].dir)
    BY <2>1, <2>2, VivasApartadas
  <2>4. TieneValor(m, p, r[i]) /\ EnPagina(r[i].dir)
    BY <1>1, <1>3, <2>1 DEF ConSuValor
  <2>5. e.dir.off \in Nat
    BY <1>4, EscribeEnPagina DEF DondeEscribe
  <2> QED BY <1>1, <2>3, <2>4, <2>5, ValorQueda
<1>7. \A i \in 1 .. k + 1 : i \in 1 .. k \/ i = k + 1
  BY <1>1
<1> QED BY <1>1, <1>2, <1>5, <1>6, <1>7 DEF ConSuValor, r

\* One of them has another value, and that is what is written.
LEMMA ValoresConCambio ==
  ASSUME guion \in Guiones, NEW U, NEW v \in Seq(Elem(U)), NEW w \in Seq(Elem(U)), EnOrden(v),
         NEW k, NEW y, CambiaUno(v, w, k, y),
         NEW m, NEW n, NEW p \in Pids, ConSuValor(m, p, v), EscribioValor(m, n, p, v[k].dir, y)
  PROVE  ConSuValor(n, p, w)
<1>1. /\ DOMAIN v = 1 .. Len(v) /\ DOMAIN w = 1 .. Len(v) /\ k \in 1 .. Len(v)
      /\ \A i \in 1 .. Len(v) : w[i].dir = v[i].dir /\ EnPagina(v[i].dir)
      /\ w[k].valor = y /\ \A i \in 1 .. Len(v) : i # k => w[i].valor = v[i].valor
  BY LenProperties DEF CambiaUno, MismasDirs, EnOrden
<1>2. TieneValor(n, p, w[k])
  BY <1>1, ValorEscrito
<1>3. ASSUME NEW i \in 1 .. Len(v), i # k PROVE TieneValor(n, p, w[i])
  <2>1. Apartadas(v[i].dir, v[k].dir)
    BY <1>1, <1>3, VivasApartadas
  <2>2. TieneValor(m, p, v[i])
    BY <1>1 DEF ConSuValor
  <2>3. TieneValor(m, p, w[i])
    BY <1>1, <1>3, <2>2 DEF TieneValor
  <2>4. v[k].dir.off \in Nat
    BY <1>1, EscribeEnPagina DEF DondeEscribe
  <2> QED BY <1>1, <2>1, <2>3, <2>4, ValorQueda
<1> QED BY <1>1, <1>2, <1>3 DEF ConSuValor
-----------------------------------------------------------------------------
\* asignar changes one value of what is alive in a context: the one of the name.
LEMMA ListaConValor ==
  ASSUME NEW U, NEW T \in {Vars(U), Args(U)}, NEW q \in Seq(T), NEW k \in 1 .. Len(q), NEW y
  PROVE  CambiaUno(q, [q EXCEPT ![k].valor = y], k, y)
<1> DEFINE W == U \cup {y}
           n == Len(q)
           r == [q EXCEPT ![k].valor = y]
<1>1. DOMAIN q = 1 .. n /\ n \in Nat /\ \A i \in 1 .. n : q[i] \in T
  BY LenProperties
<1>2. \A i \in 1 .. n : "valor" \in DOMAIN q[i] /\ "dir" \in DOMAIN q[i]
  BY <1>1 DEF Vars, Args
<1>3. /\ r[k].valor = y
      /\ \A i \in 1 .. n : r[i].dir = q[i].dir
      /\ \A i \in 1 .. n : i # k => r[i].valor = q[i].valor
  BY <1>1, <1>2
<1>4. MismasDirs(q, r)
  <2>1. Vars(U) \subseteq Vars(W) /\ Args(U) \subseteq Args(W)
    BY DEF Vars, Args
  <2> DEFINE S == IF T = Vars(U) THEN Vars(W) ELSE Args(W)
  <2>2. S \in {Vars(W), Args(W)} /\ T \subseteq S
    BY <2>1
  <2>5. y \in W
    OBVIOUS
  <2> HIDE DEF W, S, r
  <2>3. q \in Seq(S) /\ y \in W
    BY <2>2, <2>5
  <2>4. MismasDirs(q, [q EXCEPT ![k].valor = y])
    BY <2>2, <2>3, OtroValor
  <2> QED BY <2>4 DEF r
<1> QED BY <1>3, <1>4 DEF CambiaUno

\* In a context, the name says which one.
LEMMA GrupoConValor ==
  ASSUME NEW U, NEW c \in Contextos(U), NEW x, Definido(c, x), NEW y \in U
  PROVE  \E k : /\ CambiaUno(Grupo(c), Grupo(ConValor(c, x, y)), k, y)
                /\ Grupo(c)[k].dir = DirDe(c, x)
<1> DEFINE a == c.args
           v == c.vars
           d == ConValor(c, x, y)
<1>1. /\ Len(Grupo(c)) = Len(a) + Len(v) /\ Len(a) \in Nat /\ Len(v) \in Nat
      /\ \A i \in 1..Len(a) + Len(v) : Grupo(c)[i] = IF i <= Len(a) THEN a[i] ELSE v[i - Len(a)]
      /\ a \in Seq(Args(U)) /\ v \in Seq(Vars(U))
  BY GrupoTipo
<1>2. d \in Contextos(U) /\ MismoContexto(c, d) /\ MismasDirs(Grupo(c), Grupo(d))
  BY ContextoConValor, MismoGrupo
<1>3. /\ Len(d.args) = Len(a) /\ Len(d.vars) = Len(v)
      /\ \A i \in 1..Len(a) + Len(v) : Grupo(d)[i] = IF i <= Len(a) THEN d.args[i] ELSE d.vars[i - Len(a)]
  <2>1. Len(d.args) = Len(a) /\ Len(d.vars) = Len(v)
    BY <1>2 DEF MismoContexto, MismasDirs
  <2>2. \A i \in 1..Len(d.args) + Len(d.vars) :
          Grupo(d)[i] = IF i <= Len(d.args) THEN d.args[i] ELSE d.vars[i - Len(d.args)]
    BY <1>2, GrupoTipo
  <2> HIDE DEF d
  <2> QED BY <2>1, <2>2
<1>4. PICK m \in Nat, n \in Nat : m = Len(a) /\ n = Len(v)
  BY <1>1
<1>5. CASE x = "0"
  <2>1. a # <<>> /\ DirDe(c, x) = a[1].dir
    BY <1>5 DEF Definido, DirDe
  <2>2. 1 \in 1 .. m
    <3>1. Len(a) # 0
      BY <1>1, <2>1, EmptySeq
    <3> QED BY <1>4, <3>1
  <2>3. d.args = [a EXCEPT ![1].valor = y] /\ d.vars = v
    BY <1>5 DEF ConValor, Contextos
  <2>4. CambiaUno(a, d.args, 1, y)
    <3> HIDE DEF d, a
    <3>1. 1 \in 1 .. Len(a) /\ Args(U) \in {Vars(U), Args(U)} /\ a \in Seq(Args(U))
      BY <1>1, <1>4, <2>2
    <3>2. CambiaUno(a, [a EXCEPT ![1].valor = y], 1, y)
      BY <3>1, ListaConValor
    <3> QED BY <2>3, <3>2
  <2> HIDE DEF d, a, v
  <2>5. 1 \in 1 .. m + n /\ 1 <= m
    BY <2>2, <1>4
  <2>6. Grupo(d)[1].valor = y /\ Grupo(c)[1].dir = a[1].dir
    BY <1>1, <1>3, <1>4, <2>4, <2>5 DEF CambiaUno
  <2>7. \A i \in 1 .. m + n : i # 1 => Grupo(d)[i].valor = Grupo(c)[i].valor
    <3> SUFFICES ASSUME NEW i \in 1 .. m + n, i # 1 PROVE Grupo(d)[i].valor = Grupo(c)[i].valor
      OBVIOUS
    <3>1. CASE i <= m
      <4>1. i \in 1 .. m
        BY <3>1
      <4>2. d.args[i].valor = a[i].valor
        BY <1>4, <2>4, <4>1 DEF CambiaUno
      <4> QED BY <1>1, <1>3, <1>4, <3>1, <4>2
    <3>2. CASE ~(i <= m)
      BY <1>1, <1>3, <1>4, <2>3, <3>2
    <3> QED BY <3>1, <3>2
  <2>8. CambiaUno(Grupo(c), Grupo(d), 1, y)
    BY <1>1, <1>2, <1>4, <2>5, <2>6, <2>7 DEF CambiaUno
  <2> QED BY <2>1, <2>6, <2>8 DEF d
<1>6. CASE x # "0"
  <2> DEFINE k == IndiceDe(c, x)
  <2>1. k # 0 /\ DirDe(c, x) = v[k].dir
    BY <1>6 DEF Definido, DirDe
  <2>2. k \in 1 .. n
    <3> DEFINE I == {i \in 1 .. n : v[i].etiqueta = x}
    <3>1. k = IF I # {} THEN Max(I) ELSE 0
      BY <1>4 DEF IndiceDe, SelectLastInSeq
    <3>2. I \subseteq 1 .. n
      OBVIOUS
    <3> HIDE DEF I, v
    <3>3. I # {} => Max(I) \in I
      BY <1>4, <3>2, MaxEs
    <3> HIDE DEF k
    <3>4. k \in I
      BY <2>1, <3>1, <3>3
    <3> QED BY <3>2, <3>4
  <2>3. d.vars = [v EXCEPT ![k].valor = y] /\ d.args = a
    <3> HIDE DEF k
    <3>1. d = [c EXCEPT !.vars = [v EXCEPT ![k].valor = y]]
      BY <1>6 DEF ConValor, k
    <3> HIDE DEF d
    <3> QED BY <3>1 DEF Contextos
  <2> HIDE DEF d, a, v, k
  <2>4. CambiaUno(v, d.vars, k, y)
    <3>1. k \in 1 .. Len(v) /\ Vars(U) \in {Vars(U), Args(U)} /\ v \in Seq(Vars(U))
      BY <1>1, <1>4, <2>2
    <3>2. CambiaUno(v, [v EXCEPT ![k].valor = y], k, y)
      BY <3>1, ListaConValor
    <3> QED BY <2>3, <3>2
  <2>5. PICK j \in 1 .. m + n : j = m + k
    BY <2>2
  <2>6. ~(j <= m) /\ j - m = k
    BY <2>2, <2>5
  <2>7. Grupo(d)[j].valor = y /\ Grupo(c)[j].dir = v[k].dir
    BY <1>1, <1>3, <1>4, <2>4, <2>5, <2>6 DEF CambiaUno
  <2>8. \A i \in 1 .. m + n : i # j => Grupo(d)[i].valor = Grupo(c)[i].valor
    <3> SUFFICES ASSUME NEW i \in 1 .. m + n, i # j PROVE Grupo(d)[i].valor = Grupo(c)[i].valor
      OBVIOUS
    <3>1. CASE i <= m
      BY <1>1, <1>3, <1>4, <2>3, <3>1
    <3>2. CASE ~(i <= m)
      <4>1. PICK h \in 1 .. n : h = i - m
        BY <3>2
      <4>2. h # k
        BY <2>2, <2>5, <4>1
      <4>3. d.vars[h].valor = v[h].valor
        BY <1>4, <2>4, <4>1, <4>2 DEF CambiaUno
      <4>4. Grupo(d)[i] = d.vars[h] /\ Grupo(c)[i] = v[h]
        BY <1>1, <1>3, <1>4, <3>2, <4>1
      <4> QED BY <4>3, <4>4
    <3> QED BY <3>1, <3>2
  <2>9. CambiaUno(Grupo(c), Grupo(d), j, y)
    BY <1>1, <1>2, <1>4, <2>5, <2>7, <2>8 DEF CambiaUno
  <2> QED BY <2>1, <2>7, <2>9 DEF d
<1> QED BY <1>5, <1>6

\* A value of a list is one of it after another list.
LEMMA CambiaTrasOtra ==
  ASSUME NEW T, NEW u \in Seq(T), NEW v \in Seq(T), NEW w \in Seq(T), NEW k, NEW y, CambiaUno(v, w, k, y)
  PROVE  CambiaUno(u \o v, u \o w, Len(u) + k, y)
<1> DEFINE a == u \o v
           b == u \o w
<1>1. /\ Len(u) \in Nat /\ Len(v) \in Nat /\ Len(w) = Len(v)
      /\ Len(a) = Len(u) + Len(v) /\ Len(b) = Len(u) + Len(w)
      /\ \A i \in 1..Len(u) + Len(v) : a[i] = IF i <= Len(u) THEN u[i] ELSE v[i - Len(u)]
      /\ \A i \in 1..Len(u) + Len(w) : b[i] = IF i <= Len(u) THEN u[i] ELSE w[i - Len(u)]
  BY ConcatProperties, LenProperties DEF CambiaUno, MismasDirs
<1>2. MismasDirs(a, b)
  BY DirsJuntas DEF CambiaUno
<1> HIDE DEF a, b
<1>3. PICK m \in Nat, n \in Nat : m = Len(u) /\ n = Len(v)
  BY <1>1
<1>4. k \in 1 .. n /\ w[k].valor = y /\ \A i \in 1 .. n : i # k => w[i].valor = v[i].valor
  BY <1>3 DEF CambiaUno
<1>5. PICK j \in 1 .. m + n : j = m + k
  BY <1>4
<1>6. a[j] = v[k] /\ b[j] = w[k]
  <2>1. ~(j <= m) /\ j - m = k
    BY <1>4, <1>5
  <2> QED BY <1>1, <1>3, <1>5, <2>1
<1>7. ASSUME NEW i \in 1 .. m + n, i # j PROVE b[i].valor = a[i].valor
  <2>1. CASE i <= m
    BY <1>1, <1>3, <2>1
  <2>2. CASE ~(i <= m)
    <3>1. PICK h \in 1 .. n : h = i - m
      BY <2>2
    <3>2. h # k
      BY <1>4, <1>5, <1>7, <3>1
    <3>3. a[i] = v[h] /\ b[i] = w[h]
      BY <1>1, <1>3, <2>2, <3>1
    <3> QED BY <1>4, <3>1, <3>2, <3>3
  <2> QED BY <2>1, <2>2
<1>8. CambiaUno(a, b, j, y)
  BY <1>1, <1>2, <1>3, <1>4, <1>5, <1>6, <1>7 DEF CambiaUno
<1> QED BY <1>3, <1>5, <1>6, <1>8 DEF a, b

\* asignar in memory: the stack whose last context has another value.
LEMMA ValoresAsigna ==
  ASSUME guion \in Guiones, NEW U, NEW s, PilaBien(U, s), s # <<>>, NEW x, Definido(Last(s), x),
         NEW y, NEW m, NEW n, NEW p \in Pids, ConSuValor(m, p, VivasDe(s)),
         EscribioValor(m, n, p, DirDe(Last(s), x), y)
  PROVE  ConSuValor(n, p, VivasDe(Append(Front(s), ConValor(Last(s), x, y))))
<1> DEFINE W == U \cup {y}
           c == Last(s)
           f == Front(s)
           d == ConValor(c, x, y)
           E == Elem(W)
<1>1. PilaBien(W, s) /\ y \in W
  BY PilaMayor
<1> HIDE DEF W
<1>2. /\ c \in Contextos(W) /\ VivasDe(s) = VivasDe(f) \o Grupo(c)
      /\ f \in Seq(Contextos(W)) /\ EnOrden(VivasDe(s))
  BY <1>1, PilaSinUltimo DEF PilaBien
<1>3. d \in Contextos(W)
  BY <1>1, <1>2, ContextoConValor
<1>4. PICK k : CambiaUno(Grupo(c), Grupo(d), k, y) /\ Grupo(c)[k].dir = DirDe(c, x)
  BY <1>1, <1>2, GrupoConValor
<1> HIDE DEF c, d, f
<1>5. /\ VivasDe(f) \in Seq(E) /\ Grupo(c) \in Seq(E) /\ Grupo(d) \in Seq(E)
      /\ VivasDe(Append(f, d)) = VivasDe(f) \o Grupo(d)
  BY <1>2, <1>3, VivasAgrega, GrupoTipo
<1> DEFINE u == VivasDe(f)
           v == Grupo(c)
           w == Grupo(d)
<1>6. PICK j : CambiaUno(u \o v, u \o w, j, y) /\ (u \o v)[j] = v[k]
  <2>1. PICK T, a, b, e : T = E /\ a = u /\ b = v /\ e = w
    OBVIOUS
  <2>2. CambiaUno(b, e, k, y) /\ a \in Seq(T) /\ b \in Seq(T) /\ e \in Seq(T)
    BY <1>4, <1>5, <2>1
  <2>3. CambiaUno(a \o b, a \o e, Len(a) + k, y) /\ (a \o b)[Len(a) + k] = b[k]
    <3> HIDE DEF u, v, w, E
    <3>1. CambiaUno(a \o b, a \o e, Len(a) + k, y)
      BY <2>2, CambiaTrasOtra
    <3>2. (a \o b)[Len(a) + k] = b[k]
      <4>1. k \in 1 .. Len(b)
        BY <2>2 DEF CambiaUno
      <4>2. /\ Len(a) \in Nat /\ Len(b) \in Nat
            /\ \A i \in 1..Len(a) + Len(b) : (a \o b)[i] = IF i <= Len(a) THEN a[i] ELSE b[i - Len(a)]
        BY <2>2, ConcatProperties, LenProperties
      <4>3. PICK la \in Nat, lb \in Nat : la = Len(a) /\ lb = Len(b)
        BY <4>2
      <4>4. la + k \in 1 .. la + lb /\ ~(la + k <= la) /\ (la + k) - la = k
        BY <4>1, <4>3
      <4> QED BY <4>2, <4>3, <4>4
    <3> QED BY <3>1, <3>2
  <2> HIDE DEF u, v, w, E
  <2> QED BY <2>1, <2>3
<1>7. u \o v \in Seq(E) /\ u \o w \in Seq(E) /\ EnOrden(u \o v) /\ ConSuValor(m, p, u \o v)
      /\ EscribioValor(m, n, p, (u \o v)[j].dir, y)
  <2>1. u \in Seq(E) /\ v \in Seq(E) /\ w \in Seq(E) /\ u \o v = VivasDe(s)
    BY <1>2, <1>5
  <2>2. (u \o v)[j].dir = DirDe(c, x)
    BY <1>4, <1>6
  <2>3. EscribioValor(m, n, p, DirDe(c, x), y)
    BY DEF c
  <2> HIDE DEF u, v, w, E
  <2>4. u \o v \in Seq(E) /\ u \o w \in Seq(E)
    BY <2>1, ConcatProperties
  <2> QED BY <1>2, <2>1, <2>2, <2>3, <2>4
<1>8. ConSuValor(n, p, u \o w)
  <2> DEFINE a == u \o v
             b == u \o w
  <2>1. /\ a \in Seq(Elem(W)) /\ b \in Seq(Elem(W)) /\ EnOrden(a) /\ ConSuValor(m, p, a)
        /\ EscribioValor(m, n, p, a[j].dir, y) /\ CambiaUno(a, b, j, y)
    BY <1>6, <1>7
  <2> HIDE DEF a, b
  <2>2. ConSuValor(n, p, b)
    BY <2>1, ValoresConCambio
  <2> QED BY <2>2 DEF b
<1> QED BY <1>5, <1>8 DEF c, d, f
-----------------------------------------------------------------------------
\* The stack and the memory after a sentence.
LEMMA PilaTrasSigue ==
  ASSUME NEW p \in Pids, DOMAIN pcb = Pids, NEW x, EsPcb(x), Sigue(p, x)
  PROVE  pcb'[p].pila = x.pila
<1> DEFINE z == [x EXCEPT !.pc = x.pc + 1]
<1>1. pcb' = [pcb EXCEPT ![p] = z]
  BY DEF Sigue
<1>2. z.pila = x.pila
  BY DEF EsPcb
<1> HIDE DEF z
<1> QED BY <1>1, <1>2

\* Where there is nothing alive.
LEMMA ValoresDeNada ==
  ASSUME NEW m, NEW p
  PROVE  VivasDe(<<>>) = <<>> /\ ConSuValor(m, p, VivasDe(<<>>))
<1>1. VivasDe(<<>>) = <<>>
  <2>1. <<>> \in Seq(Contextos({})) /\ DOMAIN <<>> = {}
    OBVIOUS
  <2> QED BY <2>1, VivasVacias
<1>2. DOMAIN <<>> = {}
  OBVIOUS
<1> QED BY <1>1, <1>2 DEF ConSuValor

\* The CPU that crashes, or that leaves a process, keeps the values.
LEMMA ValoresDeja ==
  ASSUME NEW U, Pilas(U), NEW p \in Pids, NEW e, Deja(p, e), NEW m
  PROVE  pcb'[p].pila = <<>> /\ ConSuValor(m, p, VivasDe(pcb'[p].pila))
<1>1. pcb'[p].pila = <<>>
  <2>1. p \in DOMAIN pcb /\ "pila" \in DOMAIN pcb[p]
    BY DEF Pilas, EsPcb
  <2> QED BY <2>1 DEF Deja
<1> QED BY <1>1, ValoresDeNada

\* ESCRIBIRVARIABLE, from the memory before to the one after.
LEMMA EscribioLaVariable ==
  ASSUME guion \in Guiones, PaginasEnSuMarco, NEW p \in Pids, estado[p] = "ejecuta",
         NEW d, DondeEscribe(d), NEW y, EscribirVariable(p, d, y)
  PROVE  EscribioValor(contenido, contenido', p, d, y)
BY EscribirEs DEF EscribioValor

\* definirVariable: one more variable is alive, with what was written.
LEMMA VariablesValores ==
  ASSUME NEW U, Pilas(U), PaginasEnSuMarco, NEW p \in Pids, Variables(p),
         ConSuValor(contenido, p, VivasDe(Pila(p)))
  PROVE  ConSuValor(contenido', p, VivasDe(pcb'[p].pila))
<1> DEFINE s == Pila(p)
           d == DireccionDeVariable(s)
           v == [etiqueta |-> Sentencia(p).x, dir |-> d, valor |-> Cero]
           W == U \cup {Sentencia(p).x, Cero}
           n == Len(s)
           x == [pcb[p] EXCEPT !.pila[n].vars = Append(@, v)]
           c == ConVariable(Last(s), v)
<1>1. estado[p] = "ejecuta" /\ DOMAIN pcb = Pids
  BY DEF Variables, Ejecuta, Pilas
<1>2. /\ guion \in Guiones /\ EsPcb(pcb[p]) /\ s = pcb[p].pila
      /\ PilaBien(U, s) /\ s # <<>> /\ s \in Seq(Contextos(U))
      /\ n \in Nat \ {0} /\ DOMAIN s = 1..n
  BY <1>1, PilaDe
<1>3. \/ Cae(p)
      \/ Deja(p, "desborda")
      \/ d # NULO /\ ~Desborda(d) /\ EscribirVariable(p, d, Cero) /\ Sigue(p, x)
  BY DEF Variables
<1>4. CASE Cae(p)
  BY <1>4 DEF Cae, memoria, Pila
<1>5. CASE Deja(p, "desborda")
  BY <1>5, ValoresDeja
<1>6. CASE d # NULO /\ ~Desborda(d) /\ EscribirVariable(p, d, Cero) /\ Sigue(p, x)
  <2>1. d \in Lugares /\ EnPagina(d)
    BY <1>2, <1>6, LugarDeVariable
  <2>2. U \subseteq W /\ PilaBien(W, s)
    BY <1>2, PilaMayor
  <2>3. v \in Vars(W) /\ v.dir = d /\ v.valor = Cero
    BY <2>1 DEF Vars
  <2>4. EscribioValor(contenido, contenido', p, d, Cero)
    <3>1. DondeEscribe(d)
      BY <1>2, <2>1, EscribeEnPagina
    <3> QED BY <1>1, <1>2, <1>6, <3>1, EscribioLaVariable
  <2>5. c = [s[n] EXCEPT !.vars = Append(@, v)] /\ Last(s) = s[n]
    BY DEF ConVariable, Last
  <2>6. c \in Contextos(W) /\ s \in Seq(Contextos(W))
    <3>1. Last(s) \in Contextos(W) /\ s \in Seq(Contextos(W))
      BY <1>2, <2>2, PilaSinUltimo DEF PilaBien
    <3> HIDE DEF s, v, W
    <3> QED BY <3>1, <2>3, GrupoConVariable
  <2>7. /\ PilaBien(W, Append(Front(s), c)) /\ VivasDe(Append(Front(s), c)) = VivasDe(s) \o <<v>>
    <3> HIDE DEF v, s, W
    <3> QED BY <1>2, <1>6, <2>2, <2>3, PilaConVariable
  <2> HIDE DEF c, v, W
  <2>8. EsPcb(x) /\ x.pila = [s EXCEPT ![n] = c]
    <3>1. "pila" \in DOMAIN pcb[p] /\ DOMAIN x = DOMAIN pcb[p]
      BY <1>2 DEF EsPcb
    <3>2. x.pila = [s EXCEPT ![n].vars = Append(@, v)]
      BY <1>2, <3>1
    <3> QED BY <3>1, <3>2, <2>5, <1>2 DEF EsPcb
  <2>9. [s EXCEPT ![n] = c] = Append(Front(s), c)
    <3> HIDE DEF s
    <3>1. s \in Seq(Contextos(W)) /\ s # <<>> /\ c \in Contextos(W)
      BY <1>2, <2>6
    <3> QED BY <3>1, CambiaUltimo, Zenon
  <2>10. pcb'[p].pila = Append(Front(s), c)
    <3>1. Sigue(p, x)
      BY <1>6
    <3> HIDE DEF x
    <3> QED BY <1>1, <2>8, <2>9, <3>1, PilaTrasSigue
  <2>11. VivasDe(s) \in Seq(Elem(W)) /\ v \in Elem(W) /\ EnOrden(VivasDe(s) \o <<v>>)
    <3>1. VivasDe(s) \in Seq(Elem(W))
      BY <2>6, VivasTipo
    <3> QED BY <2>3, <2>7, <3>1 DEF Elem, PilaBien
  <2> DEFINE z == VivasDe(s)
  <2>12. ConSuValor(contenido', p, z \o <<v>>)
    <3>1. /\ z \in Seq(Elem(W)) /\ v \in Elem(W) /\ EnOrden(z \o <<v>>) /\ ConSuValor(contenido, p, z)
          /\ EscribioValor(contenido, contenido', p, v.dir, v.valor) /\ guion \in Guiones
      BY <1>2, <2>3, <2>4, <2>11
    <3> HIDE DEF z, s
    <3> QED BY <3>1, ValoresConOtro
  <2> QED BY <2>7, <2>10, <2>12
<1> QED BY <1>3, <1>4, <1>5, <1>6

\* asignar: the value of one changes, in memory and in the stack.
LEMMA AsignaValores ==
  ASSUME NEW U, Pilas(U), PaginasEnSuMarco, NEW p \in Pids, Asigna(p),
         ConSuValor(contenido, p, VivasDe(Pila(p)))
  PROVE  ConSuValor(contenido', p, VivasDe(pcb'[p].pila))
<1> DEFINE s == Pila(p)
           k == Sentencia(p).x
           y == Valor(p, Sentencia(p).e)
           q == Front(s) \o <<ConValor(Tope(p), k, y)>>
           x == [pcb[p] EXCEPT !.pila = Front(@) \o <<ConValor(Tope(p), k, y)>>]
<1>1. /\ estado[p] = "ejecuta" /\ DOMAIN pcb = Pids /\ Sigue(p, x)
      /\ EscribirVariable(p, ObtenerPosicionVariable(p, k), y)
  BY DEF Asigna, Ejecuta, Pilas
<1>2. /\ EsPcb(pcb[p]) /\ s = pcb[p].pila /\ PilaBien(U, s) /\ s # <<>> /\ Tope(p) = Last(s)
      /\ guion \in Guiones
  BY <1>1, PilaDe
<1>3. Definido(Last(s), k)
  BY <1>2, NombresDefinidos DEF Asigna
<1>4. EscribirVariable(p, DirDe(Last(s), k), y)
  BY <1>1, <1>2 DEF ObtenerPosicionVariable, DirDe
<1>5. EsPcb(x) /\ x.pila = q
  BY <1>2 DEF EsPcb
<1>6. pcb'[p].pila = q
  <2> HIDE DEF x, q
  <2> QED BY <1>1, <1>5, PilaTrasSigue
<1> HIDE DEF s, k, y
<1>7. EscribioValor(contenido, contenido', p, DirDe(Last(s), k), y)
  <2>1. EnPagina(DirDe(Last(s), k))
    BY <1>2, <1>3, NombreEnPagina
  <2>2. DondeEscribe(DirDe(Last(s), k))
    BY <1>2, <2>1, EscribeEnPagina
  <2> QED BY <1>1, <1>2, <1>4, <2>2, EscribioLaVariable
<1>8. ConSuValor(contenido', p, VivasDe(Append(Front(s), ConValor(Last(s), k, y))))
  <2>1. ConSuValor(contenido, p, VivasDe(s))
    BY DEF s
  <2> QED BY <1>2, <1>3, <1>7, <2>1, ValoresAsigna
<1>9. Append(Front(s), ConValor(Last(s), k, y)) = q
  <2> DEFINE W == U \cup {y}
             f == Front(s)
             c == ConValor(Last(s), k, y)
  <2>1. PilaBien(W, s) /\ y \in W
    BY <1>2, PilaMayor
  <2> HIDE DEF W
  <2>2. f \in Seq(Contextos(W)) /\ c \in Contextos(W)
    BY <1>2, <2>1, PilaSinUltimo, ContextoConValor DEF PilaBien
  <2> HIDE DEF f, c
  <2>3. Append(f, c) = f \o <<c>>
    BY <2>2, AgregaFrontal
  <2> QED BY <1>2, <2>3 DEF f, c, q
<1> QED BY <1>6, <1>8, <1>9

\* irAlLabel writes nothing.
LEMMA JnzValores ==
  ASSUME NEW U, Pilas(U), NEW p \in Pids, Jnz(p), ConSuValor(contenido, p, VivasDe(Pila(p)))
  PROVE  ConSuValor(contenido', p, VivasDe(pcb'[p].pila))
<1>1. estado[p] = "ejecuta" /\ DOMAIN pcb = Pids /\ contenido' = contenido
  BY DEF Jnz, Ejecuta, Pilas, memoria
<1>2. EsPcb(pcb[p]) /\ Pila(p) = pcb[p].pila
  BY <1>1, PilaDe
<1> DEFINE x == [pcb[p] EXCEPT !.pc = Sentencia(p).a - 1]
<1>3. Sigue(p, x) \/ Sigue(p, pcb[p])
  BY DEF Jnz
<1>4. EsPcb(x) /\ x.pila = pcb[p].pila
  BY <1>2 DEF EsPcb
<1> HIDE DEF x
<1>5. pcb'[p].pila = pcb[p].pila
  BY <1>1, <1>2, <1>3, <1>4, PilaTrasSigue
<1> QED BY <1>1, <1>2, <1>5
-----------------------------------------------------------------------------
\* The context of a call with an argument has it alone.
LEMMA GrupoConArgumento ==
  ASSUME NEW W, NEW c \in Contextos(W), c.vars = <<>>, c.args = <<>>,
         NEW d \in Lugares, NEW y \in W
  PROVE  /\ Grupo(ConArgumento(c, d, y)) = <<[dir |-> d, valor |-> y]>>
         /\ [dir |-> d, valor |-> y] \in Elem(W)
<1> DEFINE a == [dir |-> d, valor |-> y]
           e == ConArgumento(c, d, y)
<1>1. a \in Args(W)
  BY DEF Args
<1>2. e.args = <<a>> /\ e.vars = <<>>
  <2>1. Append(c.args, a) = <<a>>
    OBVIOUS
  <2>2. e = [c EXCEPT !.args = <<a>>]
    BY <2>1 DEF ConArgumento
  <2> HIDE DEF a, e
  <2> QED BY <2>2 DEF Contextos
<1>3. <<a>> \o <<>> = <<a>>
  OBVIOUS
<1> HIDE DEF a, e
<1>4. Grupo(e) = <<a>>
  BY <1>2, <1>3 DEF Grupo
<1> QED BY <1>1, <1>4 DEF Elem, a, e

\* llamarSinRetorno and llamarConRetorno: an argument more is alive, or nothing.
LEMMA LlamaValores ==
  ASSUME NEW U, Pilas(U), PaginasEnSuMarco, NEW p \in Pids, Llama(p),
         ConSuValor(contenido, p, VivasDe(Pila(p)))
  PROVE  ConSuValor(contenido', p, VivasDe(pcb'[p].pila))
<1> DEFINE s     == Pila(p)
           args  == Sentencia(p).args
           c     == Llamado(p)
           nueva == Append(s, c)
           d     == DireccionDeArgumento(nueva)
           y     == [valor |-> args[1]]
           e     == ConArgumento(c, d, y)
           dos   == Append(s, e)
           W     == U \cup {c.retPos, c.retVar, c.destino, y}
           va    == [pcb[p] EXCEPT !.pc = Sentencia(p).a - 1]
           x1    == [va EXCEPT !.pila = nueva]
           x2    == [va EXCEPT !.pila = dos]
<1>1. estado[p] = "ejecuta" /\ DOMAIN pcb = Pids
  BY DEF Llama, Ejecuta, Pilas
<1>2. /\ guion \in Guiones /\ EsPcb(pcb[p]) /\ s = pcb[p].pila
      /\ PilaBien(U, s) /\ s # <<>>
  BY <1>1, PilaDe
<1>3. \/ Cae(p)
      \/ Sigue(p, x1) /\ UNCHANGED memoria
      \/ Deja(p, "desborda")
      \/ d # NULO /\ ~Desborda(d) /\ EscribirVariable(p, d, y) /\ Sigue(p, x2)
  BY DEF Llama
<1>4. U \subseteq W /\ PilaBien(W, s) /\ y \in W
  BY <1>2, PilaMayor
<1>5. c \in Contextos(W) /\ c.vars = <<>> /\ c.args = <<>>
  <2>1. /\ c = [retPos |-> c.retPos, retVar |-> c.retVar, destino |-> c.destino,
                vars |-> <<>>, args |-> <<>>]
        /\ c.vars = <<>> /\ c.args = <<>>
    BY DEF Llamado, Contexto
  <2> HIDE DEF c, y
  <2>2. <<>> \in Seq(Vars(W)) /\ <<>> \in Seq(Args(W))
    OBVIOUS
  <2>3. c.retPos \in W /\ c.retVar \in W /\ c.destino \in W
    OBVIOUS
  <2> QED BY <2>1, <2>2, <2>3 DEF Contextos
<1>6. CASE Cae(p)
  BY <1>6 DEF Cae, memoria, Pila
<1>7. CASE Sigue(p, x1) /\ UNCHANGED memoria
  <2> HIDE DEF c, W
  <2>1. VivasDe(nueva) = VivasDe(s)
    <3> HIDE DEF s
    <3>1. s \in Seq(Contextos(W))
      BY <1>4 DEF PilaBien
    <3> QED BY <1>5, <3>1, UltimaViva
  <2>2. EsPcb(x1) /\ x1.pila = nueva
    BY <1>2 DEF EsPcb
  <2> HIDE DEF x1, nueva
  <2>3. pcb'[p].pila = nueva
    BY <1>1, <1>7, <2>2, PilaTrasSigue
  <2>4. contenido' = contenido
    BY <1>7 DEF memoria
  <2> QED BY <2>1, <2>3, <2>4
<1>8. CASE Deja(p, "desborda")
  BY <1>8, ValoresDeja
<1>9. CASE d # NULO /\ ~Desborda(d) /\ EscribirVariable(p, d, y) /\ Sigue(p, x2)
  <2> HIDE DEF c, W, y
  <2>1. e \in Contextos(W) /\ e.vars = <<>> /\ ArgumentoTras(Last(s), e) /\ d \in Lugares
    <3>1. d = DireccionDeArgumento(Append(s, c)) /\ d # NULO /\ ~Desborda(d)
      BY <1>9
    <3> HIDE DEF s, d
    <3> QED BY <1>2, <1>4, <1>5, <3>1, ContextoDeLlamada
  <2> DEFINE a == [dir |-> d, valor |-> y]
             z == VivasDe(s)
  <2>2. Grupo(e) = <<a>> /\ a \in Elem(W)
    <3> HIDE DEF d
    <3> QED BY <1>4, <1>5, <2>1, GrupoConArgumento
  <2>3. EnPagina(d)
    <3>1. EnPagina(e.args[1].dir)
      <4> HIDE DEF s, e
      <4> QED BY <1>2, <1>4, <2>1, ArgumentoEnPagina
    <3>2. e.args[1].dir = d
      <4>1. e.args = Append(<<>>, a)
        <5>1. e.args = Append(c.args, a)
          <6> HIDE DEF d, a
          <6> QED BY <1>5 DEF ConArgumento, Contextos, a
        <5> QED BY <1>5, <5>1
      <4> HIDE DEF d, e
      <4>2. e.args = <<a>>
        BY <4>1
      <4> QED BY <4>2
    <3> QED BY <3>1, <3>2
  <2> HIDE DEF e
  <2>4. PilaBien(W, dos) /\ VivasDe(dos) = z \o <<a>> /\ z \in Seq(Elem(W))
    <3> HIDE DEF s
    <3>1. s \in Seq(Contextos(W))
      BY <1>4 DEF PilaBien
    <3>2. PilaBien(W, dos)
      BY <1>2, <1>4, <2>1, PilaConLlamada
    <3>3. VivasDe(dos) = VivasDe(s) \o Grupo(e)
      BY <2>1, <3>1, VivasAgrega
    <3> QED BY <2>2, <3>1, <3>2, <3>3, VivasTipo
  <2>5. EsPcb(x2) /\ x2.pila = dos
    BY <1>2 DEF EsPcb
  <2>6. EscribioValor(contenido, contenido', p, d, y)
    <3> HIDE DEF d
    <3>1. DondeEscribe(d)
      BY <1>2, <2>3, EscribeEnPagina
    <3> QED BY <1>1, <1>2, <1>9, <3>1, EscribioLaVariable
  <2>7. pcb'[p].pila = dos
    <3>1. Sigue(p, x2)
      BY <1>9
    <3> HIDE DEF x2, dos
    <3> QED BY <1>1, <2>5, <3>1, PilaTrasSigue
  <2>8. a.dir = d /\ a.valor = y
    BY DEF a
  <2>9. EnOrden(VivasDe(dos))
    BY <2>4 DEF PilaBien
  <2>10. ConSuValor(contenido', p, z \o <<a>>)
    <3>1. /\ z \in Seq(Elem(W)) /\ a \in Elem(W) /\ EnOrden(z \o <<a>>) /\ ConSuValor(contenido, p, z)
          /\ EscribioValor(contenido, contenido', p, a.dir, a.valor) /\ guion \in Guiones
      <4> HIDE DEF a, d, dos
      <4> QED BY <1>2, <2>2, <2>4, <2>6, <2>8, <2>9
    <3> HIDE DEF z, a, s
    <3> QED BY <3>1, ValoresConOtro
  <2> QED BY <2>4, <2>7, <2>10
<1> QED BY <1>3, <1>6, <1>7, <1>8, <1>9

\* The context that returns is not alive any more.
LEMMA ValoresDeAbajo ==
  ASSUME NEW U, NEW s, PilaBien(U, s), s # <<>>, NEW m, NEW p, ConSuValor(m, p, VivasDe(s))
  PROVE  ConSuValor(m, p, VivasDe(Front(s)))
<1> DEFINE v == VivasDe(Front(s))
           w == Grupo(Last(s))
           T == Elem(U)
<1>1. PilaBien(U, Front(s)) /\ Last(s) \in Contextos(U) /\ VivasDe(s) = v \o w
  BY PilaSinUltimo
<1>2. v \in Seq(T) /\ w \in Seq(T)
  <2>1. Front(s) \in Seq(Contextos(U))
    BY <1>1 DEF PilaBien
  <2> QED BY <1>1, <2>1, VivasTipo, GrupoTipo
<1>3. ConSuValor(m, p, v \o w)
  BY <1>1
<1> HIDE DEF v, w, T
<1>4. ConSuValor(m, p, v)
  BY <1>2, <1>3, ValoresDelComienzo
<1> QED BY <1>4 DEF v

\* retornar: the value of the variable that was given to the call changes.
LEMMA RetornaValores ==
  ASSUME NEW U, Pilas(U), PaginasEnSuMarco, NEW p \in Pids, RetornosBien(Pila(p)), Retorna(p),
         ConSuValor(contenido, p, VivasDe(Pila(p)))
  PROVE  ConSuValor(contenido', p, VivasDe(pcb'[p].pila))
<1> DEFINE s == Pila(p)
           f == Front(s)
           y == Valor(p, Sentencia(p).e)
           k == Tope(p).destino
           b == s[Len(s) - 1]
           z == Destruye(p, ConValor(b, k, y))
           x == [z EXCEPT !.pc = Tope(p).retPos]
           q == Front(f) \o <<ConValor(b, k, y)>>
           g == Append(Front(f), ConValor(b, k, y))
<1>1. estado[p] = "ejecuta" /\ DOMAIN pcb = Pids
  BY DEF Retorna, Ejecuta, Pilas
<1>2. /\ guion \in Guiones /\ EsPcb(pcb[p]) /\ s = pcb[p].pila /\ PilaBien(U, s) /\ s # <<>>
      /\ s \in Seq(Contextos(U)) /\ Tope(p) = Last(s) /\ RetornosBien(s)
      /\ ConSuValor(contenido, p, VivasDe(s))
  BY <1>1, PilaDe
<1>3. \/ UNCHANGED <<memoria, pcb>>
      \/ Tope(p).retVar # NULO /\ EscribirVariable(p, Tope(p).retVar, y) /\ Sigue(p, x)
  BY DEF Retorna
<1>4. CASE UNCHANGED <<memoria, pcb>>
  BY <1>4 DEF memoria, Pila
<1>5. CASE Tope(p).retVar # NULO /\ EscribirVariable(p, Tope(p).retVar, y) /\ Sigue(p, x)
  <2>1. Len(s) # 1
    BY <1>2, <1>5 DEF PilaBien, Last
  <2>2. EsPcb(x) /\ x.pila = q
    BY <1>2 DEF EsPcb, Destruye
  <2>3. pcb'[p].pila = q
    <3>1. Sigue(p, x)
      BY <1>5
    <3> HIDE DEF x, q
    <3> QED BY <1>1, <2>2, <3>1, PilaTrasSigue
  <2> HIDE DEF x
  <2>4. RetornoBien(b, Tope(p))
    <3> HIDE DEF s
    <3> QED BY <1>2, <1>5, RetornosFrente
  <2> HIDE DEF s
  <2>5. PilaBien(U, f) /\ f # <<>> /\ Last(f) = b
    BY <1>2, <2>1, PilaAbajo
  <2>6. Definido(Last(f), k) /\ Tope(p).retVar = DirDe(Last(f), k)
    BY <2>4, <2>5 DEF RetornoBien
  <2>7. ConSuValor(contenido, p, VivasDe(f))
    BY <1>2, ValoresDeAbajo
  <2> HIDE DEF y, f, k, b
  <2>8. EscribioValor(contenido, contenido', p, DirDe(Last(f), k), y)
    <3>1. EnPagina(DirDe(Last(f), k))
      BY <2>5, <2>6, NombreEnPagina
    <3>2. DondeEscribe(DirDe(Last(f), k))
      BY <1>2, <3>1, EscribeEnPagina
    <3>3. EscribirVariable(p, DirDe(Last(f), k), y)
      BY <1>5, <2>6
    <3> QED BY <1>1, <1>2, <3>2, <3>3, EscribioLaVariable
  <2>9. ConSuValor(contenido', p, VivasDe(Append(Front(f), ConValor(Last(f), k, y))))
    BY <1>2, <2>5, <2>6, <2>7, <2>8, ValoresAsigna
  <2>10. g = q
    <3> DEFINE W == U \cup {y}
               h == Front(f)
               c == ConValor(b, k, y)
    <3>1. PilaBien(W, f) /\ y \in W
      BY <2>5, PilaMayor
    <3> HIDE DEF W
    <3>2. h \in Seq(Contextos(W)) /\ c \in Contextos(W)
      BY <2>5, <3>1, PilaSinUltimo, ContextoConValor DEF PilaBien
    <3> HIDE DEF h, c
    <3>3. Append(h, c) = h \o <<c>>
      BY <3>2, AgregaFrontal
    <3> QED BY <3>3 DEF h, c
  <2>11. ConSuValor(contenido', p, VivasDe(g))
    BY <2>5, <2>9
  <2> HIDE DEF g, q
  <2> QED BY <2>3, <2>10, <2>11
<1> QED BY <1>3, <1>4, <1>5

\* finalizar of a function, or of the program.
LEMMA FinalizaValores ==
  ASSUME NEW U, Pilas(U), NEW p \in Pids, Finaliza(p), ConSuValor(contenido, p, VivasDe(Pila(p)))
  PROVE  ConSuValor(contenido', p, VivasDe(pcb'[p].pila))
<1> DEFINE s == Pila(p)
           f == Front(s)
           b == s[Len(s) - 1]
           x == Destruye(p, b)
           q == Front(f) \o <<b>>
<1>1. estado[p] = "ejecuta" /\ DOMAIN pcb = Pids /\ contenido' = contenido
  BY DEF Finaliza, Ejecuta, Pilas, memoria
<1>2. /\ EsPcb(pcb[p]) /\ s = pcb[p].pila /\ PilaBien(U, s) /\ s # <<>>
      /\ Len(s) \in Nat /\ ConSuValor(contenido, p, VivasDe(s))
  BY <1>1, PilaDe
<1>3. \/ Deja(p, "fin")
      \/ Len(s) # 1 /\ Sigue(p, x)
  <2>1. Deja(p, "fin") \/ (Len(s) > 1 /\ Sigue(p, x))
    BY DEF Finaliza
  <2>2. Len(s) > 1 => Len(s) # 1
    <3> DEFINE n == Len(s)
    <3>1. n \in Nat
      BY <1>2
    <3> HIDE DEF n
    <3>2. n > 1 => n # 1
      BY <3>1
    <3> QED BY <3>2 DEF n
  <2> HIDE DEF s, x
  <2> QED BY <2>1, <2>2
<1>4. CASE Deja(p, "fin")
  BY <1>4, ValoresDeja
<1>5. CASE Len(s) # 1 /\ Sigue(p, x)
  <2>1. EsPcb(x) /\ x.pila = q
    BY <1>2 DEF EsPcb, Destruye
  <2>2. Sigue(p, x)
    BY <1>5
  <2> HIDE DEF s, x
  <2>3. f = q
    BY <1>2, <1>5, PilaAbajo
  <2>4. ConSuValor(contenido, p, VivasDe(f))
    BY <1>2, ValoresDeAbajo
  <2> HIDE DEF f, q
  <2>5. pcb'[p].pila = q
    BY <1>1, <2>1, <2>2, PilaTrasSigue
  <2> QED BY <1>1, <2>3, <2>4, <2>5
<1> QED BY <1>3, <1>4, <1>5
-----------------------------------------------------------------------------
\* A sentence changes the stack of its process only.
LEMMA OtraPila ==
  ASSUME InvPilas, Retornos, LecturaBien, NEW p \in Pids, Primitivas(p), NEW q \in Pids, q # p
  PROVE  pcb'[q] = pcb[q]
<1>1. DOMAIN pcb = Pids
  BY DEF InvPilas, Pilas
<1>2. SentenciaBien(p)
  BY PrimitivaSigue
<1>3. CASE Cae(p)
  BY <1>3 DEF Cae
<1>4. ASSUME NEW e, Deja(p, e) PROVE pcb'[q] = pcb[q]
  BY <1>1, <1>4 DEF Deja
<1>5. ASSUME NEW x, SigueBien(p, x) PROVE pcb'[q] = pcb[q]
  BY <1>1, <1>5 DEF SigueBien, Sigue
<1> QED BY <1>2, <1>3, <1>4, <1>5 DEF SentenciaBien

\* The values of every process, after a sentence of one.
LEMMA ValoresPrimitiva ==
  ASSUME InvPilas, Retornos, PaginasEnSuMarco, LecturaBien, ValoresEnMemoria,
         NEW p \in Pids, Primitivas(p), NEW q \in Pids
  PROVE  ConSuValor(contenido', q, VivasDe(pcb'[q].pila))
<1>1. PICK U : Pilas(U)
  BY DEF InvPilas
<1>2. ConSuValor(contenido, p, VivasDe(Pila(p))) /\ RetornosBien(Pila(p))
  BY DEF ValoresEnMemoria, Retornos, Pila
<1>3. CASE q = p
  <2>1. ConSuValor(contenido', p, VivasDe(pcb'[p].pila))
    BY <1>1, <1>2, VariablesValores, AsignaValores, JnzValores, LlamaValores, RetornaValores,
       FinalizaValores DEF Primitivas
  <2> QED BY <1>3, <2>1
<1>4. CASE q # p
  <2>1. pcb'[q] = pcb[q]
    BY <1>4, OtraPila
  <2>2. PICK v : v = VivasDe(pcb[q].pila)
    OBVIOUS
  <2>3. ConSuValor(contenido, q, v) /\ EnOrden(v) /\ guion \in Guiones
    BY <1>1, <2>2 DEF ValoresEnMemoria, Pilas, PilaBien
  <2>4. EscribeBien(p) /\ estado[p] = "ejecuta"
    BY PrimitivaEscribe
  <2>5. CASE UNCHANGED <<memoria, sucias>>
    BY <2>1, <2>2, <2>3, <2>5 DEF memoria
  <2>6. ASSUME NEW d, NEW y, DondeEscribe(d), EscribirVariable(p, d, y)
        PROVE  ConSuValor(contenido', q, v)
    <3>1. EscribioValor(contenido, contenido', p, d, y) /\ d.off \in Nat
      BY <2>3, <2>4, <2>6, EscribioLaVariable DEF DondeEscribe
    <3> QED BY <1>4, <2>3, <3>1, ValoresQuedan
  <2> QED BY <2>1, <2>2, <2>4, <2>5, <2>6 DEF EscribeBien
<1> QED BY <1>3, <1>4

\* PAGINA: the pages of the text have no variables.
LEMMA ValoresEnvia ==
  ASSUME InvPilas, PaginasEnSuMarco, TextoCargado, CopiasFieles, ValoresEnMemoria,
         NEW p \in Pids, EnviaPagina(p), NEW q \in Pids
  PROVE  ConSuValor(contenido', q, VivasDe(pcb'[q].pila))
<1> DEFINE k == lectura[p].pag
           celdas == TextoDePagina(k)
           v == VivasDe(pcb[q].pila)
<1>1. PICK U : Pilas(U)
  BY DEF InvPilas
<1>2. guion \in Guiones /\ estado \in [Pids -> Estados] /\ EnOrden(v) /\ ConSuValor(contenido, q, v)
  BY <1>1 DEF Pilas, PilaBien, ValoresEnMemoria
<1>3. Escribio(contenido, contenido', UltimaDelStack, p, k, 0, celdas)
  BY <1>2, CopiasEnvia
<1>4. k \in 1 .. CantidadDePaginas /\ UNCHANGED pcb
  BY DEF EnviaPagina, TextoCargado
<1> HIDE DEF k, celdas, v
<1>5. ASSUME NEW i \in DOMAIN v PROVE TieneValor(contenido', q, v[i])
  <2>1. PICK d : d = v[i].dir
    OBVIOUS
  <2>2. EnPagina(d)
    BY <1>2, <2>1 DEF EnOrden
  <2>3. /\ d.pag \in 0 .. UltimaDelStack /\ d.off \in Nat /\ d.off + VARIABLE_SIZE <= MARCOS_SIZE
        /\ d.pag \in CantidadDePaginas + 1 .. UltimaDelStack
    BY <1>2, <2>2, EscribeEnPagina DEF DondeEscribe, EnPagina
  <2>4. VARIABLE_SIZE \in Nat /\ MARCOS_SIZE \in Nat /\ CantidadDePaginas \in Nat
    BY <1>2, EjecucionAssumption, MarcosAssumption, PaginasDelGuion
  <2>5. d.pag # k
    BY <1>4, <2>3, <2>4
  <2>6. ASSUME NEW c \in 0 .. VARIABLE_SIZE - 1 PROVE En(contenido', q, d.pag, d.off + c) = v[i].valor
    <3>1. d.off + c \in 0 .. MARCOS_SIZE - 1
      BY <2>3, <2>4
    <3>2. En(contenido', q, d.pag, d.off + c) = En(contenido, q, d.pag, d.off + c)
      BY <1>3, <2>3, <2>5, <3>1 DEF Escribio
    <3> QED BY <1>2, <2>1, <3>2 DEF ConSuValor, TieneValor
  <2> QED BY <2>1, <2>6 DEF TieneValor
<1> QED BY <1>4, <1>5 DEF ConSuValor, v

\* Memoria has what the programs assigned last, after any step.
LEMMA PasoValores ==
  ASSUME InvTexto, ValoresEnMemoria, [NextEjecucion]_vars
  PROVE  ValoresEnMemoria'
<1>1. InvPilas /\ Retornos /\ PaginasEnSuMarco /\ TextoCargado /\ CopiasFieles /\ LecturaBien
      /\ DOMAIN pcb = Pids /\ \A q \in Pids : EsPcb(pcb[q])
  BY DEF InvTexto, InvPilas, Pilas
<1> SUFFICES ASSUME NEW q \in Pids PROVE ConSuValor(contenido', q, VivasDe(pcb'[q].pila))
  BY DEF ValoresEnMemoria
<1>2. ASSUME contenido' = contenido, pcb'[q].pila = pcb[q].pila
      PROVE  ConSuValor(contenido', q, VivasDe(pcb'[q].pila))
  BY <1>2 DEF ValoresEnMemoria
<1>3. ASSUME NEW p \in Pids, Primitivas(p) PROVE ConSuValor(contenido', q, VivasDe(pcb'[q].pila))
  BY <1>1, <1>3, ValoresPrimitiva
<1>4. ASSUME NEW p \in Pids, EnviaPagina(p) PROVE ConSuValor(contenido', q, VivasDe(pcb'[q].pila))
  BY <1>1, <1>4, ValoresEnvia
<1>5. ASSUME NEW p \in Pids, \/ Inicializa(p) \/ LeerSentencia(p) \/ UsaSinDefinir(p) \/ OtroTexto(p)
                             \/ LiberaElKernel(p)
      PROVE  UNCHANGED <<contenido, pcb>>
  BY <1>5 DEF Inicializa, InicializarPrograma, LeerSentencia, UsaSinDefinir, OtroTexto, LiberaElKernel,
              LiberarPaginas, Cae, memoria
<1>6. ASSUME NEW p \in Pids, FinDeQuantum(p) PROVE contenido' = contenido /\ pcb'[q].pila = pcb[q].pila
  <2>1. contenido' = contenido /\ pcb' = [pcb EXCEPT ![p].liberados = FALSE]
    BY <1>6 DEF FinDeQuantum, memoria
  <2> QED BY <1>1, <2>1 DEF EsPcb
<1>7. VaciaCache \/ VaciaEnLectura \/ UNCHANGED vars => UNCHANGED <<contenido, pcb>>
  BY DEF VaciaCache, VaciaEnLectura, vars, memoria
<1> QED BY <1>2, <1>3, <1>4, <1>5, <1>6, <1>7 DEF NextEjecucion

\* Who does not have its pages has nothing in its stack, after any step.
LEMMA PasoVacias ==
  ASSUME InvTexto, SinPila, [NextEjecucion]_vars
  PROVE  SinPila'
<1> DEFINE E == {"busca", "ejecuta", "caida"}
<1>1. InvPilas /\ Retornos /\ LecturaBien
      /\ DOMAIN pcb = Pids /\ DOMAIN estado = Pids /\ \A q \in Pids : EsPcb(pcb[q])
  BY DEF InvTexto, InvPilas, Pilas
<1> SUFFICES ASSUME NEW q \in Pids, estado'[q] \notin E PROVE VivasDe(pcb'[q].pila) = <<>>
  BY DEF SinPila
<1>2. ASSUME pcb'[q].pila = pcb[q].pila, estado[q] \notin E PROVE VivasDe(pcb'[q].pila) = <<>>
  BY <1>2 DEF SinPila
<1>3. ASSUME NEW p \in Pids, Cae(p) PROVE pcb'[q].pila = pcb[q].pila /\ estado[q] \notin E
  BY <1>1, <1>3 DEF Cae
<1>4. ASSUME NEW p \in Pids, Primitivas(p) PROVE VivasDe(pcb'[q].pila) = <<>>
  <2>1. SentenciaBien(p) /\ estado[p] = "ejecuta"
    BY <1>1, <1>4, PrimitivaSigue
  <2>2. CASE Cae(p)
    BY <1>2, <1>3, <2>2
  <2>3. ASSUME NEW e, Deja(p, e) PROVE VivasDe(pcb'[q].pila) = <<>>
    <3>1. pcb' = [pcb EXCEPT ![p].pila = <<>>] /\ estado' = [estado EXCEPT ![p] = e]
      BY <2>3 DEF Deja
    <3>2. CASE q = p
      <4>1. pcb'[q].pila = <<>>
        BY <1>1, <3>1, <3>2 DEF EsPcb
      <4> QED BY <4>1, ValoresDeNada
    <3>3. CASE q # p
      BY <1>1, <1>2, <3>1, <3>3
    <3> QED BY <3>2, <3>3
  <2>4. ASSUME NEW x, SigueBien(p, x) PROVE VivasDe(pcb'[q].pila) = <<>>
    <3>1. \E e \in E : estado' = [estado EXCEPT ![p] = e]
      BY <2>4 DEF SigueBien, Sigue
    <3>2. q # p /\ estado[q] \notin E
      BY <1>1, <3>1
    <3> QED BY <1>1, <1>2, <1>4, <3>2, OtraPila
  <2>5. CASE UNCHANGED <<guion, estado, pcb, lectura>>
    BY <1>2, <2>5
  <2> QED BY <2>1, <2>2, <2>3, <2>4, <2>5 DEF SentenciaBien
<1>5. ASSUME NEW p \in Pids, \/ Inicializa(p) \/ EnviaPagina(p) \/ LeerSentencia(p) \/ LiberaElKernel(p)
      PROVE  pcb'[q].pila = pcb[q].pila /\ estado[q] \notin E
  <2>1. /\ UNCHANGED pcb
        /\ \/ estado[p] \notin E /\ (UNCHANGED estado \/ \E e : estado' = [estado EXCEPT ![p] = e])
           \/ UNCHANGED estado \/ estado' = [estado EXCEPT ![p] = "ejecuta"]
    BY <1>5 DEF Inicializa, EnviaPagina, LeerSentencia, LiberaElKernel
  <2> QED BY <1>1, <2>1
<1>6. ASSUME NEW p \in Pids, UsaSinDefinir(p) \/ OtroTexto(p)
      PROVE  pcb'[q].pila = pcb[q].pila /\ estado[q] \notin E
  BY <1>3, <1>6 DEF UsaSinDefinir, OtroTexto
<1>7. ASSUME NEW p \in Pids, FinDeQuantum(p) PROVE pcb'[q].pila = pcb[q].pila /\ estado[q] \notin E
  <2>1. estado' = estado /\ pcb' = [pcb EXCEPT ![p].liberados = FALSE]
    BY <1>7 DEF FinDeQuantum
  <2> QED BY <1>1, <2>1 DEF EsPcb
<1>8. VaciaCache \/ VaciaEnLectura \/ UNCHANGED vars => UNCHANGED <<estado, pcb>>
  BY DEF VaciaCache, VaciaEnLectura, vars
<1> QED BY <1>2, <1>4, <1>5, <1>6, <1>7, <1>8 DEF NextEjecucion

\* At the beginning nothing is alive.
LEMMA InicioValores == InitEjecucion => ValoresEnMemoria /\ SinPila
<1> SUFFICES ASSUME InitEjecucion PROVE \A p \in Pids : VivasDe(pcb[p].pila) = <<>>
  <2>1. DOMAIN <<>> = {}
    OBVIOUS
  <2> QED BY <2>1 DEF ValoresEnMemoria, SinPila, ConSuValor
<1> SUFFICES ASSUME NEW p \in Pids PROVE VivasDe(pcb[p].pila) = <<>>
  OBVIOUS
<1>1. PICK c : c = Contexto(0, NULO, "")
  OBVIOUS
<1>2. pcb[p].pila = <<c>>
  BY <1>1 DEF InitEjecucion, PcbInicial
<1>3. PICK U : U = {0, NULO, ""}
  OBVIOUS
<1>4. c \in Contextos(U) /\ c.vars = <<>> /\ c.args = <<>>
  <2>1. /\ c = [retPos |-> 0, retVar |-> NULO, destino |-> "", vars |-> <<>>, args |-> <<>>]
    BY <1>1 DEF Contexto
  <2>2. <<>> \in Seq(Vars(U)) /\ <<>> \in Seq(Args(U))
    OBVIOUS
  <2>3. 0 \in U /\ NULO \in U /\ "" \in U
    BY <1>3
  <2> HIDE DEF NULO
  <2> QED BY <2>1, <2>2, <2>3 DEF Contextos
<1>5. <<c>> \in Seq(Contextos(U)) /\ \A i \in DOMAIN <<c>> : <<c>>[i] = c
  BY <1>4
<1>6. VivasDe(<<c>>) = <<>>
  BY <1>4, <1>5, VivasVacias
<1> QED BY <1>2, <1>6
-----------------------------------------------------------------------------
\* What dereferenciar reads is what Memoria has, unless the copy is of before a write.
LEMMA LeeCelda ==
  ASSUME guion \in Guiones, PaginasEnSuMarco, CopiasFieles, NEW p \in Pids,
         NEW k \in 0 .. UltimaDelStack, EnMemoria(estado[p], k), NEW o \in Nat,
         NEW n \in Nat \ {0}, o + n <= MARCOS_SIZE
  PROVE  Head(LeerDeMemoria(Pagina(p, k), o, n)) = En(contenido, p, k, o) \/ Pagina(p, k) \in sucias
<1> DEFINE nodo == Pagina(p, k)
           b == BuscarNodoCache(nodo)
           c == Copia(contenido, p, k)
           r == LeerDeMemoria(nodo, o, n)
<1>0. UltimaDelStack \in Nat /\ MARCOS_SIZE \in Nat \ {0} /\ k \in Nat
  BY PaginasDelGuion, MarcosAssumption
<1>1. 1 \in 1 .. n /\ o + 1 \in 1 .. MARCOS_SIZE /\ o + 1 - 1 = o /\ (o + 1) - 1 = o
  BY <1>0
<1>2. CASE b = 0
  <2>1. r = LeerDePagina(nodo, o, n)
    BY <1>2 DEF LeerDeMemoria
  <2>2. r = [i \in 1 .. n |-> En(contenido, p, k, o + i - 1)]
    <3> HIDE DEF r
    <3> QED BY <2>1, LeeDePagina
  <2>3. Head(r) = En(contenido, p, k, o)
    <3>1. Head(r) = r[1]
      <4> DEFINE S == {En(contenido, p, k, o + i - 1) : i \in 1 .. n}
      <4>1. r \in [1 .. n -> S]
        BY <2>2
      <4> HIDE DEF r, S
      <4>2. r \in Seq(S) /\ Len(r) = n
        BY <4>1, FuncionLista
      <4> QED BY <4>2
    <3>2. r[1] = En(contenido, p, k, o)
      BY <1>1, <2>2
    <3> QED BY <3>1, <3>2
  <2> QED BY <2>3
<1>3. ASSUME b # 0, nodo \notin sucias PROVE Head(r) = En(contenido, p, k, o)
  <2>0. CopiasDe(cache, contenido, sucias, Leidas)
    BY DEF CopiasFieles
  <2>1. b \in 1 .. Len(cache.nodos) /\ cache.nodos[b] = nodo
    BY <1>3, <2>0, EntradaDe DEF CopiasDe
  <2>2. nodo # Nada /\ nodo.pid = p /\ nodo.pagina = k
    BY <1>0, MarcoEs DEF Pagina
  <2>3. cache.copias[b] = c
    BY <1>3, <2>0, <2>1, <2>2 DEF CopiasDe, CopiaFiel
  <2>4. r = SubSeq(c, o + 1, o + n)
    BY <1>3, <2>3 DEF LeerDeMemoria
  <2> DEFINE S == {c[i] : i \in 1 .. MARCOS_SIZE}
  <2>5. \A i \in o + 1 .. o + n : c[i] \in S
    BY <1>0
  <2>6. c[o + 1] = En(contenido, p, k, o)
    BY <1>1 DEF Copia
  <2> HIDE DEF r, c, S
  <2>7. PICK x \in Int, y \in Int : x = o + 1 /\ y = o + n
    BY <1>0
  <2>8. /\ r \in Seq(S) /\ Len(r) = IF x <= y THEN y - x + 1 ELSE 0
        /\ \A i \in 1 .. y - x + 1 : r[i] = c[x + i - 1]
    <3>1. \A i \in x .. y : c[i] \in S
      BY <2>5, <2>7
    <3>2. r = SubSeq(c, x, y)
      BY <2>4, <2>7
    <3> QED BY <3>1, <3>2, SubSeqProperties
  <2>9. Len(r) = n /\ y - x + 1 = n /\ x + 1 - 1 = o + 1
    BY <2>7, <2>8
  <2>10. r[1] = c[o + 1] /\ Head(r) = r[1]
    BY <1>1, <2>8, <2>9
  <2> QED BY <2>6, <2>10
<1> QED BY <1>2, <1>3

\* Memoria has the value of what is alive, and that is what is read.
LEMMA ValoresLeidos == InvValores => LeeLoAsignado
<1> SUFFICES ASSUME InvValores, NEW p \in Pids, NEW i \in DOMAIN Vivas(p)
             PROVE  LET v == Vivas(p)[i]
                        nodo == Pagina(p, v.dir.pag)
                    IN  /\ \A c \in 0 .. VARIABLE_SIZE - 1 :
                             LeerDePagina(nodo, v.dir.off + c, 1) = <<v.valor>>
                        /\ Dereferenciar(p, v.dir) = v.valor \/ nodo \in sucias
  BY DEF LeeLoAsignado
<1>1. InvPilas /\ PaginasEnSuMarco /\ CopiasFieles /\ ValoresEnMemoria /\ SinPila
  BY DEF InvValores, InvTexto
<1>2. PICK U : Pilas(U)
  BY <1>1 DEF InvPilas
<1>3. PICK w : w = VivasDe(pcb[p].pila)
  OBVIOUS
<1>4. Vivas(p) = w
  BY <1>3 DEF Vivas, VivasDe, Pila
<1>5. guion \in Guiones /\ EnOrden(w) /\ ConSuValor(contenido, p, w)
  BY <1>1, <1>2, <1>3 DEF Pilas, PilaBien, ValoresEnMemoria
<1>6. i \in DOMAIN w
  BY <1>4
<1>7. estado[p] \in {"busca", "ejecuta", "caida"}
  <2>1. DOMAIN <<>> = {}
    OBVIOUS
  <2> QED BY <1>1, <1>3, <1>6, <2>1 DEF SinPila
<1>8. PICK k, o, y : k = w[i].dir.pag /\ o = w[i].dir.off /\ y = w[i].valor
  OBVIOUS
<1>9. /\ k \in 0 .. UltimaDelStack /\ o \in Nat /\ o + VARIABLE_SIZE <= MARCOS_SIZE
      /\ EnMemoria(estado[p], k)
  <2>1. EnPagina(w[i].dir)
    BY <1>5, <1>6 DEF EnOrden
  <2> QED BY <1>5, <1>7, <1>8, <2>1, EscribeEnPagina DEF DondeEscribe, EnMemoria
<1>10. \A c \in 0 .. VARIABLE_SIZE - 1 : En(contenido, p, k, o + c) = y
  BY <1>5, <1>6, <1>8 DEF ConSuValor, TieneValor
<1>11. VARIABLE_SIZE \in Nat \ {0}
  BY EjecucionAssumption
<1>12. ASSUME NEW c \in 0 .. VARIABLE_SIZE - 1 PROVE LeerDePagina(Pagina(p, k), o + c, 1) = <<y>>
  <2>1. o + c \in Nat
    BY <1>9, <1>11
  <2>2. LeerDePagina(Pagina(p, k), o + c, 1) = [j \in 1 .. 1 |-> En(contenido, p, k, (o + c) + j - 1)]
    BY <1>1, <1>5, <1>9, <2>1, LeeDePagina
  <2>3. \A j \in 1 .. 1 : (o + c) + j - 1 = o + c
    BY <2>1
  <2>4. [j \in 1 .. 1 |-> En(contenido, p, k, (o + c) + j - 1)] = [j \in 1 .. 1 |-> y]
    BY <1>10, <2>3
  <2>5. [j \in 1 .. 1 |-> y] = <<y>>
    OBVIOUS
  <2> QED BY <2>2, <2>4, <2>5
<1>13. Dereferenciar(p, w[i].dir) = y \/ Pagina(p, k) \in sucias
  <2>1. Head(LeerDeMemoria(Pagina(p, k), o, VARIABLE_SIZE)) = En(contenido, p, k, o) \/ Pagina(p, k) \in sucias
    BY <1>1, <1>5, <1>9, <1>11, LeeCelda
  <2>2. En(contenido, p, k, o) = y
    <3>1. 0 \in 0 .. VARIABLE_SIZE - 1 /\ o + 0 = o
      BY <1>9, <1>11
    <3> QED BY <1>10, <3>1
  <2> QED BY <1>8, <2>1, <2>2 DEF Dereferenciar
<1> QED BY <1>4, <1>8, <1>12, <1>13

\* After every step, Memoria has what the programs assigned last to what is alive in
\* their stacks (InvValores).
THEOREM ValoresSiempre == SpecEjecucion => []InvValores
<1>1. InitEjecucion => InvValores
  BY InicioTexto, InicioValores DEF InvValores
<1>2. InvValores /\ [NextEjecucion]_vars => InvValores'
  BY PasoInvTexto, PasoValores, PasoVacias DEF InvValores
<1> QED BY <1>1, <1>2, PTL DEF SpecEjecucion

\* In every execution what a CPU reads of a variable, or of an argument, is what its
\* program assigned to it last, unless its page was written after it was copied to the
\* cache (LeeLoAsignado).
THEOREM LeeLoAsignadoSiempre == SpecEjecucion => []LeeLoAsignado
BY ValoresSiempre, ValoresLeidos, PTL
=============================================================================
