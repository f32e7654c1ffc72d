---------------------------- MODULE ListasLemas -----------------------------
(* Induction on natural numbers, and what the operations of the commons     *)
(* lists and queues (queue_push, queue_pop, list_remove by index, the search *)
(* for the first match) do to a list and to the set of its elements.        *)
EXTENDS Integers, SequencesExt, SequenceTheorems, FiniteSetTheorems, TLAPS

\* A set of natural numbers that is not empty has a least element.
LEMMA MinimoNatural ==
  ASSUME NEW S, S \subseteq Nat, S # {}
  PROVE  \E m \in S : \A k \in S : m <= k
<1> DEFINE R == OpToRel(<, Nat)
<1>1. IsWellFoundedOn(R, Nat)
  BY NatLessThanWellFounded
<1>2. \A x, y \in Nat : <<y, x>> \in R <=> y < x
  BY DEF OpToRel
<1> HIDE DEF R
<1>3. PICK x \in S : \A y \in S : ~ (<<y, x>> \in R)
  BY <1>1, WFMin
<1>4. \A y \in S : ~(y < x)
  BY <1>2, <1>3
<1> QED BY <1>4

\* A set of natural numbers that is not empty has the Min that Min chooses.
LEMMA MinEs ==
  ASSUME NEW S, S \subseteq Nat, S # {}
  PROVE  Min(S) \in S /\ \A x \in S : Min(S) <= x
BY MinimoNatural DEF Min

\* Induction on the natural numbers, for a property given as the set of those
\* that have it.
LEMMA InduccionNat ==
  ASSUME NEW S, 0 \in S, \A n \in Nat : n \in S => n + 1 \in S
  PROVE  \A n \in Nat : n \in S
<1>1. SUFFICES ASSUME Nat \ S # {} PROVE FALSE
  OBVIOUS
<1>2. PICK m \in Nat \ S : \A k \in Nat \ S : m <= k
  <2>1. Nat \ S \subseteq Nat
    OBVIOUS
  <2> QED BY <1>1, <2>1, MinimoNatural
<1>3. m # 0 /\ m - 1 \in Nat /\ ~(m <= m - 1) /\ (m - 1) + 1 = m
  BY <1>2
<1>4. m - 1 \in S
  BY <1>2, <1>3
<1> QED BY <1>2, <1>3, <1>4

\* The functions on 0..n given by a value for 0 and a step g, in T.
EsPaso(T, n, g) == \A i \in 1..n, x \in T : g[<<i, x>>] \in T
Recursivas(T, n, b, g) ==
  {f \in [0..n -> T] : f[0] = b /\ \A i \in 1..n : f[i] = g[<<i, f[i - 1]>>]}

\* There is one.
LEMMA FuncionRecursiva ==
  ASSUME NEW T, NEW n \in Nat, NEW b \in T, NEW g, EsPaso(T, n, g)
  PROVE  \E f : f \in Recursivas(T, n, b, g)
<1>0. \A i \in 1..n, x \in T : g[<<i, x>>] \in T
  BY DEF EsPaso
<1> DEFINE Hasta(m, f) == f[0] = b /\ \A i \in 1..m : f[i] = g[<<i, f[i - 1]>>]
           S == {m \in Nat : m <= n => \E f \in [0..m -> T] : Hasta(m, f)}
<1>1. 0 \in S
  <2>1. [i \in 0..0 |-> b] \in [0..0 -> T] /\ Hasta(0, [i \in 0..0 |-> b])
    OBVIOUS
  <2> QED BY <2>1
<1>2. ASSUME NEW m \in Nat, m \in S PROVE m + 1 \in S
  <2> SUFFICES ASSUME m + 1 <= n PROVE \E f \in [0..m + 1 -> T] : Hasta(m + 1, f)
    OBVIOUS
  <2>1. m <= n /\ m + 1 \in 1..n
    OBVIOUS
  <2>2. PICK f \in [0..m -> T] : Hasta(m, f)
    BY <1>2, <2>1
  <2>3. f[m] \in T /\ g[<<m + 1, f[m]>>] \in T
    BY <2>1, <1>0
  <2> DEFINE h == [i \in 0..m + 1 |-> IF i = m + 1 THEN g[<<m + 1, f[m]>>] ELSE f[i]]
  <2>4. h \in [0..m + 1 -> T]
    <3> SUFFICES ASSUME NEW i \in 0..m + 1 PROVE h[i] \in T
      OBVIOUS
    <3>1. i = m + 1 \/ i \in 0..m
      OBVIOUS
    <3> QED BY <2>3, <3>1
  <2>5. h[0] = b
    BY <2>2
  <2>6. ASSUME NEW i \in 1..m + 1 PROVE h[i] = g[<<i, h[i - 1]>>]
    <3>1. CASE i = m + 1
      <4>1. i - 1 = m /\ h[m] = f[m] /\ h[i] = g[<<m + 1, f[m]>>]
        BY <3>1
      <4> QED BY <3>1, <4>1
    <3>2. CASE i # m + 1
      <4>1. i \in 1..m /\ i - 1 \in 0..m /\ i - 1 # m + 1
        BY <3>2
      <4>2. h[i] = f[i] /\ h[i - 1] = f[i - 1]
        BY <4>1, <3>2
      <4> QED BY <4>1, <4>2, <2>2
    <3> QED BY <3>1, <3>2
  <2> QED BY <2>4, <2>5, <2>6
<1> HIDE DEF S
<1>3. n \in S
  BY <1>1, <1>2, InduccionNat
<1>4. \E f \in [0..n -> T] : Hasta(n, f)
  BY <1>3 DEF S
<1> QED BY <1>4 DEF Recursivas

\* A finite set of natural numbers has an element with k others below it, for
\* every k less than its cardinality.
LEMMA EnesimoNatural ==
  ASSUME NEW S, S \subseteq Nat, IsFiniteSet(S)
  PROVE  \A k \in Nat : k < Cardinality(S) =>
           \E b \in S : Cardinality({a \in S : a < b}) = k
<1> DEFINE Bajo(b) == {a \in S : a < b}
           P == {k \in Nat : k < Cardinality(S) => \E b \in S : Cardinality(Bajo(b)) = k}
<1>0. Cardinality(S) \in Nat /\ \A T \in SUBSET S : IsFiniteSet(T) /\ Cardinality(T) \in Nat
  BY FS_CardinalityType, FS_Subset
<1>1. 0 \in P
  <2> SUFFICES ASSUME 0 < Cardinality(S) PROVE \E b \in S : Cardinality(Bajo(b)) = 0
    OBVIOUS
  <2>1. S # {}
    BY FS_EmptySet
  <2>2. PICK m \in S : \A k \in S : m <= k
    BY <2>1, MinimoNatural
  <2>3. Bajo(m) = {}
    <3>1. \A a \in S : ~(a < m)
      BY <2>2
    <3> QED BY <3>1
  <2> QED BY <2>3, FS_EmptySet
<1>2. ASSUME NEW k \in Nat, k \in P PROVE k + 1 \in P
  <2> SUFFICES ASSUME k + 1 < Cardinality(S)
               PROVE  \E b \in S : Cardinality(Bajo(b)) = k + 1
    OBVIOUS
  <2>1. PICK b \in S : Cardinality(Bajo(b)) = k
    BY <1>2, <1>0
  <2> DEFINE T == Bajo(b) \cup {b}
  <2>2. IsFiniteSet(T) /\ Cardinality(T) = k + 1
    <3>1. IsFiniteSet(Bajo(b)) /\ b \notin Bajo(b)
      BY <1>0
    <3> QED BY <3>1, <2>1, FS_AddElement
  <2>3. S \ T # {}
    <3>1. S # T
      BY <2>2, <1>0
    <3> QED BY <3>1
  <2>4. PICK m \in S \ T : \A a \in S \ T : m <= a
    <3>1. S \ T \subseteq Nat
      OBVIOUS
    <3> QED BY <2>3, <3>1, MinimoNatural
  <2>5. Bajo(m) = T
    <3>1. b < m
      BY <2>4
    <3>2. \A a \in S : a < m <=> a \in T
      BY <3>1, <2>4
    <3> QED BY <3>2
  <2> QED BY <2>2, <2>4, <2>5
<1> HIDE DEF P
<1>3. \A k \in Nat : k \in P
  BY <1>1, <1>2, InduccionNat
<1> QED BY <1>3 DEF P
-----------------------------------------------------------------------------
(* Lists.                                                                   *)

\* queue_push: the element is added; there is still no repetition if it was
\* not in the list.
LEMMA ListaAgrega ==
  ASSUME NEW S, NEW q \in Seq(S), NEW e \in S
  PROVE  /\ Append(q, e) \in Seq(S)
         /\ Append(q, e) # <<>>
         /\ Len(Append(q, e)) = Len(q) + 1
         /\ ToSet(Append(q, e)) = ToSet(q) \cup {e}
         /\ IsInjective(q) /\ e \notin ToSet(q) => IsInjective(Append(q, e))
<1> DEFINE r == Append(q, e)
<1>1. /\ r \in Seq(S) /\ r # <<>> /\ Len(r) = Len(q) + 1
      /\ \A i \in 1..Len(q) : r[i] = q[i]
      /\ r[Len(q) + 1] = e
  BY AppendProperties
<1>2. DOMAIN r = 1..Len(q) + 1 /\ DOMAIN q = 1..Len(q) /\ Len(q) \in Nat
  BY <1>1, LenProperties
<1> HIDE DEF r
<1>3. ToSet(r) = ToSet(q) \cup {e}
  <2>1. ASSUME NEW x \in ToSet(r) PROVE x \in ToSet(q) \cup {e}
    <3>1. PICK i \in 1..Len(q) + 1 : x = r[i]
      BY <1>2 DEF ToSet
    <3>2. CASE i = Len(q) + 1
      BY <3>1, <3>2, <1>1
    <3>3. CASE i # Len(q) + 1
      <4>1. i \in 1..Len(q)
        BY <3>3, <1>2
      <4> QED BY <4>1, <3>1, <1>1, <1>2 DEF ToSet
    <3> QED BY <3>2, <3>3
  <2>2. ASSUME NEW x \in ToSet(q) PROVE x \in ToSet(r)
    <3>1. PICK i \in 1..Len(q) : x = q[i]
      BY <1>2 DEF ToSet
    <3>2. i \in 1..Len(q) + 1 /\ x = r[i]
      BY <3>1, <1>1, <1>2
    <3> QED BY <3>2, <1>2 DEF ToSet
  <2>3. e \in ToSet(r)
    <3>1. Len(q) + 1 \in 1..Len(q) + 1
      BY <1>2
    <3> QED BY <3>1, <1>1, <1>2 DEF ToSet
  <2> QED BY <2>1, <2>2, <2>3
<1>4. IsInjective(q) /\ e \notin ToSet(q) => IsInjective(r)
  <2> SUFFICES ASSUME IsInjective(q), e \notin ToSet(q),
                      NEW i \in 1..Len(q) + 1, NEW j \in 1..Len(q) + 1, r[i] = r[j]
               PROVE  i = j
    BY <1>2 DEF IsInjective
  <2>1. \A k \in 1..Len(q) : r[k] = q[k] /\ q[k] # e
    BY <1>1, <1>2 DEF ToSet
  <2>2. \A k, l \in 1..Len(q) : q[k] = q[l] => k = l
    BY <1>2 DEF IsInjective
  <2>3. \A k \in 1..Len(q) + 1 : k \in 1..Len(q) \/ k = Len(q) + 1
    BY <1>2
  <2> QED BY <2>1, <2>2, <2>3, <1>1
<1> QED BY <1>1, <1>3, <1>4 DEF r

\* queue_pop of a list that is not empty: its head leaves it.
LEMMA ListaSaca ==
  ASSUME NEW S, NEW q \in Seq(S), q # <<>>
  PROVE  /\ Head(q) \in S /\ Head(q) \in ToSet(q) /\ Head(q) = q[1]
         /\ Tail(q) \in Seq(S)
         /\ Len(q) >= 1 /\ Len(Tail(q)) = Len(q) - 1
         /\ \A i \in 1..Len(q) - 1 : Tail(q)[i] = q[i + 1]
         /\ IsInjective(q) => /\ ToSet(Tail(q)) = ToSet(q) \ {Head(q)}
                              /\ IsInjective(Tail(q))
<1> DEFINE r == Tail(q)
<1>1. /\ Head(q) \in S /\ r \in Seq(S) /\ Len(r) = Len(q) - 1
      /\ \A i \in 1..Len(r) : r[i] = q[i + 1]
  BY HeadTailProperties
<1>2. /\ DOMAIN q = 1..Len(q) /\ Len(q) \in Nat /\ Len(q) >= 1 /\ Head(q) = q[1]
      /\ DOMAIN r = 1..Len(q) - 1
  <2>1. Len(q) \in Nat /\ DOMAIN q = 1..Len(q) /\ DOMAIN r = 1..Len(r)
    BY <1>1, LenProperties
  <2>2. Len(q) # 0
    BY EmptySeq
  <2>3. Head(q) = q[1]
    OBVIOUS
  <2> QED BY <2>1, <2>2, <2>3, <1>1
<1> HIDE DEF r
<1>3. Head(q) \in ToSet(q)
  <2>1. 1 \in 1..Len(q)
    BY <1>2
  <2> QED BY <2>1, <1>2 DEF ToSet
<1>4. ASSUME IsInjective(q) PROVE ToSet(r) = ToSet(q) \ {Head(q)} /\ IsInjective(r)
  <2>0. \A i, j \in 1..Len(q) : q[i] = q[j] => i = j
    BY <1>4, <1>2 DEF IsInjective
  <2>1. \A i \in 1..Len(q) - 1 : i + 1 \in 1..Len(q) /\ r[i] = q[i + 1] /\ i + 1 # 1
    BY <1>1, <1>2
  <2>2. \A i \in 1..Len(q) : i # 1 => i - 1 \in 1..Len(q) - 1 /\ q[i] = r[i - 1]
    <3> TAKE i \in 1..Len(q)
    <3> HAVE i # 1
    <3>1. i - 1 \in 1..Len(q) - 1 /\ (i - 1) + 1 = i
      BY <1>2
    <3> QED BY <3>1, <1>1
  <2>3. 1 \in 1..Len(q)
    BY <1>2
  <2>4. ASSUME NEW x \in ToSet(r) PROVE x \in ToSet(q) \ {Head(q)}
    <3>1. PICK i \in 1..Len(q) - 1 : x = r[i]
      BY <1>2 DEF ToSet
    <3>2. x = q[i + 1] /\ i + 1 \in 1..Len(q) /\ i + 1 # 1
      BY <3>1, <2>1
    <3>3. x # q[1]
      BY <3>2, <2>0, <2>3
    <3> QED BY <3>2, <3>3, <1>2 DEF ToSet
  <2>5. ASSUME NEW x \in ToSet(q), x # Head(q) PROVE x \in ToSet(r)
    <3>1. PICK i \in 1..Len(q) : x = q[i]
      BY <1>2 DEF ToSet
    <3>2. i # 1
      BY <3>1, <2>5, <1>2
    <3> QED BY <3>1, <3>2, <2>2, <1>2 DEF ToSet
  <2>6. IsInjective(r)
    <3> SUFFICES ASSUME NEW i \in 1..Len(q) - 1, NEW j \in 1..Len(q) - 1, r[i] = r[j]
                 PROVE  i = j
      BY <1>2 DEF IsInjective
    <3>1. i + 1 = j + 1
      BY <2>0, <2>1
    <3> QED BY <3>1
  <2> QED BY <2>4, <2>5, <2>6
<1> QED BY <1>1, <1>2, <1>3, <1>4 DEF r

\* What is left after a queue_pop was in the list.
LEMMA RestoEnLista ==
  ASSUME NEW S, NEW q \in Seq(S), q # <<>>
  PROVE  ToSet(Tail(q)) \subseteq ToSet(q)
<1> DEFINE r == Tail(q)
           n == Len(q) - 1
<1>1. /\ DOMAIN q = 1..Len(q) /\ Len(q) \in Nat /\ DOMAIN r = 1..n
      /\ \A i \in 1..n : r[i] = q[i + 1] /\ i + 1 \in 1..Len(q)
  <2>1. Len(q) \in Nat /\ DOMAIN q = 1..Len(q) /\ r \in Seq(S) /\ Len(r) = n
        /\ \A i \in 1..n : r[i] = q[i + 1]
    BY ListaSaca, LenProperties
  <2>2. \A k \in Nat : \A i \in 1..k - 1 : i + 1 \in 1..k
    OBVIOUS
  <2>3. DOMAIN r = 1..Len(r)
    BY <2>1, LenProperties
  <2> HIDE DEF r
  <2> QED BY <2>1, <2>2, <2>3
<1> HIDE DEF r, n
<1>2. ASSUME NEW x \in ToSet(r) PROVE x \in ToSet(q)
  <2>1. PICK i \in 1..n : x = r[i]
    BY <1>1, <1>2 DEF ToSet
  <2> QED BY <2>1, <1>1 DEF ToSet
<1> QED BY <1>2 DEF r

\* A list of one element.
LEMMA ListaDeUno ==
  ASSUME NEW S, NEW x \in S
  PROVE  /\ <<x>> \in Seq(S) /\ Len(<<x>>) = 1 /\ ToSet(<<x>>) = {x}
         /\ IsInjective(<<x>>)
<1>1. <<x>> \in Seq(S) /\ Len(<<x>>) = 1 /\ DOMAIN <<x>> = 1..1 /\ <<x>>[1] = x
  OBVIOUS
<1>2. ToSet(<<x>>) = {x}
  BY <1>1 DEF ToSet
<1>3. IsInjective(<<x>>)
  BY <1>1 DEF IsInjective
<1> QED BY <1>1, <1>2, <1>3

\* What two lists without repetitions and with nothing in common make together.
LEMMA ListasJuntas ==
  ASSUME NEW S, NEW p \in Seq(S), NEW q \in Seq(S)
  PROVE  /\ p \o q \in Seq(S) /\ Len(p \o q) = Len(p) + Len(q)
         /\ ToSet(p \o q) = ToSet(p) \cup ToSet(q)
         /\ IsInjective(p) /\ IsInjective(q) /\ ToSet(p) \cap ToSet(q) = {}
              => IsInjective(p \o q)
<1> DEFINE r == p \o q
           m == Len(p)
           n == Len(q)
<1>1. /\ r \in Seq(S) /\ Len(r) = m + n
      /\ \A i \in 1..m + n : r[i] = IF i <= m THEN p[i] ELSE q[i - m]
  BY ConcatProperties
<1>2. /\ m \in Nat /\ n \in Nat /\ DOMAIN p = 1..m /\ DOMAIN q = 1..n
      /\ DOMAIN r = 1..m + n
  BY <1>1, LenProperties
<1> HIDE DEF r, m, n
<1>3. /\ \A i \in 1..m : i \in 1..m + n /\ r[i] = p[i]
      /\ \A i \in 1..n : m + i \in 1..m + n /\ r[m + i] = q[i]
  <2>1. ASSUME NEW i \in 1..m PROVE i \in 1..m + n /\ i <= m
    BY <1>2
  <2>2. ASSUME NEW i \in 1..n PROVE m + i \in 1..m + n /\ ~(m + i <= m) /\ (m + i) - m = i
    BY <1>2
  <2> QED BY <1>1, <2>1, <2>2
<1>4. \A i \in 1..m + n : i \in 1..m \/ \E j \in 1..n : i = m + j
  <2>1. ASSUME NEW i \in 1..m + n, i \notin 1..m PROVE i - m \in 1..n /\ i = m + (i - m)
    BY <2>1, <1>2
  <2> QED BY <2>1
<1>5. ToSet(r) = ToSet(p) \cup ToSet(q)
  <2>1. ASSUME NEW x \in ToSet(r) PROVE x \in ToSet(p) \cup ToSet(q)
    <3>1. PICK i \in 1..m + n : x = r[i]
      BY <1>2 DEF ToSet
    <3>2. CASE i \in 1..m
      BY <3>1, <3>2, <1>2, <1>3 DEF ToSet
    <3>3. CASE i \notin 1..m
      <4>1. PICK j \in 1..n : i = m + j
        BY <3>3, <1>4
      <4> QED BY <4>1, <3>1, <1>2, <1>3 DEF ToSet
    <3> QED BY <3>2, <3>3
  <2>2. ASSUME NEW x \in ToSet(p) PROVE x \in ToSet(r)
    <3>1. PICK i \in 1..m : x = p[i]
      BY <1>2 DEF ToSet
    <3>2. i \in 1..m + n /\ x = r[i]
      BY <3>1, <1>3
    <3> QED BY <3>2, <1>2 DEF ToSet
  <2>3. ASSUME NEW x \in ToSet(q) PROVE x \in ToSet(r)
    <3>1. PICK i \in 1..n : x = q[i]
      BY <1>2 DEF ToSet
    <3>2. m + i \in 1..m + n /\ x = r[m + i]
      BY <3>1, <1>3
    <3> QED BY <3>2, <1>2 DEF ToSet
  <2> QED BY <2>1, <2>2, <2>3
<1>6. ASSUME IsInjective(p), IsInjective(q), ToSet(p) \cap ToSet(q) = {}
      PROVE  IsInjective(r)
  <2>1. /\ \A i, j \in 1..m : p[i] = p[j] => i = j
        /\ \A i, j \in 1..n : q[i] = q[j] => i = j
    BY <1>2, <1>6 DEF IsInjective
  <2>2. ASSUME NEW i \in 1..m, NEW j \in 1..n PROVE p[i] # q[j]
    <3>1. p[i] \in ToSet(p) /\ q[j] \in ToSet(q)
      BY <1>2 DEF ToSet
    <3> QED BY <3>1, <1>6
  <2> SUFFICES ASSUME NEW i \in 1..m + n, NEW j \in 1..m + n, r[i] = r[j]
               PROVE  i = j
    BY <1>2 DEF IsInjective
  <2> QED BY <2>1, <2>2, <1>3, <1>4
<1> QED BY <1>1, <1>5, <1>6 DEF r, m, n

\* What is where after list_remove(lista, i).
LEMMA QuitaIndices ==
  ASSUME NEW S, NEW q \in Seq(S), NEW i \in 1..Len(q)
  PROVE  /\ RemoveAt(q, i) \in Seq(S)
         /\ Len(RemoveAt(q, i)) = Len(q) - 1 /\ DOMAIN RemoveAt(q, i) = 1..Len(q) - 1
         /\ \A k \in 1..Len(q) - 1 :
              RemoveAt(q, i)[k] = IF k < i THEN q[k] ELSE q[k + 1]
         /\ Len(q) \in Nat /\ DOMAIN q = 1..Len(q) /\ i \in Int /\ 1 <= i /\ i <= Len(q)
         /\ \A k \in 1..Len(q) : q[k] \in S
<1> DEFINE a == SubSeq(q, 1, i - 1)
           b == SubSeq(q, i + 1, Len(q))
           r == a \o b
           n == Len(q)
<1>0. /\ DOMAIN q = 1..n /\ n \in Nat /\ i \in Int /\ 1 <= i /\ i <= n
      /\ \A k \in 1..n : q[k] \in S
  <2>1. DOMAIN q = 1..n /\ n \in Nat /\ \A k \in 1..n : q[k] \in S
    BY LenProperties, ElementOfSeq
  <2>2. i \in Int /\ 1 <= i /\ i <= n
    BY <2>1
  <2> QED BY <2>1, <2>2
<1>1. /\ a \in Seq(S) /\ Len(a) = i - 1
      /\ \A k \in 1..i - 1 : a[k] = q[k]
  <2>1. \A k \in 1..i - 1 : q[k] \in S
    BY <1>0
  <2>2. /\ a \in Seq(S) /\ Len(a) = IF 1 <= i - 1 THEN (i - 1) - 1 + 1 ELSE 0
        /\ \A k \in 1..(i - 1) - 1 + 1 : a[k] = q[1 + k - 1]
    BY <2>1, <1>0, SubSeqProperties
  <2> QED BY <2>2, <1>0
<1>2. /\ b \in Seq(S) /\ Len(b) = n - i
      /\ \A k \in 1..n - i : b[k] = q[i + k]
  <2>1. \A k \in i + 1..n : q[k] \in S
    BY <1>0
  <2>2. /\ b \in Seq(S) /\ Len(b) = IF i + 1 <= n THEN n - (i + 1) + 1 ELSE 0
        /\ \A k \in 1..n - (i + 1) + 1 : b[k] = q[(i + 1) + k - 1]
    BY <2>1, <1>0, SubSeqProperties
  <2>3. n - (i + 1) + 1 = n - i /\ n - i \in Nat
    BY <1>0
  <2>4. ASSUME NEW k \in 1..n - i PROVE b[k] = q[i + k]
    <3>1. (i + 1) + k - 1 = i + k
      BY <1>0
    <3>2. b[k] = q[(i + 1) + k - 1]
      BY <2>2, <2>3
    <3> QED BY <3>1, <3>2
  <2>5. Len(b) = n - i
    <3>1. CASE i + 1 <= n
      BY <3>1, <2>2, <2>3
    <3>2. CASE ~(i + 1 <= n)
      <4>1. n = i
        <5>1. ASSUME NEW m \in Nat, NEW j \in Int, j <= m, ~(j + 1 <= m) PROVE m = j
          BY <5>1
        <5> QED BY <5>1, <3>2, <1>0
      <4> QED BY <4>1, <3>2, <2>2, <1>0
    <3> QED BY <3>1, <3>2
  <2> QED BY <2>2, <2>4, <2>5
<1> HIDE DEF a, b
<1>3. /\ r \in Seq(S) /\ Len(r) = n - 1
      /\ \A k \in 1..n - 1 : r[k] = IF k < i THEN q[k] ELSE q[k + 1]
  <2>1. /\ r \in Seq(S) /\ Len(r) = (i - 1) + (n - i)
        /\ \A k \in 1..(i - 1) + (n - i) :
             r[k] = IF k <= i - 1 THEN a[k] ELSE b[k - (i - 1)]
    <3>1. a \in Seq(S) /\ b \in Seq(S)
      BY <1>1, <1>2
    <3>2. /\ a \o b \in Seq(S) /\ Len(a \o b) = Len(a) + Len(b)
          /\ \A k \in 1..Len(a) + Len(b) :
               (a \o b)[k] = IF k <= Len(a) THEN a[k] ELSE b[k - Len(a)]
      BY <3>1, ConcatProperties
    <3> QED BY <3>2, <1>1, <1>2
  <2>2. (i - 1) + (n - i) = n - 1
    BY <1>0
  <2>3. ASSUME NEW k \in 1..n - 1 PROVE r[k] = IF k < i THEN q[k] ELSE q[k + 1]
    <3>1. r[k] = IF k <= i - 1 THEN a[k] ELSE b[k - (i - 1)]
      BY <2>1, <2>2
    <3>2. CASE k < i
      <4>1. k <= i - 1 /\ k \in 1..i - 1
        BY <3>2, <1>0
      <4> QED BY <4>1, <3>1, <3>2, <1>1
    <3>3. CASE ~(k < i)
      <4>1. ~(k <= i - 1) /\ k - (i - 1) \in 1..n - i /\ i + (k - (i - 1)) = k + 1
        BY <3>3, <1>0
      <4>2. b[k - (i - 1)] = q[i + (k - (i - 1))]
        BY <4>1, <1>2
      <4> QED BY <4>1, <4>2, <3>1, <3>3
    <3> QED BY <3>2, <3>3
  <2> QED BY <2>1, <2>2, <2>3
<1> HIDE DEF r
<1>4. DOMAIN r = 1..n - 1
  BY <1>3, <1>0, LenProperties
<1>5. RemoveAt(q, i) = r
  BY DEF RemoveAt, r, a, b
<1> QED BY <1>0, <1>3, <1>4, <1>5

\* list_remove(lista, i): the element at i leaves the list.
LEMMA ListaQuita ==
  ASSUME NEW S, NEW q \in Seq(S), NEW i \in 1..Len(q), IsInjective(q)
  PROVE  /\ RemoveAt(q, i) \in Seq(S)
         /\ ToSet(RemoveAt(q, i)) = ToSet(q) \ {q[i]}
         /\ IsInjective(RemoveAt(q, i))
         /\ q[i] \in S /\ q[i] \in ToSet(q)
<1> DEFINE n == Len(q)
           r == RemoveAt(q, i)
<1>0. /\ DOMAIN q = 1..n /\ n \in Nat /\ i \in Int /\ 1 <= i /\ i <= n
      /\ \A k \in 1..n : q[k] \in S
  BY QuitaIndices
<1>3. /\ r \in Seq(S) /\ Len(r) = n - 1
      /\ \A k \in 1..n - 1 : r[k] = IF k < i THEN q[k] ELSE q[k + 1]
  BY QuitaIndices
<1>4. DOMAIN r = 1..n - 1
  BY QuitaIndices
<1> HIDE DEF r
<1>5. \A k, l \in 1..n : q[k] = q[l] => k = l
  BY <1>0 DEF IsInjective
<1>6. ToSet(r) = ToSet(q) \ {q[i]}
  <2>1. ASSUME NEW x \in ToSet(r) PROVE x \in ToSet(q) \ {q[i]}
    <3>1. PICK k \in 1..n - 1 : x = r[k]
      BY <1>4 DEF ToSet
    <3>2. PICK l \in 1..n : l # i /\ x = q[l]
      BY <3>1, <1>3, <1>0
    <3> QED BY <3>2, <1>5, <1>0 DEF ToSet
  <2>2. ASSUME NEW x \in ToSet(q), x # q[i] PROVE x \in ToSet(r)
    <3>1. PICK l \in 1..n : x = q[l]
      BY <1>0 DEF ToSet
    <3>2. CASE l < i
      <4>1. l \in 1..n - 1 /\ r[l] = q[l]
        BY <3>2, <1>3, <1>0
      <4> QED BY <4>1, <3>1, <1>4 DEF ToSet
    <3>3. CASE l > i
      <4>1. l - 1 \in 1..n - 1 /\ ~(l - 1 < i) /\ (l - 1) + 1 = l
        BY <3>3, <1>0
      <4>2. r[l - 1] = q[l]
        BY <4>1, <1>3
      <4> QED BY <4>1, <4>2, <3>1, <1>4 DEF ToSet
    <3>4. l # i
      BY <3>1, <2>2
    <3> QED BY <3>2, <3>3, <3>4, <1>0
  <2> QED BY <2>1, <2>2
<1>7. IsInjective(r)
  <2> SUFFICES ASSUME NEW k \in 1..n - 1, NEW l \in 1..n - 1, r[k] = r[l]
               PROVE  k = l
    BY <1>4 DEF IsInjective
  <2>1. /\ r[k] = IF k < i THEN q[k] ELSE q[k + 1]
        /\ r[l] = IF l < i THEN q[l] ELSE q[l + 1]
    BY <1>3
  <2>2. k \in 1..n /\ k + 1 \in 1..n /\ l \in 1..n /\ l + 1 \in 1..n
    BY <1>0
  <2>3. CASE k < i /\ l < i
    BY <2>1, <2>2, <2>3, <1>5
  <2>4. CASE k < i /\ ~(l < i)
    <3>1. k = l + 1
      BY <2>1, <2>2, <2>4, <1>5
    <3> QED BY <3>1, <2>4, <1>0
  <2>5. CASE ~(k < i) /\ l < i
    <3>1. k + 1 = l
      BY <2>1, <2>2, <2>5, <1>5
    <3> QED BY <3>1, <2>5, <1>0
  <2>6. CASE ~(k < i) /\ ~(l < i)
    <3>1. k + 1 = l + 1
      BY <2>1, <2>2, <2>6, <1>5
    <3> QED BY <3>1
  <2> QED BY <2>3, <2>4, <2>5, <2>6
<1>8. q[i] \in S /\ q[i] \in ToSet(q)
  BY <1>0 DEF ToSet
<1> QED BY <1>3, <1>6, <1>7, <1>8 DEF r

\* What is in a list, and at which places.
LEMMA EnLista ==
  ASSUME NEW S, NEW q \in Seq(S)
  PROVE  /\ Len(q) \in Nat /\ DOMAIN q = 1..Len(q)
         /\ \A i \in DOMAIN q : q[i] \in S /\ q[i] \in ToSet(q)
         /\ \A x \in ToSet(q) : x \in S /\ \E i \in DOMAIN q : q[i] = x
<1>1. Len(q) \in Nat /\ DOMAIN q = 1..Len(q)
  BY LenProperties
<1>2. \A i \in DOMAIN q : q[i] \in S /\ q[i] \in ToSet(q)
  BY <1>1, ElementOfSeq DEF ToSet
<1>3. \A x \in ToSet(q) : \E i \in DOMAIN q : q[i] = x
  BY DEF ToSet
<1> QED BY <1>1, <1>2, <1>3

\* A set of places of a list that is not empty has the Max that Max chooses.
LEMMA MaxEs ==
  ASSUME NEW n \in Nat, NEW S, S \subseteq 1..n, S # {}
  PROVE  Max(S) \in S
<1> DEFINE T == {n - x : x \in S}
<1>0. \A x \in S : x \in Int /\ n - x \in Nat
  OBVIOUS
<1>1. T \subseteq Nat /\ T # {}
  BY <1>0
<1>2. PICK m \in T : \A y \in T : m <= y
  BY <1>1, MinimoNatural
<1>3. PICK x \in S : m = n - x
  BY <1>2
<1>4. \A y \in S : x >= y
  <2> TAKE y \in S
  <2>1. n - x <= n - y /\ x \in Int /\ y \in Int
    <3>1. n - y \in T
      OBVIOUS
    <3> QED BY <3>1, <1>0, <1>2, <1>3
  <2> QED BY <2>1
<1> QED BY <1>4 DEF Max
-----------------------------------------------------------------------------
(* Lists of whatever they are of.                                           *)

\* A list, of whatever it is.
EsLista(q) == \E T : q \in Seq(T)

LEMMA ListaCrece ==
  ASSUME NEW q, EsLista(q), NEW x
  PROVE  /\ EsLista(Append(q, x)) /\ Len(q) \in Nat
         /\ Len(Append(q, x)) = Len(q) + 1 /\ ToSet(Append(q, x)) = ToSet(q) \cup {x}
<1>1. PICK T : q \in Seq(T)
  BY DEF EsLista
<1> DEFINE U == T \cup {x}
<1>2. q \in Seq(U) /\ x \in U
  BY <1>1
<1> HIDE DEF U
<1>3. Append(q, x) \in Seq(U) /\ Len(q) \in Nat
  BY <1>2, ListaAgrega, LenProperties
<1> QED BY <1>2, <1>3, ListaAgrega DEF EsLista

\* queue_pop.
LEMMA ListaMengua ==
  ASSUME NEW q, EsLista(q), q # <<>>
  PROVE  /\ EsLista(Tail(q)) /\ Len(q) \in Nat /\ Len(Tail(q)) = Len(q) - 1
         /\ Head(q) \in ToSet(q) /\ ToSet(Tail(q)) \subseteq ToSet(q)
         /\ \A x \in ToSet(q) : x = Head(q) \/ x \in ToSet(Tail(q))
<1>1. PICK T : q \in Seq(T)
  BY DEF EsLista
<1>2. /\ Tail(q) \in Seq(T) /\ Len(q) \in Nat /\ Len(Tail(q)) = Len(q) - 1
      /\ Head(q) \in ToSet(q) /\ ToSet(Tail(q)) \subseteq ToSet(q)
      /\ Head(q) = q[1]
      /\ \A i \in 1..Len(q) - 1 : Tail(q)[i] = q[i + 1]
  BY <1>1, ListaSaca, RestoEnLista, LenProperties
<1>3. DOMAIN q = 1..Len(q) /\ DOMAIN Tail(q) = 1..Len(q) - 1
  BY <1>1, <1>2, LenProperties
<1>4. ASSUME NEW x \in ToSet(q), x # Head(q) PROVE x \in ToSet(Tail(q))
  <2>1. PICK i \in 1..Len(q) : x = q[i]
    BY <1>3, <1>4 DEF ToSet
  <2> DEFINE n == Len(q)
             r == Tail(q)
             k == i - 1
  <2>2. n \in Nat /\ DOMAIN r = 1..n - 1 /\ \A j \in 1..n - 1 : r[j] = q[j + 1]
    BY <1>2, <1>3
  <2>3. i # 1 /\ i \in 1..n
    BY <1>2, <1>4, <2>1
  <2> HIDE DEF n, r
  <2>4. k \in 1..n - 1 /\ k + 1 = i
    BY <2>2, <2>3
  <2> HIDE DEF k
  <2>5. r[k] = x
    BY <2>1, <2>2, <2>4
  <2> QED BY <2>2, <2>4, <2>5 DEF ToSet, r
<1> QED BY <1>1, <1>2, <1>4 DEF EsLista

\* A list to which two messages are added.
LEMMA ListaCreceDos ==
  ASSUME NEW q, EsLista(q), NEW x, NEW y
  PROVE  EsLista(q \o <<x, y>>) /\ ToSet(q \o <<x, y>>) = ToSet(q) \cup {x, y}
<1>1. PICK T : q \in Seq(T)
  BY DEF EsLista
<1> DEFINE U == T \cup {x, y}
           r == <<x, y>>
<1>2. q \in Seq(U) /\ r \in Seq(U)
  BY <1>1
<1>3. ToSet(r) = {x, y}
  BY DEF ToSet
<1> HIDE DEF U, r
<1>4. q \o r \in Seq(U) /\ ToSet(q \o r) = ToSet(q) \cup ToSet(r)
  BY <1>2, ListasJuntas, ConcatProperties
<1> QED BY <1>3, <1>4 DEF EsLista, r

\* Taking one that is in a list off it.
LEMMA ListaSinUno ==
  ASSUME NEW q, EsLista(q), NEW x \in ToSet(q)
  PROVE  EsLista(RemoveFirst(q, x)) /\ Len(q) \in Nat /\ Len(RemoveFirst(q, x)) = Len(q) - 1
<1>1. PICK T : q \in Seq(T)
  BY DEF EsLista
<1>2. PICK k \in 1..Len(q) : q[k] = x
  BY <1>1, LenProperties DEF ToSet
<1> DEFINE Es(v) == v = x
           I == {i \in 1..Len(q) : q[i] = x}
           i0 == SelectInSeq(q, LAMBDA v : v = x)
<1>3. I # {} /\ I \subseteq Nat /\ I \subseteq 1..Len(q)
  <2>1. Len(q) \in Nat
    BY <1>1, LenProperties
  <2> QED BY <1>2, <2>1
<1>4. i0 = Min(I)
  BY <1>3 DEF SelectInSeq
<1>5. Min(I) \in I
  <2>1. PICK m \in I : \A y \in I : m <= y
    BY <1>3, MinimoNatural
  <2> QED BY <2>1 DEF Min
<1>6. i0 \in 1..Len(q)
  BY <1>3, <1>4, <1>5
<1>7. RemoveFirst(q, x) = RemoveAt(q, i0)
  BY <1>2 DEF RemoveFirst
<1> HIDE DEF i0
<1>8. RemoveAt(q, i0) \in Seq(T) /\ Len(RemoveAt(q, i0)) = Len(q) - 1 /\ Len(q) \in Nat
  BY <1>1, <1>6, QuitaIndices
<1> QED BY <1>7, <1>8 DEF EsLista
-----------------------------------------------------------------------------
(* Sums.                                                                    *)

\* What the folds of the community modules compute on the subsets of S: a sum.
Sumando(S, v, it) ==
  [s \in SUBSET S |->
     IF s = {} THEN 0
     ELSE v[CHOOSE x \in s : TRUE] + it[s \ {CHOOSE x \in s : TRUE}]]

EsSuma(S, v, it) == IsFiniteSet(S) /\ v \in [S -> Int] /\ it = Sumando(S, v, it)

\* There is one, for every finite set: it is built by as many steps as there
\* are terms.
LEMMA SumaExiste ==
  ASSUME NEW S, IsFiniteSet(S), NEW v \in [S -> Int]
  PROVE  \E it : EsSuma(S, v, it)
<1> DEFINE n == Cardinality(S)
           T == [SUBSET S -> Int]
           g == [x \in (1..n + 1) \X T |-> Sumando(S, v, x[2])]
           cero == [s \in SUBSET S |-> 0]
<1>1. n \in Nat /\ \A s \in SUBSET S : IsFiniteSet(s) /\ Cardinality(s) \in Nat
                                      /\ Cardinality(s) <= n
  BY FS_CardinalityType, FS_Subset
<1>2. ASSUME NEW s \in SUBSET S, s # {}
      PROVE  /\ (CHOOSE x \in s : TRUE) \in s
             /\ s \ {CHOOSE x \in s : TRUE} \in SUBSET S
  BY <1>2
<1>3. ASSUME NEW f \in T PROVE Sumando(S, v, f) \in T
  <2>1. ASSUME NEW s \in SUBSET S, s # {}
        PROVE  v[CHOOSE x \in s : TRUE] + f[s \ {CHOOSE x \in s : TRUE}] \in Int
    <3>1. v[CHOOSE x \in s : TRUE] \in Int
      BY <1>2, <2>1
    <3>2. f[s \ {CHOOSE x \in s : TRUE}] \in Int
      BY <1>2, <2>1
    <3> QED BY <3>1, <3>2
  <2> QED BY <2>1 DEF Sumando
<1>4. PICK F \in [0..n + 1 -> T] : /\ F[0] = cero
                                   /\ \A i \in 1..n + 1 : F[i] = Sumando(S, v, F[i - 1])
  <2>1. ASSUME NEW i \in 1..n + 1, NEW x \in T
        PROVE  g[<<i, x>>] = Sumando(S, v, x) /\ g[<<i, x>>] \in T
    <3>1. Sumando(S, v, x) \in T
      BY <1>3
    <3> HIDE DEF T
    <3>2. <<i, x>> \in (1..n + 1) \X T /\ <<i, x>>[2] = x
      OBVIOUS
    <3>3. g[<<i, x>>] = Sumando(S, v, x)
      BY <3>2
    <3> QED BY <3>1, <3>3
  <2>2. cero \in T /\ n + 1 \in Nat
    BY <1>1
  <2> DEFINE N == n + 1
  <2>a. N \in Nat /\ \A i \in 1..N, x \in T : g[<<i, x>>] \in T
    BY <2>1, <2>2
  <2> HIDE DEF g, cero, T, N
  <2>b. PICK h \in [0..N -> T] : h[0] = cero /\ \A i \in 1..N : h[i] = g[<<i, h[i - 1]>>]
    <3>1. EsPaso(T, N, g)
      BY <2>a DEF EsPaso
    <3>2. PICK h : h \in Recursivas(T, N, cero, g)
      BY <2>a, <2>2, <3>1, FuncionRecursiva
    <3> QED BY <3>2 DEF Recursivas
  <2>3. PICK F \in [0..n + 1 -> T] : /\ F[0] = cero
                                     /\ \A i \in 1..n + 1 : F[i] = g[<<i, F[i - 1]>>]
    BY <2>b DEF N
  <2>4. ASSUME NEW i \in 1..n + 1 PROVE F[i - 1] \in T
    <3>1. i - 1 \in 0..n + 1
      BY <1>1
    <3> QED BY <3>1
  <2>5. \A i \in 1..n + 1 : F[i] = Sumando(S, v, F[i - 1])
    BY <2>1, <2>3, <2>4
  <2> QED BY <2>3, <2>5
<1> DEFINE P == {m \in Nat : m <= n => \A s \in SUBSET S :
                    Cardinality(s) <= m => F[m + 1][s] = F[m][s]}
<1>5. 0 \in P
  <2> SUFFICES ASSUME NEW s \in SUBSET S, Cardinality(s) <= 0 PROVE F[1][s] = F[0][s]
    OBVIOUS
  <2>1. s = {}
    BY <1>1, FS_EmptySet
  <2>2. 1 \in 1..n + 1 /\ 1 - 1 = 0
    BY <1>1
  <2>3. F[1] = Sumando(S, v, F[0])
    BY <1>4, <2>2
  <2> QED BY <1>4, <2>1, <2>3 DEF Sumando
<1>6. ASSUME NEW m \in Nat, m \in P PROVE m + 1 \in P
  <2> SUFFICES ASSUME m + 1 <= n, NEW s \in SUBSET S, Cardinality(s) <= m + 1
               PROVE  F[m + 2][s] = F[m + 1][s]
    OBVIOUS
  <2>1. m + 1 \in 1..n + 1 /\ m + 2 \in 1..n + 1 /\ (m + 1) - 1 = m /\ (m + 2) - 1 = m + 1
    BY <1>1
  <2>2. F[m + 1] = Sumando(S, v, F[m]) /\ F[m + 2] = Sumando(S, v, F[m + 1])
    BY <1>4, <2>1
  <2>3. CASE s = {}
    BY <2>2, <2>3 DEF Sumando
  <2>4. CASE s # {}
    <3> DEFINE c == CHOOSE x \in s : TRUE
    <3>1. c \in s /\ s \ {c} \in SUBSET S
      BY <1>2, <2>4
    <3>2. /\ F[m + 1][s] = v[c] + F[m][s \ {c}]
          /\ F[m + 2][s] = v[c] + F[m + 1][s \ {c}]
      BY <2>2, <2>4 DEF Sumando
    <3> HIDE DEF c
    <3>3. Cardinality(s \ {c}) <= m
      <4>1. Cardinality(s \ {c}) = Cardinality(s) - 1 /\ Cardinality(s) \in Nat
        BY <1>1, <3>1, FS_RemoveElement
      <4> QED BY <4>1
    <3>4. m <= n
      BY <1>1
    <3>5. F[m + 1][s \ {c}] = F[m][s \ {c}]
      BY <1>6, <3>1, <3>3, <3>4
    <3> QED BY <3>2, <3>5
  <2> QED BY <2>3, <2>4
<1> HIDE DEF P
<1>7. n \in P
  BY <1>1, <1>5, <1>6, InduccionNat
<1>8. \A s \in SUBSET S : F[n + 1][s] = F[n][s]
  BY <1>1, <1>7 DEF P
<1>9. F[n + 1] \in T /\ F[n] \in T /\ F[n + 1] = Sumando(S, v, F[n])
  <2>1. n + 1 \in 1..n + 1 /\ n + 1 \in 0..n + 1 /\ n \in 0..n + 1 /\ (n + 1) - 1 = n
    BY <1>1
  <2> QED BY <1>4, <2>1
<1>10. F[n + 1] = F[n]
  BY <1>8, <1>9
<1> QED BY <1>9, <1>10 DEF EsSuma

\* The order in which a sum takes its terms does not matter.
Suma(S, v, it) ==
  /\ it[{}] = 0
  /\ \A s \in SUBSET S : it[s] \in Int /\ \A x \in s : it[s] = v[x] + it[s \ {x}]

\* Whichever the term taken off, what is left is the sum of the others.
LEMMA SumaPorCualquiera ==
  ASSUME NEW S, NEW v, NEW it, EsSuma(S, v, it)
  PROVE  Suma(S, v, it)
<1>a. IsFiniteSet(S) /\ v \in [S -> Int] /\ it = Sumando(S, v, it)
  BY DEF EsSuma
<1>0. it[{}] = 0
  BY <1>a DEF Sumando
<1>1. \A s \in SUBSET S : IsFiniteSet(s) /\ Cardinality(s) \in Nat
  BY <1>a, FS_CardinalityType, FS_Subset
<1> DEFINE P == {m \in Nat : \A s \in SUBSET S : Cardinality(s) <= m =>
                   it[s] \in Int /\ \A x \in s : it[s] = v[x] + it[s \ {x}]}
<1>2. 0 \in P
  <2>1. \A s \in SUBSET S : Cardinality(s) <= 0 => s = {}
    BY <1>1, FS_EmptySet
  <2> SUFFICES ASSUME NEW s \in SUBSET S, Cardinality(s) <= 0
               PROVE  it[s] \in Int /\ \A x \in s : it[s] = v[x] + it[s \ {x}]
    OBVIOUS
  <2>2. s = {}
    BY <2>1
  <2>3. it[s] = 0
    BY <1>0, <2>2
  <2> QED BY <2>2, <2>3
<1>3. ASSUME NEW m \in Nat, m \in P PROVE m + 1 \in P
  <2>a. \A s \in SUBSET S : Cardinality(s) <= m =>
          it[s] \in Int /\ \A x \in s : it[s] = v[x] + it[s \ {x}]
    BY <1>3
  <2> HIDE DEF P
  <2>b. SUFFICES ASSUME NEW s \in SUBSET S, Cardinality(s) <= m + 1
               PROVE  it[s] \in Int /\ \A x \in s : it[s] = v[x] + it[s \ {x}]
    BY DEF P
  <2>c. SUFFICES ASSUME ~(Cardinality(s) <= m)
               PROVE  it[s] \in Int /\ \A x \in s : it[s] = v[x] + it[s \ {x}]
    BY <2>a
  <2>0. Cardinality(s) = m + 1
    BY <1>1, <2>b, <2>c
  <2>1. s # {}
    BY <2>0, FS_EmptySet
  <2> DEFINE c == CHOOSE x \in s : TRUE
  <2>2. c \in s /\ it[s] = v[c] + it[s \ {c}]
    BY <1>a, <2>1 DEF Sumando
  <2> HIDE DEF c
  <2>3. \A x \in s : s \ {x} \in SUBSET S /\ Cardinality(s \ {x}) = m /\ v[x] \in Int
    <3> TAKE x \in s
    <3>1. Cardinality(s \ {x}) = Cardinality(s) - 1
      BY <1>1, FS_RemoveElement
    <3> QED BY <1>a, <2>0, <3>1
  <2>4. \A x \in s : /\ it[s \ {x}] \in Int
                     /\ \A y \in s \ {x} : it[s \ {x}] = v[y] + it[(s \ {x}) \ {y}]
    <3> TAKE x \in s
    <3>1. Cardinality(s \ {x}) <= m /\ s \ {x} \in SUBSET S
      BY <2>3
    <3> QED BY <3>1, <2>a
  <2>5. ASSUME NEW x \in s, x # c PROVE it[s] = v[x] + it[s \ {x}]
    <3>1. it[s \ {c}] = v[x] + it[(s \ {c}) \ {x}] /\ it[s \ {x}] = v[c] + it[(s \ {x}) \ {c}]
      BY <2>2, <2>4, <2>5
    <3>2. (s \ {c}) \ {x} = (s \ {x}) \ {c}
      OBVIOUS
    <3>3. it[(s \ {x}) \ {c}] \in Int
      <4>1. (s \ {x}) \ {c} \in SUBSET S /\ Cardinality((s \ {x}) \ {c}) = m - 1
        <5> DEFINE t == s \ {x}
        <5>1. t \in SUBSET S /\ IsFiniteSet(t) /\ Cardinality(t) = m /\ c \in t
          BY <1>1, <2>2, <2>3, <2>5
        <5> HIDE DEF t
        <5>2. Cardinality(t \ {c}) = m - 1 /\ t \ {c} \in SUBSET S
          BY <5>1, FS_RemoveElement
        <5> QED BY <5>2 DEF t
      <4>2. m - 1 <= m
        OBVIOUS
      <4> QED BY <2>a, <4>1, <4>2
    <3> DEFINE a == it[(s \ {x}) \ {c}]
    <3>4. it[s] = v[c] + (v[x] + a) /\ it[s \ {x}] = v[c] + a
      BY <2>2, <3>1, <3>2
    <3>5. v[c] \in Int /\ v[x] \in Int /\ a \in Int
      BY <2>2, <2>3, <2>5, <3>3
    <3> HIDE DEF a
    <3> QED BY <3>4, <3>5
  <2>6. it[s] \in Int
    <3>1. v[c] \in Int /\ it[s \ {c}] \in Int
      BY <2>2, <2>3, <2>4
    <3> QED BY <2>2, <3>1
  <2> QED BY <2>2, <2>5, <2>6
<1> HIDE DEF P
<1>4. \A m \in Nat : m \in P
  BY <1>2, <1>3, InduccionNat
<1>5. ASSUME NEW s \in SUBSET S
      PROVE  it[s] \in Int /\ \A x \in s : it[s] = v[x] + it[s \ {x}]
  <2>1. Cardinality(s) \in Nat /\ Cardinality(s) <= Cardinality(s)
    BY <1>1
  <2>2. Cardinality(s) \in P
    BY <1>4, <2>1
  <2> QED BY <2>1, <2>2 DEF P
<1> QED BY <1>0, <1>5 DEF Suma

\* Sums of the same terms, matched one to one, are the same.
Correspondencia(v, T, w, A, b) ==
  /\ b \in [A -> T] /\ \A x, y \in A : b[x] = b[y] => x = y
  /\ \A x \in A : w[b[x]] = v[x]

MismaSuma(A, it, iu, b) == \A s \in SUBSET A : it[s] = iu[{b[x] : x \in s}]

\* By induction on how many terms there are.
LEMMA SumaIgual ==
  ASSUME NEW S, NEW v, NEW it, EsSuma(S, v, it),
         NEW T, NEW w, NEW iu, EsSuma(T, w, iu),
         NEW A \in SUBSET S, NEW b, Correspondencia(v, T, w, A, b)
  PROVE  MismaSuma(A, it, iu, b)
<1> DEFINE Imagen(s) == {b[x] : x \in s}
<1>1. \A s \in SUBSET A : /\ s \in SUBSET S /\ IsFiniteSet(s) /\ Cardinality(s) \in Nat
                          /\ Imagen(s) \in SUBSET T
  <2> TAKE s \in SUBSET A
  <2>1. s \in SUBSET S
    OBVIOUS
  <2>2. IsFiniteSet(s) /\ Cardinality(s) \in Nat
    BY <2>1, FS_CardinalityType, FS_Subset DEF EsSuma
  <2> QED BY <2>1, <2>2 DEF Correspondencia
<1>2. /\ it[{}] = 0
      /\ \A s \in SUBSET S : it[s] \in Int /\ \A x \in s : it[s] = v[x] + it[s \ {x}]
  BY SumaPorCualquiera DEF Suma
<1>3. /\ iu[{}] = 0
      /\ \A s \in SUBSET T : iu[s] \in Int /\ \A x \in s : iu[s] = w[x] + iu[s \ {x}]
  BY SumaPorCualquiera DEF Suma
<1> DEFINE P == {m \in Nat : \A s \in SUBSET A : Cardinality(s) = m => it[s] = iu[Imagen(s)]}
<1>4. 0 \in P
  <2> SUFFICES ASSUME NEW s \in SUBSET A, Cardinality(s) = 0 PROVE it[s] = iu[Imagen(s)]
    OBVIOUS
  <2>1. s = {}
    BY <1>1, FS_EmptySet
  <2>2. Imagen(s) = {}
    BY <2>1
  <2> QED BY <1>2, <1>3, <2>1, <2>2
<1>5. ASSUME NEW m \in Nat, m \in P PROVE m + 1 \in P
  <2> SUFFICES ASSUME NEW s \in SUBSET A, Cardinality(s) = m + 1 PROVE it[s] = iu[Imagen(s)]
    OBVIOUS
  <2>1. s # {}
    BY FS_EmptySet
  <2>2. PICK x \in s : TRUE
    BY <2>1
  <2>3. s \ {x} \in SUBSET A /\ Cardinality(s \ {x}) = m
    <3>1. Cardinality(s \ {x}) = Cardinality(s) - 1
      BY <1>1, <2>2, FS_RemoveElement
    <3> QED BY <3>1
  <2>4. it[s \ {x}] = iu[Imagen(s \ {x})]
    BY <1>5, <2>3
  <2>5. Imagen(s \ {x}) = Imagen(s) \ {b[x]} /\ b[x] \in Imagen(s)
    BY <2>2 DEF Correspondencia
  <2>6. it[s] = v[x] + it[s \ {x}]
    BY <1>1, <1>2, <2>2
  <2> DEFINE I == Imagen(s)
             z == b[x]
  <2>7. I \in SUBSET T /\ z \in I
    BY <1>1, <2>5
  <2> HIDE DEF I, z
  <2>8. iu[I] = w[z] + iu[I \ {z}]
    BY <1>3, <2>7
  <2>9. iu[Imagen(s)] = w[b[x]] + iu[Imagen(s) \ {b[x]}]
    BY <2>8 DEF I, z
  <2>10. w[b[x]] = v[x]
    BY <2>2 DEF Correspondencia
  <2> HIDE DEF Imagen
  <2> QED BY <2>4, <2>5, <2>6, <2>9, <2>10
<1> HIDE DEF P
<1>6. \A m \in Nat : m \in P
  BY <1>4, <1>5, InduccionNat
<1> QED BY <1>1, <1>6 DEF P, MismaSuma

\* T has the terms of S and one more, z.
Falta(S, v, T, w, z, b) ==
  z \in T /\ Correspondencia(v, T, w, S, b) /\ {b[x] : x \in S} = T \ {z}

\* That term is the difference of the sums.
LEMMA SumaMas ==
  ASSUME NEW S, NEW v, NEW it, EsSuma(S, v, it),
         NEW T, NEW w, NEW iu, EsSuma(T, w, iu),
         NEW z, NEW b, Falta(S, v, T, w, z, b)
  PROVE  iu[T] = it[S] + w[z]
<1>0. z \in T /\ Correspondencia(v, T, w, S, b) /\ {b[x] : x \in S} = T \ {z}
  BY DEF Falta
<1>1. it[S] = iu[T \ {z}]
  <2>1. S \in SUBSET S
    OBVIOUS
  <2>2. MismaSuma(S, it, iu, b)
    BY <1>0, <2>1, SumaIgual
  <2> QED BY <1>0, <2>1, <2>2 DEF MismaSuma
<1>2. Suma(T, w, iu)
  BY SumaPorCualquiera
<1>3. iu[T] = w[z] + iu[T \ {z}] /\ iu[T \ {z}] \in Int /\ w[z] \in Int
  BY <1>0, <1>2 DEF Suma, EsSuma
<1> QED BY <1>1, <1>3

\* w is v but for the term z.
CambiaEn(S, v, w, z) == z \in S /\ \A x \in S : x # z => w[x] = v[x]

\* The sums differ in what that term does.
LEMMA SumaOtra ==
  ASSUME NEW S, NEW v, NEW it, EsSuma(S, v, it),
         NEW w, NEW iu, EsSuma(S, w, iu), NEW z, CambiaEn(S, v, w, z)
  PROVE  iu[S] = it[S] - v[z] + w[z]
<1>0. z \in S /\ \A x \in S : x # z => w[x] = v[x]
  BY DEF CambiaEn
<1> DEFINE A == S \ {z}
           b == [k \in A |-> k]
<1>1. A \in SUBSET S /\ Correspondencia(v, S, w, A, b) /\ {b[x] : x \in A} = A
  BY <1>0 DEF Correspondencia
<1> HIDE DEF b, A
<1>2. it[A] = iu[A]
  <2>1. MismaSuma(A, it, iu, b)
    BY <1>1, SumaIgual
  <2>2. A \in SUBSET A
    OBVIOUS
  <2> QED BY <1>1, <2>1, <2>2 DEF MismaSuma
<1>3. Suma(S, v, it) /\ Suma(S, w, iu)
  BY SumaPorCualquiera
<1>4. /\ it[S] = v[z] + it[A] /\ it[A] \in Int /\ v[z] \in Int
      /\ iu[S] = w[z] + iu[A] /\ iu[A] \in Int /\ w[z] \in Int
  BY <1>0, <1>3 DEF Suma, A, EsSuma
<1> QED BY <1>2, <1>4

\* r is the list of numbers q with one more at the end, or without the one at i.
Agregada(n, q, m, r) ==
  /\ n \in Nat /\ q \in [1..n -> Int] /\ m = n + 1 /\ r \in [1..m -> Int]
  /\ \A k \in 1..n : r[k] = q[k]
Quitada(n, q, i, r) ==
  /\ n \in Nat /\ q \in [1..n -> Int] /\ i \in 1..n /\ r \in [1..n - 1 -> Int]
  /\ \A k \in 1..n - 1 : r[k] = q[IF k < i THEN k ELSE k + 1]

\* The new number is added.
LEMMA SumaAgrega ==
  ASSUME NEW n, NEW q, NEW m, NEW r, Agregada(n, q, m, r),
         NEW it, EsSuma(1..n, q, it), NEW iu, EsSuma(1..m, r, iu)
  PROVE  iu[1..m] = it[1..n] + r[m]
<1>0. /\ n \in Nat /\ q \in [1..n -> Int] /\ m = n + 1 /\ r \in [1..m -> Int]
      /\ \A k \in 1..n : r[k] = q[k]
  BY DEF Agregada
<1> DEFINE S == 1..n
           T == 1..m
           z == m
           b == [k \in S |-> k]
<1>1. IsFiniteSet(S) /\ IsFiniteSet(T)
  BY <1>0, FS_Interval
<1>2. z \in T /\ Correspondencia(q, T, r, S, b)
  BY <1>0 DEF Correspondencia
<1>3. {b[x] : x \in S} = T \ {z}
  BY <1>0
<1>4. q \in [S -> Int] /\ r \in [T -> Int] /\ EsSuma(S, q, it) /\ EsSuma(T, r, iu)
  BY <1>0
<1> HIDE DEF b, S, T, z
<1>5. Falta(S, q, T, r, z, b)
  BY <1>2, <1>3 DEF Falta
<1>6. iu[T] = it[S] + r[z]
  BY <1>4, <1>5, SumaMas
<1> QED BY <1>6 DEF S, T, z

\* The one that leaves is taken off.
LEMMA SumaQuita ==
  ASSUME NEW n, NEW q, NEW i, NEW r, Quitada(n, q, i, r),
         NEW it, EsSuma(1..n, q, it), NEW iu, EsSuma(1..n - 1, r, iu)
  PROVE  it[1..n] = iu[1..n - 1] + q[i]
<1>0. /\ n \in Nat /\ q \in [1..n -> Int] /\ i \in 1..n /\ r \in [1..n - 1 -> Int]
      /\ \A k \in 1..n - 1 : r[k] = q[IF k < i THEN k ELSE k + 1]
  BY DEF Quitada
<1> DEFINE S == 1..n - 1
           T == 1..n
           b == [k \in S |-> IF k < i THEN k ELSE k + 1]
<1>1. IsFiniteSet(S) /\ IsFiniteSet(T)
  BY <1>0, FS_Interval
<1>2. i \in T /\ Correspondencia(r, T, q, S, b)
  BY <1>0 DEF Correspondencia
<1>3. {b[x] : x \in S} = T \ {i}
  <2>1. \A x \in S : b[x] \in T \ {i}
    BY <1>0
  <2>2. ASSUME NEW y \in T \ {i} PROVE \E x \in S : b[x] = y
    <3>1. CASE y < i
      <4>1. y \in S /\ b[y] = y
        BY <1>0, <3>1
      <4> QED BY <4>1
    <3>2. CASE ~(y < i)
      <4>1. y - 1 \in S /\ ~(y - 1 < i) /\ (y - 1) + 1 = y
        BY <1>0, <2>2, <3>2
      <4>2. b[y - 1] = y
        BY <4>1
      <4> QED BY <4>1, <4>2
    <3> QED BY <3>1, <3>2
  <2> HIDE DEF b, S, T
  <2> QED BY <2>1, <2>2
<1>4. q \in [T -> Int] /\ r \in [S -> Int] /\ EsSuma(T, q, it) /\ EsSuma(S, r, iu)
  BY <1>0
<1> HIDE DEF b, S, T
<1>5. Falta(S, r, T, q, i, b)
  BY <1>2, <1>3 DEF Falta
<1>6. it[T] = iu[S] + q[i]
  BY <1>4, <1>5, SumaMas
<1> QED BY <1>6 DEF S, T
-----------------------------------------------------------------------------
(* Lists of lists, joined.                                                  *)

\* What the joining of a list of lists computes.
EsAplanada(s, f) ==
  f = [i \in 1..Len(s) |-> IF i = 1 THEN s[i] ELSE f[i - 1] \o s[i]]

\* The first m of two lists are the same.
Coinciden(s, t, m) ==
  m \in Nat /\ \A i \in 1..m : i \in 1..Len(s) /\ i \in 1..Len(t) /\ s[i] = t[i]

\* It gives lists, and there is only one result up to where two lists of lists
\* are the same.
LEMMA AplanadaTipo ==
  ASSUME NEW T, NEW s \in Seq(Seq(T)), NEW f, EsAplanada(s, f)
  PROVE  \A i \in 1..Len(s) : f[i] \in Seq(T)
<1> DEFINE S == {n \in Nat : n + 1 <= Len(s) => f[n + 1] \in Seq(T)}
<1>0. Len(s) \in Nat /\ \A i \in 1..Len(s) : s[i] \in Seq(T)
  BY LenProperties
<1>a. \A i \in 1..Len(s) : f[i] = IF i = 1 THEN s[i] ELSE f[i - 1] \o s[i]
  BY DEF EsAplanada
<1>1. 0 \in S
  <2> SUFFICES ASSUME 1 <= Len(s) PROVE f[1] \in Seq(T)
    OBVIOUS
  <2>1. 1 \in 1..Len(s)
    BY <1>0
  <2> QED BY <2>1, <1>0, <1>a
<1>2. ASSUME NEW n \in Nat, n \in S PROVE n + 1 \in S
  <2> SUFFICES ASSUME n + 2 <= Len(s) PROVE f[n + 2] \in Seq(T)
    OBVIOUS
  <2>1. n + 2 \in 1..Len(s) /\ n + 2 # 1 /\ (n + 2) - 1 = n + 1 /\ n + 1 <= Len(s)
    BY <1>0
  <2>2. f[n + 1] \in Seq(T) /\ s[n + 2] \in Seq(T)
    BY <1>2, <2>1, <1>0
  <2>3. f[n + 2] = f[n + 1] \o s[n + 2]
    BY <1>a, <2>1
  <2> QED BY <2>2, <2>3, ConcatProperties
<1>3. \A n \in Nat : n \in S
  <2> HIDE DEF S
  <2> QED BY <1>1, <1>2, InduccionNat
<1>4. ASSUME NEW i \in 1..Len(s) PROVE f[i] \in Seq(T)
  <2>1. i - 1 \in Nat /\ (i - 1) + 1 = i /\ i <= Len(s)
    BY <1>0
  <2>2. i - 1 \in S
    BY <2>1, <1>3
  <2> QED BY <2>1, <2>2
<1> QED BY <1>4

LEMMA AplanadaUnica ==
  ASSUME NEW s, NEW t, NEW m, Coinciden(s, t, m),
         NEW f, EsAplanada(s, f), NEW g, EsAplanada(t, g)
  PROVE  \A i \in 1..m : f[i] = g[i]
<1> DEFINE S == {n \in Nat : n + 1 <= m => f[n + 1] = g[n + 1]}
<1>0. m \in Nat
  BY DEF Coinciden
<1>a. /\ \A i \in 1..m : f[i] = IF i = 1 THEN s[i] ELSE f[i - 1] \o s[i]
      /\ \A i \in 1..m : g[i] = IF i = 1 THEN t[i] ELSE g[i - 1] \o t[i]
  BY DEF EsAplanada, Coinciden
<1>1. 0 \in S
  <2> SUFFICES ASSUME 1 <= m PROVE f[1] = g[1]
    BY <1>0
  <2>1. 1 \in 1..m
    BY <1>0
  <2> QED BY <2>1, <1>a DEF Coinciden
<1>2. ASSUME NEW n \in Nat, n \in S PROVE n + 1 \in S
  <2> SUFFICES ASSUME n + 2 <= m PROVE f[n + 2] = g[n + 2]
    BY <1>0
  <2>1. n + 2 \in 1..m /\ n + 2 # 1 /\ (n + 2) - 1 = n + 1 /\ n + 1 <= m
    BY <1>0
  <2>2. f[n + 1] = g[n + 1]
    BY <1>2, <2>1
  <2> QED BY <1>a, <2>1, <2>2 DEF Coinciden
<1>3. \A n \in Nat : n \in S
  <2> HIDE DEF S
  <2> QED BY <1>1, <1>2, InduccionNat
<1>4. ASSUME NEW i \in 1..m PROVE f[i] = g[i]
  <2>1. i - 1 \in Nat /\ (i - 1) + 1 = i /\ i <= m
    BY <1>0
  <2>2. i - 1 \in S
    BY <2>1, <1>3
  <2> QED BY <2>1, <2>2
<1> QED BY <1>4

LEMMA AplanadaExiste ==
  ASSUME NEW T, NEW s \in Seq(Seq(T))
  PROVE  \E f : EsAplanada(s, f)
<1> DEFINE n == Len(s)
           Q == Seq(T)
           g == [x \in (1..n) \X Q |-> IF x[1] = 1 THEN s[1] ELSE x[2] \o s[x[1]]]
           b == <<>>
<1>0. n \in Nat /\ b \in Q /\ \A i \in 1..n : s[i] \in Q
  BY LenProperties
<1>a. \A i \in 1..n, x \in Q : /\ g[<<i, x>>] = IF i = 1 THEN s[1] ELSE x \o s[i]
                               /\ g[<<i, x>>] \in Q
  <2> TAKE i \in 1..n, x \in Q
  <2>1. g[<<i, x>>] = IF i = 1 THEN s[1] ELSE x \o s[i]
    OBVIOUS
  <2>2. x \o s[i] \in Q
    BY <1>0, ConcatProperties
  <2>3. 1 \in 1..n
    BY <1>0
  <2> HIDE DEF g, Q
  <2> QED BY <1>0, <2>1, <2>2, <2>3
<1> HIDE DEF n, g, Q, b
<1>1. PICK h : h \in Recursivas(Q, n, b, g)
  <2>1. EsPaso(Q, n, g)
    BY <1>a DEF EsPaso
  <2> QED BY <1>0, <2>1, FuncionRecursiva
<1>2. h \in [0..n -> Q] /\ \A i \in 1..n : h[i] = g[<<i, h[i - 1]>>]
  BY <1>1 DEF Recursivas
<1> DEFINE f == [i \in 1..n |-> h[i]]
<1>3. \A i \in 1..n : h[i] = IF i = 1 THEN s[i] ELSE h[i - 1] \o s[i]
  <2> TAKE i \in 1..n
  <2>1. i - 1 \in 0..n
    BY <1>0
  <2>2. h[i - 1] \in Q
    BY <1>2, <2>1
  <2> QED BY <1>2, <1>a, <2>2
<1>4. ASSUME NEW i \in 1..n PROVE f[i] = IF i = 1 THEN s[i] ELSE f[i - 1] \o s[i]
  <2>1. i # 1 => i - 1 \in 1..n
    BY <1>0
  <2> QED BY <2>1, <1>3
<1>5. f = [i \in 1..n |-> IF i = 1 THEN s[i] ELSE f[i - 1] \o s[i]]
  BY <1>4, Zenon
<1> QED BY <1>5 DEF EsAplanada, n

LEMMA AplanaEs ==
  ASSUME NEW T, NEW s \in Seq(Seq(T)), Len(s) # 0
  PROVE  \E f : EsAplanada(s, f) /\ FlattenSeq(s) = f[Len(s)]
<1> DEFINE f == CHOOSE f : f = [i \in 1..Len(s) |-> IF i = 1 THEN s[i] ELSE f[i - 1] \o s[i]]
<1>1. PICK g : g = [i \in 1..Len(s) |-> IF i = 1 THEN s[i] ELSE g[i - 1] \o s[i]]
  BY AplanadaExiste DEF EsAplanada
<1>2. f = [i \in 1..Len(s) |-> IF i = 1 THEN s[i] ELSE f[i - 1] \o s[i]]
  BY <1>1, Zenon
<1>3. FlattenSeq(s) = f[Len(s)]
  BY Zenon DEF FlattenSeq
<1> QED BY <1>2, <1>3 DEF EsAplanada

\* FlattenSeq gives a list; a list more goes at the end of it.
LEMMA Aplana ==
  ASSUME NEW T, NEW s \in Seq(Seq(T)), NEW x \in Seq(T)
  PROVE  /\ FlattenSeq(s) \in Seq(T)
         /\ FlattenSeq(Append(s, x)) = FlattenSeq(s) \o x
<1> DEFINE r == Append(s, x)
<1>1. /\ Len(s) \in Nat /\ r \in Seq(Seq(T)) /\ Len(r) = Len(s) + 1 /\ r[Len(s) + 1] = x
      /\ \A i \in 1..Len(s) : r[i] = s[i]
  BY LenProperties, AppendProperties
<1> HIDE DEF r
<1>2. PICK g : EsAplanada(r, g) /\ FlattenSeq(r) = g[Len(r)]
  <2>1. Len(r) # 0
    BY <1>1
  <2> QED BY <2>1, <1>1, AplanaEs
<1>3. CASE Len(s) = 0
  <2>1. FlattenSeq(s) = <<>>
    <3>1. s = <<>>
      BY <1>3, EmptySeq
    <3> QED BY <1>3, <3>1 DEF FlattenSeq
  <2>2. FlattenSeq(r) = x
    <3>1. 1 \in 1..Len(r) /\ Len(r) = 1 /\ r[1] = x
      BY <1>1, <1>3
    <3> QED BY <1>2, <3>1 DEF EsAplanada
  <2>3. <<>> \o x = x
    BY ConcatEmptySeq
  <2>4. <<>> \in Seq(T)
    OBVIOUS
  <2> QED BY <2>1, <2>2, <2>3, <2>4 DEF r
<1>4. CASE Len(s) # 0
  <2>1. PICK f : EsAplanada(s, f) /\ FlattenSeq(s) = f[Len(s)]
    BY <1>4, AplanaEs
  <2>2. Len(s) \in 1..Len(s) /\ Len(s) + 1 \in 1..Len(r) /\ Len(s) + 1 # 1
    BY <1>1, <1>4
  <2>3. f[Len(s)] \in Seq(T)
    BY <2>1, <2>2, AplanadaTipo
  <2>4. f[Len(s)] = g[Len(s)]
    <3> DEFINE m == Len(s)
    <3>1. Coinciden(s, r, m)
      BY <1>1 DEF Coinciden
    <3>2. \A i \in 1..m : f[i] = g[i]
      <4> HIDE DEF m
      <4> QED BY <3>1, <2>1, <1>2, AplanadaUnica
    <3> QED BY <3>2, <2>2
  <2>5. g[Len(s) + 1] = g[Len(s)] \o r[Len(s) + 1]
    <3> DEFINE k == Len(s) + 1
    <3>1. k \in 1..Len(r) /\ k # 1 /\ k - 1 = Len(s)
      BY <2>2, <1>1
    <3> HIDE DEF k
    <3>2. g[k] = g[k - 1] \o r[k]
      BY <3>1, <1>2 DEF EsAplanada
    <3> QED BY <3>1, <3>2 DEF k
  <2> QED BY <1>1, <1>2, <2>1, <2>3, <2>4, <2>5 DEF r
<1> QED BY <1>3, <1>4

-----------------------------------------------------------------------------
(* The beginning and the last of a list.                                    *)

\* A function on the first n numbers is a list.
LEMMA FuncionLista ==
  ASSUME NEW S, NEW n \in Nat, NEW f \in [1..n -> S]
  PROVE  f \in Seq(S) /\ Len(f) = n
<1>1. f \in Seq(S)
  BY SeqDef
<1>2. DOMAIN f = 1..n /\ DOMAIN f = 1..Len(f) /\ Len(f) \in Nat
  BY <1>1, LenProperties
<1> QED BY <1>1, <1>2

\* A list is its beginning and its last element.
LEMMA ListaFrontal ==
  ASSUME NEW S, NEW s \in Seq(S), s # <<>>
  PROVE  /\ Front(s) \in Seq(S) /\ Last(s) \in S /\ s = Append(Front(s), Last(s))
         /\ Len(s) \in Nat \ {0} /\ Len(Front(s)) = Len(s) - 1
         /\ \A i \in 1..Len(s) - 1 : Front(s)[i] = s[i]
<1> DEFINE n == Len(s)
           f == Front(s)
<1>1. n \in Nat /\ DOMAIN s = 1..n /\ \A i \in 1..n : s[i] \in S
  BY LenProperties
<1>2. n # 0
  BY EmptySeq
<1>3. /\ f \in Seq(S) /\ Len(f) = n - 1 /\ \A i \in 1..n - 1 : f[i] = s[i]
  <2> DEFINE m == n - 1
  <2>1. m \in Int /\ 1 \in Int /\ \A i \in 1..m : s[i] \in S
    BY <1>1, <1>2
  <2> HIDE DEF m
  <2>2. /\ SubSeq(s, 1, m) \in Seq(S) /\ Len(SubSeq(s, 1, m)) = IF 1 <= m THEN m - 1 + 1 ELSE 0
        /\ \A i \in 1..m - 1 + 1 : SubSeq(s, 1, m)[i] = s[1 + i - 1]
    BY <2>1, SubSeqProperties
  <2>3. f = SubSeq(s, 1, m)
    BY DEF Front, m
  <2>4. m - 1 + 1 = m /\ m >= 0 /\ \A i \in 1..m : 1 + i - 1 = i
    BY <1>1, <1>2 DEF m
  <2>5. Len(f) = m
    BY <2>1, <2>2, <2>3, <2>4
  <2>6. \A i \in 1..m : f[i] = s[i]
    BY <2>1, <2>2, <2>3, <2>4
  <2> QED BY <2>2, <2>3, <2>5, <2>6 DEF m
<1>4. Last(s) \in S /\ Last(s) = s[n]
  BY <1>1, <1>2 DEF Last
<1> HIDE DEF f
<1>5. s = Append(f, Last(s))
  <2> HIDE DEF n
  <2> DEFINE r == Append(f, Last(s))
  <2>1. /\ r \in Seq(S) /\ Len(r) = Len(f) + 1
        /\ \A i \in 1..Len(f) : r[i] = f[i]
        /\ r[Len(f) + 1] = Last(s)
    BY <1>3, <1>4, AppendProperties
  <2> HIDE DEF r
  <2>2. Len(r) = n
    BY <2>1, <1>1, <1>3
  <2>3. ASSUME NEW i \in 1..n PROVE s[i] = r[i]
    <3>1. CASE i = n
      BY <3>1, <2>1, <1>1, <1>3, <1>4
    <3>2. CASE i # n
      <4>1. i \in 1..n - 1
        BY <3>2, <1>1
      <4> QED BY <4>1, <2>1, <1>3
    <3> QED BY <3>1, <3>2
  <2>4. s = r
    BY <2>1, <2>2, <2>3, SeqEqual DEF n
  <2> QED BY <2>4 DEF r
<1> QED BY <1>1, <1>2, <1>3, <1>4, <1>5 DEF f, n

\* Adding at the end and looking at the end.
LEMMA AgregaFrontal ==
  ASSUME NEW S, NEW s \in Seq(S), NEW e \in S
  PROVE  /\ Front(Append(s, e)) = s /\ Last(Append(s, e)) = e
         /\ Append(s, e) \in Seq(S) /\ Append(s, e) # <<>> /\ Append(s, e) = s \o <<e>>
         /\ Len(Append(s, e)) = Len(s) + 1 /\ Append(s, e)[Len(s) + 1] = e
         /\ \A i \in 1..Len(s) : Append(s, e)[i] = s[i]
<1> DEFINE r == Append(s, e)
           n == Len(s)
<1>1. /\ r \in Seq(S) /\ r # <<>> /\ Len(r) = n + 1 /\ n \in Nat
      /\ \A i \in 1..n : r[i] = s[i]
      /\ r[n + 1] = e
  BY AppendProperties, LenProperties
<1>2. r = s \o <<e>>
  BY AppendIsConcat
<1> HIDE DEF r
<1>3. Last(r) = e
  BY <1>1 DEF Last
<1>4. Front(r) \in Seq(S) /\ Len(Front(r)) = n /\ \A i \in 1..n : Front(r)[i] = r[i]
  <2>1. Len(r) - 1 = n
    BY <1>1
  <2> QED BY <1>1, <2>1, ListaFrontal
<1>5. Front(r) = s
  BY <1>1, <1>4, SeqEqual
<1> QED BY <1>1, <1>2, <1>3, <1>5 DEF r

\* Changing the last one.
LEMMA CambiaUltimo ==
  ASSUME NEW S, NEW s \in Seq(S), s # <<>>, NEW e \in S
  PROVE  [s EXCEPT ![Len(s)] = e] = Append(Front(s), e)
<1> DEFINE n == Len(s)
           r == [s EXCEPT ![n] = e]
           t == Append(Front(s), e)
<1>1. /\ Front(s) \in Seq(S) /\ n \in Nat \ {0} /\ Len(Front(s)) = n - 1
      /\ \A i \in 1..n - 1 : Front(s)[i] = s[i]
  BY ListaFrontal
<1>2. r \in Seq(S) /\ Len(r) = n /\ \A i \in 1..n : r[i] = IF i = n THEN e ELSE s[i]
  <2>1. n \in 1..n
    BY <1>1
  <2> QED BY <2>1, ExceptSeq
<1>3. /\ t \in Seq(S) /\ Len(t) = Len(Front(s)) + 1 /\ t[Len(Front(s)) + 1] = e
      /\ \A i \in 1..Len(Front(s)) : t[i] = Front(s)[i]
  BY <1>1, AgregaFrontal
<1> HIDE DEF n, r, t
<1>4. Len(t) = n /\ t[n] = e /\ \A i \in 1..n - 1 : t[i] = s[i]
  BY <1>1, <1>3
<1>5. ASSUME NEW i \in 1..n PROVE r[i] = t[i]
  <2>1. i = n \/ i \in 1..n - 1
    BY <1>1
  <2>2. \A j \in 1..n - 1 : j # n
    BY <1>1
  <2> QED BY <2>1, <2>2, <1>2, <1>4
<1>6. r = t
  BY <1>2, <1>3, <1>4, <1>5, SeqEqual
<1> QED BY <1>6 DEF n, r, t
-----------------------------------------------------------------------------
(* Numbers.                                                                 *)

\* The quotient and the remainder.
LEMMA Division ==
  ASSUME NEW n \in Nat, NEW m \in Nat \ {0}
  PROVE  /\ n \div m \in Nat /\ n % m \in 0 .. m - 1
         /\ n = ((n \div m) * m) + (n % m)
BY Z3

\* Products by the same number are in the order of what is multiplied.
LEMMA Productos ==
  ASSUME NEW a \in Nat, NEW b \in Nat, NEW m \in Nat \ {0}
  PROVE  /\ a * m \in Nat
         /\ a < b => a * m + m <= b * m
         /\ a * m < b * m => a < b
         /\ (a + 1) * m = a * m + m
BY Z3

\* The greatest of 1 .. k.
LEMMA MaxIntervalo ==
  ASSUME NEW k \in Nat \ {0}
  PROVE  Max(1 .. k) = k /\ (1 .. k) \ {k} = 1 .. k - 1
<1>1. k \in 1 .. k /\ \A y \in 1 .. k : k >= y
  OBVIOUS
<1>2. \A x \in 1 .. k : (\A y \in 1 .. k : x >= y) => x = k
  BY <1>1
<1>3. Max(1 .. k) = k
  BY <1>1, <1>2 DEF Max
<1> QED BY <1>3

-----------------------------------------------------------------------------
(* Queues of requests, each of a program, and of messages, each of a kind.    *)

\* The programs of a queue.
EnCola(cola) == {cola[i].pid : i \in DOMAIN cola}
SinRepetidos(cola) ==
  \A i, j \in DOMAIN cola : i # j => cola[i].pid # cola[j].pid

\* The places of the messages of a kind, and how many there are.
Sitio(q, op) == {i \in DOMAIN q : q[i].op = op}
CuantosDe(q, op) == Cardinality({i \in DOMAIN q : q[i].op = op})
Uno(b) == IF b THEN 1 ELSE 0

\* r is q with e at the end; r is q without its first one.
Crecio(q, e, r) ==
  /\ Len(q) \in Nat /\ DOMAIN q = 1 .. Len(q) /\ DOMAIN r = 1 .. Len(q) + 1
  /\ r[Len(q) + 1] = e /\ \A i \in 1 .. Len(q) : r[i] = q[i]
Menguo(q, r) ==
  /\ Len(q) \in Nat \ {0} /\ DOMAIN q = 1 .. Len(q) /\ DOMAIN r = 1 .. Len(q) - 1
  /\ Head(q) = q[1] /\ \A i \in 1 .. Len(q) - 1 : r[i] = q[i + 1]

LEMMA ColaCrece ==
  ASSUME NEW S, NEW q \in Seq(S), NEW e \in S
  PROVE  Append(q, e) \in Seq(S) /\ Crecio(q, e, Append(q, e)) /\ Append(q, e) # <<>>
<1> DEFINE r == Append(q, e)
<1>1. r \in Seq(S) /\ Len(r) = Len(q) + 1 /\ r # <<>> /\ Len(q) \in Nat
  BY ListaAgrega, LenProperties
<1>2. \A i \in 1 .. Len(q) : r[i] = q[i]
  BY AgregaFrontal
<1>3. r[Len(q) + 1] = e
  BY AgregaFrontal
<1>4. DOMAIN q = 1 .. Len(q) /\ DOMAIN r = 1 .. Len(r)
  BY <1>1, LenProperties
<1> HIDE DEF r
<1> QED BY <1>1, <1>2, <1>3, <1>4 DEF Crecio, r

LEMMA ColaMengua ==
  ASSUME NEW S, NEW q \in Seq(S), q # <<>>
  PROVE  Tail(q) \in Seq(S) /\ Head(q) \in S /\ Menguo(q, Tail(q))
<1> DEFINE r == Tail(q)
<1>1. r \in Seq(S) /\ Head(q) \in S /\ Head(q) = q[1] /\ Len(q) \in Nat \ {0} /\ Len(r) = Len(q) - 1
  BY ListaSaca, LenProperties
<1>2. \A i \in 1 .. Len(q) - 1 : r[i] = q[i + 1]
  BY ListaSaca
<1>4. DOMAIN q = 1 .. Len(q) /\ DOMAIN r = 1 .. Len(r)
  BY <1>1, LenProperties
<1> HIDE DEF r
<1> QED BY <1>1, <1>2, <1>4 DEF Menguo, r

LEMMA SitioFinito ==
  ASSUME NEW q, NEW n \in Nat, DOMAIN q = 1 .. n, NEW op
  PROVE  IsFiniteSet(Sitio(q, op)) /\ CuantosDe(q, op) = Cardinality(Sitio(q, op)) /\ CuantosDe(q, op) \in Nat
<1>1. IsFiniteSet(1 .. n) /\ Sitio(q, op) \in SUBSET (1 .. n)
  BY FS_Interval DEF Sitio
<1>2. IsFiniteSet(Sitio(q, op))
  BY <1>1, FS_Subset
<1>3. CuantosDe(q, op) = Cardinality(Sitio(q, op))
  BY DEF CuantosDe, Sitio
<1> QED BY <1>2, <1>3, FS_CardinalityType

LEMMA CuantosCrece ==
  ASSUME NEW q, NEW e, NEW r, Crecio(q, e, r), NEW op
  PROVE  CuantosDe(r, op) = CuantosDe(q, op) + Uno(e.op = op) /\ CuantosDe(q, op) \in Nat
<1>0. /\ Len(q) \in Nat /\ DOMAIN q = 1 .. Len(q) /\ DOMAIN r = 1 .. Len(q) + 1
      /\ r[Len(q) + 1] = e /\ \A i \in 1 .. Len(q) : r[i] = q[i]
  BY DEF Crecio
<1> DEFINE n == Len(q)
           I == Sitio(q, op)
           J == Sitio(r, op)
<1>1. n \in Nat /\ n + 1 \in Nat /\ n + 1 \notin 1 .. n
  BY <1>0
<1>2. IsFiniteSet(I) /\ CuantosDe(q, op) = Cardinality(I) /\ CuantosDe(q, op) \in Nat
  BY <1>0, SitioFinito
<1>3. IsFiniteSet(J) /\ CuantosDe(r, op) = Cardinality(J)
  BY <1>0, <1>1, SitioFinito
<1>4. n + 1 \notin I
  BY <1>0, <1>1 DEF Sitio
<1>5. J = IF e.op = op THEN I \cup {n + 1} ELSE I
  <2>1. \A i : i \in 1 .. n + 1 <=> i \in 1 .. n \/ i = n + 1
    BY <1>1
  <2> HIDE DEF n
  <2> QED BY <1>0, <1>1, <2>1 DEF Sitio, n
<1> HIDE DEF I, J, n
<1>6. Cardinality(I \cup {n + 1}) = Cardinality(I) + 1
  BY <1>2, <1>4, FS_AddElement
<1> QED BY <1>2, <1>3, <1>5, <1>6 DEF Uno

LEMMA CuantosMengua ==
  ASSUME NEW q, NEW r, Menguo(q, r), NEW op
  PROVE  CuantosDe(q, op) = CuantosDe(r, op) + Uno(Head(q).op = op) /\ CuantosDe(r, op) \in Nat
<1>0. /\ Len(q) \in Nat \ {0} /\ DOMAIN q = 1 .. Len(q) /\ DOMAIN r = 1 .. Len(q) - 1
      /\ Head(q) = q[1] /\ \A i \in 1 .. Len(q) - 1 : r[i] = q[i + 1]
  BY DEF Menguo
<1> DEFINE n == Len(q)
           I == Sitio(q, op)
           J == Sitio(r, op)
           K == I \ {1}
           f == [i \in J |-> i + 1]
<1>1. n \in Nat /\ n - 1 \in Nat /\ 1 \in 1 .. n
  BY <1>0
<1>2. IsFiniteSet(I) /\ CuantosDe(q, op) = Cardinality(I) /\ CuantosDe(q, op) \in Nat
  BY <1>0, SitioFinito
<1>3. IsFiniteSet(J) /\ CuantosDe(r, op) = Cardinality(J) /\ CuantosDe(r, op) \in Nat
  BY <1>0, <1>1, SitioFinito
<1>4. \A i \in J : i \in 1 .. n - 1 /\ i + 1 \in K
  <2>1. \A i \in 1 .. n - 1 : i + 1 \in 1 .. n /\ i + 1 # 1
    BY <1>1
  <2> HIDE DEF n
  <2> QED BY <1>0, <2>1 DEF Sitio, n
<1>5. \A k \in K : k - 1 \in J /\ k - 1 + 1 = k
  <2>1. \A k \in 1 .. n : k # 1 => k - 1 \in 1 .. n - 1 /\ k - 1 + 1 = k
    BY <1>1
  <2> HIDE DEF n
  <2> QED BY <1>0, <2>1 DEF Sitio, n
<1>6. \A i, j \in J : i + 1 = j + 1 => i = j
  BY <1>1, <1>4
<1>7. f \in Bijection(J, K)
  <2> HIDE DEF J, K
  <2>1. f \in [J -> K] /\ \A i \in J : f[i] = i + 1
    BY <1>4
  <2>2. \A k \in K : \E i \in J : f[i] = k
    BY <1>5, <2>1
  <2> HIDE DEF f
  <2> QED BY <1>6, <2>1, <2>2 DEF Bijection, Injection, Surjection, IsInjective
<1> HIDE DEF f, J
<1>8. Cardinality(K) = Cardinality(J)
  BY <1>3, <1>7, FS_Bijection DEF ExistsBijection
<1>9. Cardinality(K) = IF 1 \in I THEN Cardinality(I) - 1 ELSE Cardinality(I)
  BY <1>2, FS_RemoveElement
<1>10. 1 \in I <=> Head(q).op = op
  BY <1>0, <1>1 DEF Sitio
<1> HIDE DEF I, K, n
<1> QED BY <1>2, <1>3, <1>8, <1>9, <1>10 DEF Uno

\* No message of a kind, or one, or more.
LEMMA CuantosHay ==
  ASSUME NEW q, NEW n \in Nat, DOMAIN q = 1 .. n, NEW op
  PROVE  /\ CuantosDe(q, op) \in Nat
         /\ CuantosDe(q, op) = 0 <=> \A i \in DOMAIN q : q[i].op # op
         /\ CuantosDe(q, op) <= 1 =>
              \A i, j \in DOMAIN q : q[i].op = op /\ q[j].op = op => i = j
<1> DEFINE I == Sitio(q, op)
<1>1. IsFiniteSet(I) /\ CuantosDe(q, op) = Cardinality(I) /\ CuantosDe(q, op) \in Nat
  BY SitioFinito
<1>2. Cardinality(I) = 0 <=> I = {}
  BY <1>1, FS_EmptySet
<1>3. ASSUME NEW i \in I, NEW j \in I, Cardinality(I) <= 1 PROVE i = j
  <2>1. Cardinality(I) = 1
    BY <1>1, <1>2, <1>3
  <2>2. PICK x : I = {x}
    BY <1>1, <2>1, FS_Singleton
  <2> QED BY <1>3, <2>2
<1>4. I = {} <=> \A i \in DOMAIN q : q[i].op # op
  BY DEF Sitio
<1> QED BY <1>1, <1>2, <1>3, <1>4 DEF Sitio

LEMMA EncoladosCrecen ==
  ASSUME NEW q, NEW e, NEW r, Crecio(q, e, r)
  PROVE  /\ EnCola(r) = EnCola(q) \cup {e.pid}
         /\ SinRepetidos(q) /\ e.pid \notin EnCola(q) => SinRepetidos(r)
<1>1. Len(q) \in Nat /\ DOMAIN q = 1 .. Len(q) /\ DOMAIN r = 1 .. Len(q) + 1
      /\ r[Len(q) + 1] = e /\ \A i \in 1 .. Len(q) : r[i] = q[i]
  BY DEF Crecio
<1>2. PICK n \in Nat : n = Len(q)
  BY <1>1
<1>3. \A i \in 1 .. n + 1 : i \in 1 .. n \/ i = n + 1
  BY <1>2
<1>4. \A i \in 1 .. n : i \in 1 .. n + 1 /\ i # n + 1
  BY <1>2
<1>5. n + 1 \in 1 .. n + 1
  BY <1>2
<1>6. DOMAIN q = 1 .. n /\ DOMAIN r = 1 .. n + 1 /\ r[n + 1] = e /\ \A i \in 1 .. n : r[i] = q[i]
  BY <1>1, <1>2
<1>7. EnCola(r) = EnCola(q) \cup {e.pid}
  BY <1>3, <1>4, <1>5, <1>6 DEF EnCola
<1>8. ASSUME SinRepetidos(q), e.pid \notin EnCola(q) PROVE SinRepetidos(r)
  <2> SUFFICES ASSUME NEW i \in DOMAIN r, NEW j \in DOMAIN r, i # j PROVE r[i].pid # r[j].pid
    BY DEF SinRepetidos
  <2>1. \A k \in 1 .. n : r[k].pid \in EnCola(q)
    BY <1>6 DEF EnCola
  <2> QED BY <1>3, <1>6, <1>8, <2>1 DEF SinRepetidos
<1> QED BY <1>7, <1>8

LEMMA EncoladosMenguan ==
  ASSUME NEW q, NEW r, Menguo(q, r), SinRepetidos(q)
  PROVE  EnCola(r) = EnCola(q) \ {Head(q).pid} /\ Head(q).pid \in EnCola(q) /\ SinRepetidos(r)
<1>1. PICK n \in Nat \ {0} : n = Len(q)
  BY DEF Menguo
<1>2. DOMAIN q = 1 .. n /\ DOMAIN r = 1 .. n - 1 /\ Head(q) = q[1] /\ \A i \in 1 .. n - 1 : r[i] = q[i + 1]
  BY <1>1 DEF Menguo
<1>3. \A i \in 1 .. n - 1 : i + 1 \in 1 .. n /\ i + 1 # 1 /\ i \in Int
  BY <1>1
<1>4. \A i \in 1 .. n : i # 1 => i - 1 \in 1 .. n - 1 /\ (i - 1) + 1 = i
  BY <1>1
<1>5. 1 \in 1 .. n
  BY <1>1
<1>6. \A i \in 1 .. n : i # 1 => q[i].pid # q[1].pid
  BY <1>2, <1>5 DEF SinRepetidos
<1>7. \A i \in 1 .. n - 1 : r[i].pid \in EnCola(q) \ {q[1].pid}
  BY <1>2, <1>3, <1>6 DEF EnCola
<1>8. ASSUME NEW i \in 1 .. n, i # 1 PROVE q[i].pid \in EnCola(r)
  <2>1. PICK k \in 1 .. n - 1 : k + 1 = i
    BY <1>4, <1>8
  <2>2. r[k] = q[i]
    BY <1>2, <2>1
  <2> QED BY <1>2, <2>1, <2>2 DEF EnCola
<1>9. EnCola(r) = EnCola(q) \ {q[1].pid} /\ q[1].pid \in EnCola(q)
  <2>1. q[1].pid \in EnCola(q)
    BY <1>2, <1>5 DEF EnCola
  <2>2. \A p \in EnCola(r) : p \in EnCola(q) \ {q[1].pid}
    BY <1>2, <1>7 DEF EnCola
  <2>3. \A p \in EnCola(q) : p = q[1].pid \/ p \in EnCola(r)
    <3>1. ASSUME NEW p \in EnCola(q) PROVE p = q[1].pid \/ p \in EnCola(r)
      <4>1. PICK i \in 1 .. n : p = q[i].pid
        BY <1>2, <3>1 DEF EnCola
      <4> QED BY <1>8, <4>1
    <3> QED BY <3>1
  <2> QED BY <2>1, <2>2, <2>3
<1>10. SinRepetidos(r)
  <2> SUFFICES ASSUME NEW i \in 1 .. n - 1, NEW j \in 1 .. n - 1, i # j PROVE r[i].pid # r[j].pid
    BY <1>2 DEF SinRepetidos
  <2>1. i + 1 \in 1 .. n /\ j + 1 \in 1 .. n /\ i + 1 # j + 1
    BY <1>1
  <2>2. r[i] = q[i + 1] /\ r[j] = q[j + 1]
    BY <1>2
  <2>3. \A k, l \in 1 .. n : k # l => q[k].pid # q[l].pid
    BY <1>2 DEF SinRepetidos
  <2> QED BY <2>1, <2>2, <2>3
<1> QED BY <1>2, <1>9, <1>10

\* The places of a list with one more, or one less.
LEMMA SitioCrece ==
  ASSUME NEW q, NEW e, NEW r, Crecio(q, e, r), NEW op
  PROVE  /\ \A i \in Sitio(r, op) : \/ i \in Sitio(q, op) /\ r[i] = q[i] /\ i <= Len(q)
                                    \/ i = Len(q) + 1 /\ r[i] = e /\ e.op = op
         /\ \A i \in DOMAIN q : i \in DOMAIN r /\ r[i] = q[i]
         /\ Len(q) + 1 \in DOMAIN r /\ r[Len(q) + 1] = e /\ Len(q) \in Nat
         /\ \A i \in Sitio(r, op) : i \in Nat
  BY DEF Crecio, Sitio

LEMMA SitioMengua ==
  ASSUME NEW q, NEW r, Menguo(q, r), NEW op
  PROVE  /\ \A i \in Sitio(r, op) : i \in Nat \ {0} /\ i + 1 \in Sitio(q, op) /\ r[i] = q[i + 1]
         /\ \A i \in DOMAIN q : i # 1 => i - 1 \in DOMAIN r /\ r[i - 1] = q[i]
         /\ 1 \in DOMAIN q /\ q[1] = Head(q) /\ (Head(q).op = op => 1 \in Sitio(q, op))
<1>1. \A i \in DOMAIN r : i \in Nat \ {0} /\ i + 1 \in DOMAIN q /\ r[i] = q[i + 1]
  BY DEF Menguo
<1>2. \A i \in DOMAIN q : i # 1 => i - 1 \in DOMAIN r
  BY DEF Menguo
<1>3. \A i \in DOMAIN q : i # 1 => r[i - 1] = q[(i - 1) + 1] /\ (i - 1) + 1 = i
  BY <1>1, <1>2 DEF Menguo
<1>4. 1 \in DOMAIN q /\ q[1] = Head(q)
  BY DEF Menguo
<1> QED BY <1>1, <1>2, <1>3, <1>4 DEF Sitio

-----------------------------------------------------------------------------
(* The image of a finite set, and the sum of some sizes.                      *)

LEMMA ImagenFinita ==
  ASSUME NEW S, IsFiniteSet(S), NEW f, DOMAIN f = S
  PROVE  IsFiniteSet({f[x] : x \in S})
<1> DEFINE T == {f[x] : x \in S}
           g == [x \in S |-> f[x]]
<1>1. g \in [S -> T] /\ \A x \in S : g[x] = f[x]
  OBVIOUS
<1>2. \A t \in T : \E x \in S : g[x] = t
  BY <1>1
<1> HIDE DEF g, T
<1>3. g \in Surjection(S, T)
  BY <1>1, <1>2 DEF Surjection
<1>4. IsFiniteSet(T)
  BY <1>3, FS_Surjection
<1> QED BY <1>4 DEF T

\* The space of the blocks of S, by their sizes.
EspacioDe(v, S) == FoldSet(LAMBDA o, x : v[o].size + x, 0, S)

\* What FoldSet computes.
SumandoEspacio(v, S, it) ==
  [s \in SUBSET S |-> IF s = {} THEN 0
                      ELSE v[CHOOSE x \in s : TRUE].size + it[s \ {CHOOSE x \in s : TRUE}]]

Medidas(v, S) == [o \in S |-> v[o].size]

\* The space of some blocks is a sum.
LEMMA EspacioEs ==
  ASSUME NEW v, NEW S, IsFiniteSet(S), \A o \in S : v[o].size \in Int
  PROVE  \E it : EsSuma(S, Medidas(v, S), it) /\ EspacioDe(v, S) = it[S]
<1> DEFINE c == CHOOSE it : it = SumandoEspacio(v, S, it)
<1>1. EspacioDe(v, S) = c[S]
  <2>1. EspacioDe(v, S) =
    (CHOOSE it : it = [s \in SUBSET S |->
       IF s = {} THEN 0
       ELSE v[CHOOSE x \in s : TRUE].size + it[s \ {CHOOSE x \in s : TRUE}]])[S]
    BY Zenon DEF EspacioDe, FoldSet, MapThenFoldSet
  <2> QED BY ONLY <2>1, Zenon DEF SumandoEspacio
<1>2. Medidas(v, S) \in [S -> Int]
  BY DEF Medidas
<1>3. ASSUME NEW it PROVE SumandoEspacio(v, S, it) = Sumando(S, Medidas(v, S), it)
  <2>1. ASSUME NEW s \in SUBSET S, s # {}
        PROVE  v[CHOOSE x \in s : TRUE].size = Medidas(v, S)[CHOOSE x \in s : TRUE]
    <3>1. (CHOOSE x \in s : TRUE) \in S
      BY <2>1
    <3> QED BY <3>1 DEF Medidas
  <2> QED BY <2>1 DEF SumandoEspacio, Sumando
<1>4. PICK it : EsSuma(S, Medidas(v, S), it)
  BY <1>2, SumaExiste
<1>5. it = SumandoEspacio(v, S, it)
  BY <1>3, <1>4 DEF EsSuma
<1>6. c = SumandoEspacio(v, S, c)
  BY <1>5
<1> HIDE DEF c
<1>7. EsSuma(S, Medidas(v, S), c)
  BY <1>2, <1>3, <1>6 DEF EsSuma
<1> QED BY <1>1, <1>7

\* It is an integer, and depends on the sizes of those blocks.
LEMMA EspacioIgual ==
  ASSUME NEW v, NEW w, NEW S, IsFiniteSet(S), \A o \in S : v[o].size \in Int /\ w[o].size = v[o].size
  PROVE  EspacioDe(v, S) \in Int /\ EspacioDe(w, S) = EspacioDe(v, S)
<1>1. PICK it : EsSuma(S, Medidas(v, S), it) /\ EspacioDe(v, S) = it[S]
  BY EspacioEs
<1>2. PICK iu : EsSuma(S, Medidas(w, S), iu) /\ EspacioDe(w, S) = iu[S]
  BY EspacioEs
<1>3. Medidas(w, S) = Medidas(v, S)
  BY DEF Medidas
<1>4. PICK b : b = [x \in S |-> x]
  OBVIOUS
<1>5. Correspondencia(Medidas(v, S), S, Medidas(v, S), S, b) /\ S \in SUBSET S
  BY <1>4 DEF Correspondencia
<1>6. MismaSuma(S, it, iu, b)
  BY <1>1, <1>2, <1>3, <1>5, SumaIgual
<1>7. {b[x] : x \in S} = S
  BY <1>4
<1>8. it[S] = iu[S]
  BY <1>6, <1>7 DEF MismaSuma
<1>9. Suma(S, Medidas(v, S), it)
  BY <1>1, SumaPorCualquiera
<1> QED BY <1>1, <1>2, <1>8, <1>9 DEF Suma

\* One block more.
LEMMA EspacioMas ==
  ASSUME NEW v, NEW S, IsFiniteSet(S), NEW z, z \notin S, \A o \in S \cup {z} : v[o].size \in Int
  PROVE  EspacioDe(v, S \cup {z}) = EspacioDe(v, S) + v[z].size
<1> DEFINE T == S \cup {z}
<1>0. IsFiniteSet(T) /\ z \in T /\ T \ {z} = S
  BY FS_AddElement
<1>1. PICK it : EsSuma(S, Medidas(v, S), it) /\ EspacioDe(v, S) = it[S]
  BY EspacioEs
<1>2. PICK iu : EsSuma(T, Medidas(v, T), iu) /\ EspacioDe(v, T) = iu[T]
  BY <1>0, EspacioEs
<1>3. PICK b : b = [x \in S |-> x]
  OBVIOUS
<1>4. Falta(S, Medidas(v, S), T, Medidas(v, T), z, b)
  <2>1. {b[x] : x \in S} = S
    BY <1>3
  <2> QED BY <1>0, <1>3, <2>1 DEF Falta, Correspondencia, Medidas
<1>5. Medidas(v, T)[z] = v[z].size
  BY <1>0 DEF Medidas
<1> HIDE DEF T
<1>6. iu[T] = it[S] + Medidas(v, T)[z]
  BY <1>1, <1>2, <1>4, SumaMas
<1> QED BY <1>1, <1>2, <1>5, <1>6 DEF T

\* The other free blocks, and those that are given with them.
LEMMA LibreCon ==
  ASSUME NEW S, IsFiniteSet(S), NEW R, R \subseteq S, NEW z, z \in S, S = R \cup {z}, z \notin R,
         NEW v, NEW w, \A o \in S : v[o].size \in Int, \A o \in R : w[o].size = v[o].size
  PROVE  EspacioDe(v, S) = EspacioDe(w, R) + v[z].size /\ EspacioDe(w, R) \in Int
<1>1. IsFiniteSet(R)
  BY FS_Subset
<1>2. EspacioDe(v, R \cup {z}) = EspacioDe(v, R) + v[z].size
  BY <1>1, EspacioMas
<1>3. EspacioDe(v, R) \in Int /\ EspacioDe(w, R) = EspacioDe(v, R)
  BY <1>1, EspacioIgual
<1> QED BY <1>2, <1>3

=============================================================================
