--------------------------- MODULE ArchivosProofs ---------------------------
(* IInvFs and IInvTablas are invariants of Archivos, and what follows.       *)
EXTENDS ArchivosInv, ListasLemas

-----------------------------------------------------------------------------
(* The FileSystem.                                                          *)

\* The blocks, and the free ones, are finitely many natural numbers.
LEMMA BloquesFinitos ==
  /\ Bloques \subseteq Nat /\ IsFiniteSet(Bloques)
  /\ Libres \subseteq Bloques /\ IsFiniteSet(Libres) /\ Libres \cap bitarray = {}
<1>1. Bloques \subseteq Nat /\ IsFiniteSet(Bloques)
  BY TamaniosSupuesto, FS_Interval DEF Bloques
<1>2. Libres \subseteq Bloques /\ Libres \cap bitarray = {}
  BY DEF Libres
<1> QED BY <1>1, <1>2, FS_Subset

\* Primeros(n) is n free blocks, none twice.
LEMMA PrimerosSon ==
  ASSUME NEW n \in Nat, n <= Cardinality(Libres)
  PROVE  /\ Primeros(n) \in Seq(Bloques) /\ Len(Primeros(n)) = n
         /\ ToSet(Primeros(n)) \subseteq Libres /\ IsInjective(Primeros(n))
<1> DEFINE Bajo(b) == {a \in Libres : a < b}
           r == Primeros(n)
<1>1. ASSUME NEW i \in 1..n PROVE \E b \in Libres : Cardinality(Bajo(b)) = i - 1
  <2>1. i - 1 \in Nat /\ i - 1 < Cardinality(Libres)
    BY BloquesFinitos, FS_CardinalityType
  <2> QED BY <2>1, BloquesFinitos, EnesimoNatural, ZenonT(60)
<1>2. r = [i \in 1..n |-> CHOOSE b \in Libres : Cardinality(Bajo(b)) = i - 1]
  BY DEF Primeros
<1>3. \A i \in 1..n : r[i] \in Libres /\ Cardinality(Bajo(r[i])) = i - 1
  BY <1>1, <1>2
<1>4. DOMAIN r = 1..n
  BY <1>2
<1> HIDE DEF r
<1>5. r \in [1..n -> Libres]
  BY <1>2, <1>3, <1>4
<1>6. r \in Seq(Bloques) /\ Len(r) = n
  <2>1. r \in [1..n -> Bloques]
    BY <1>5, BloquesFinitos
  <2> QED BY <2>1, SeqDef
<1>7. ToSet(r) \subseteq Libres
  BY <1>3, <1>4 DEF ToSet
<1>8. IsInjective(r)
  <2> SUFFICES ASSUME NEW i \in 1..n, NEW j \in 1..n, r[i] = r[j] PROVE i = j
    BY <1>4 DEF IsInjective
  <2>1. i - 1 = j - 1
    BY <1>3
  <2> QED BY <2>1
<1> QED BY <1>6, <1>7, <1>8 DEF r

\* The product by a number that is not negative keeps the order.
LEMMA ProductoMonotono ==
  ASSUME NEW a \in Int, NEW b \in Int, NEW c \in Nat, a <= b
  PROVE  a * c <= b * c
<1>1. (b - a) * c >= 0
  OBVIOUS
<1>2. (b - a) * c = b * c - a * c
  OBVIOUS
<1> QED BY <1>1, <1>2

\* Techo(a, b) is the number of pieces of b that a needs.
LEMMA TechoEs ==
  ASSUME NEW a \in Nat, NEW b \in Nat \ {0}
  PROVE  /\ Techo(a, b) \in Nat
         /\ (Techo(a, b) - 1) * b < a /\ a <= Techo(a, b) * b
<1> DEFINE q == (a + b - 1) \div b
<1>1. a + b - 1 \in Nat
  OBVIOUS
<1>2. q \in Nat /\ q * b <= a + b - 1 /\ a + b - 1 < q * b + b
  BY <1>1
<1>3. q * b \in Int /\ (q - 1) * b = q * b - b
  BY <1>2
<1> QED BY <1>2, <1>3 DEF Techo

LEMMA TechoUnico ==
  ASSUME NEW a \in Nat, NEW b \in Nat \ {0}, NEW q \in Nat,
         (q - 1) * b < a, a <= q * b
  PROVE  Techo(a, b) = q
<1> DEFINE r == Techo(a, b)
<1>1. r \in Nat /\ (r - 1) * b < a /\ a <= r * b
  BY TechoEs
<1> HIDE DEF r
<1>2. ASSUME NEW x \in Nat, NEW y \in Nat, (y - 1) * b < a, a <= x * b, x < y PROVE FALSE
  <2>1. x * b <= (y - 1) * b
    BY <1>2, ProductoMonotono
  <2>2. x * b \in Int /\ (y - 1) * b \in Int
    OBVIOUS
  <2> QED BY <2>1, <2>2, <1>2
<1>3. ~(q < r) /\ ~(r < q)
  BY <1>1, <1>2
<1> QED BY <1>1, <1>3 DEF r

\* A file of l blocks and t bytes, as TamanioJusto says, grows by n: with the k
\* blocks it is given it has those that its new size needs.
LEMMA CreceJusto ==
  ASSUME NEW b \in Nat \ {0}, NEW t \in Nat, NEW l \in Nat, NEW n \in Nat \ {0},
         Techo(t, b) = 0 => l = 1, Techo(t, b) # 0 => l = Techo(t, b),
         NEW k, n < l * b - t => k = 0, ~(n < l * b - t) => k = Techo(n - (l * b - t), b)
  PROVE  k \in Nat /\ (l + k - 1) * b < t + n /\ t + n <= (l + k) * b /\ l + k >= 1
<1> DEFINE r == l * b - t
<1>0. l * b \in Int /\ (l - 1) * b = l * b - b /\ r \in Int
  OBVIOUS
<1>1. l >= 1 /\ t <= l * b /\ (t # 0 => (l - 1) * b < t) /\ (t = 0 => l = 1)
  <2>1. Techo(t, b) \in Nat /\ (Techo(t, b) - 1) * b < t /\ t <= Techo(t, b) * b
    BY TechoEs
  <2>2. CASE Techo(t, b) = 0
    <3>1. t = 0 /\ l = 1
      BY <2>1, <2>2
    <3> QED BY <3>1
  <2>3. CASE Techo(t, b) # 0
    <3>1. l = Techo(t, b) /\ l >= 1
      BY <2>1, <2>3
    <3>2. t = 0 => l = 1
      <4> SUFFICES ASSUME t = 0 PROVE l = 1
        OBVIOUS
      <4>1. (1 - 1) * b < b /\ Techo(0, b) \in Nat
        BY TechoEs
      <4>2. (0 - 1) * b < 0 /\ 0 <= 0 * b
        OBVIOUS
      <4>3. Techo(0, b) = 0
        BY <4>2, TechoUnico
      <4> QED BY <4>3, <2>3
    <3> QED BY <3>1, <3>2, <2>1
  <2> QED BY <2>2, <2>3
<1>2. r >= 0
  BY <1>0, <1>1
<1>3. k \in Nat
  <2>1. CASE n < r
    BY <2>1
  <2>2. CASE ~(n < r)
    <3>1. n - r \in Nat
      BY <1>0, <2>2
    <3> QED BY <3>1, <2>2, TechoEs
  <2> QED BY <2>1, <2>2
<1>4. (l + k - 1) * b < t + n /\ t + n <= (l + k) * b
  <2>1. CASE n < r
    <3>1. k = 0 /\ l + k = l /\ l + k - 1 = l - 1
      BY <2>1
    <3>2. (l - 1) * b < t + n
      BY <1>0, <1>1
    <3>3. t + n <= l * b
      BY <2>1, <1>0
    <3> QED BY <3>1, <3>2, <3>3
  <2>2. CASE ~(n < r)
    <3>1. n - r \in Nat /\ k = Techo(n - r, b)
      BY <1>0, <2>2
    <3>2. (k - 1) * b < n - r /\ n - r <= k * b
      BY <3>1, TechoEs
    <3>3. (l + k - 1) * b = l * b + (k - 1) * b /\ (l + k) * b = l * b + k * b
      BY <1>3
    <3>4. (k - 1) * b \in Int /\ k * b \in Int
      BY <1>3
    <3> DEFINE x == (k - 1) * b
               y == k * b
               z == l * b
    <3>5. /\ x \in Int /\ y \in Int /\ z \in Int /\ x < n - (z - t) /\ n - (z - t) <= y
          /\ (l + k - 1) * b = z + x /\ (l + k) * b = z + y
      BY <3>2, <3>3, <3>4, <1>0
    <3> HIDE DEF x, y, z
    <3>6. z + x < t + n /\ t + n <= z + y
      BY <3>5
    <3> QED BY <3>5, <3>6
  <2> QED BY <2>1, <2>2
<1>5. l + k >= 1
  BY <1>1, <1>3
<1> QED BY <1>3, <1>4, <1>5

\* The blocks of the files.
DeArchivos == UNION {ToSet(archivos[f].bloques) : f \in DOMAIN archivos}

\* The metadata of a file there is.
LEMMA MetadataTipo ==
  ASSUME TiposFs, NEW f \in DOMAIN archivos
  PROVE  /\ archivos[f] \in Metadata /\ archivos[f].tamanio \in Nat
         /\ archivos[f].bloques \in Seq(Bloques)
         /\ archivos[f] = [tamanio |-> archivos[f].tamanio, bloques |-> archivos[f].bloques]
BY DEF TiposFs, Metadata

\* Nothing of the FileSystem changes.
LEMMA IgualInv ==
  ASSUME InvFs, archivos' = archivos, bitarray' = bitarray
  PROVE  InvFs'
<1>1. TiposFs'
  BY DEF InvFs, TiposFs, Metadata, Bloques
<1>2. BitmapExacto'
  BY DEF InvFs, BitmapExacto, Marcados, Bloques
<1>3. UnDuenio'
  BY DEF InvFs, UnDuenio
<1>4. TamanioJusto'
  BY DEF InvFs, TamanioJusto
<1>5. SinMarcados'
  BY DEF InvFs, SinMarcados, Marcados, Bloques
<1> QED BY <1>1, <1>2, <1>3, <1>4, <1>5 DEF InvFs

\* Creating a file takes one free block for it.
LEMMA CrearInv ==
  ASSUME InvFs, NEW f \in Paths, NEW v, ~Existe(f), Crear(f, v)
  PROVE  InvFs' /\ (v = 1 => DOMAIN archivos' = DOMAIN archivos \cup {f})
                /\ (v # 1 => DOMAIN archivos' = DOMAIN archivos)
<1>1. CASE UNCHANGED fs /\ v = 0
  BY <1>1, IgualInv DEF fs
<1>2. CASE Libres # {} /\ v = 1
  <2> DEFINE b == Min(Libres)
             nuevo == [tamanio |-> 0, bloques |-> <<b>>]
  <2>1. /\ archivos' = [g \in DOMAIN archivos \cup {f} |-> IF g = f THEN nuevo ELSE archivos[g]]
        /\ bitarray' = bitarray \cup {b}
    BY <1>2 DEF Crear, ConArchivo
  <2>2. b \in Libres /\ b \in Bloques /\ b \notin bitarray
    <3>1. Libres \subseteq Nat
      BY BloquesFinitos
    <3>2. b \in Libres
      BY <1>2, <3>1, MinEs
    <3> QED BY <3>2, BloquesFinitos
  <2>3. /\ <<b>> \in Seq(Bloques) /\ Len(<<b>>) = 1 /\ ToSet(<<b>>) = {b}
        /\ IsInjective(<<b>>)
    BY <2>2, ListaDeUno
  <2> HIDE DEF b
  <2>4. /\ nuevo.tamanio = 0 /\ nuevo.bloques = <<b>> /\ nuevo \in Metadata
    BY <2>3 DEF Metadata
  <2> HIDE DEF nuevo
  <2>5. /\ DOMAIN archivos' = DOMAIN archivos \cup {f} /\ archivos'[f] = nuevo
        /\ \A g \in DOMAIN archivos : archivos'[g] = archivos[g] /\ g # f
    BY <2>1 DEF Existe
  <2>6. TiposFs'
    <3>1. \A g \in DOMAIN archivos' : archivos'[g] \in Metadata
      BY <2>4, <2>5, MetadataTipo DEF InvFs
    <3>2. archivos' \in [DOMAIN archivos' -> Metadata]
      BY <3>1, <2>1
    <3> QED BY <3>2, <2>1, <2>2, <2>5 DEF TiposFs, InvFs, Metadata, Bloques
  <2>7. BitmapExacto'
    <3>1. UNION {ToSet(archivos'[g].bloques) : g \in DOMAIN archivos'} = DeArchivos \cup {b}
      BY <2>3, <2>4, <2>5 DEF DeArchivos
    <3>2. bitarray = Marcados \cup DeArchivos
      BY DEF InvFs, BitmapExacto, DeArchivos
    <3> QED BY <3>1, <3>2, <2>1 DEF BitmapExacto, Marcados, Bloques
  <2>8. UnDuenio'
    <3>1. \A g \in DOMAIN archivos : b \notin ToSet(archivos[g].bloques)
      BY <2>2 DEF InvFs, BitmapExacto
    <3>2. ASSUME NEW g \in DOMAIN archivos', NEW h \in DOMAIN archivos'
          PROVE  /\ IsInjective(archivos'[g].bloques)
                 /\ g # h => ToSet(archivos'[g].bloques) \cap ToSet(archivos'[h].bloques) = {}
      <4>1. CASE g = f /\ h = f
        BY <4>1, <2>3, <2>4, <2>5
      <4>2. CASE g = f /\ h # f
        BY <4>2, <2>3, <2>4, <2>5, <3>1
      <4>3. CASE g # f /\ h = f
        BY <4>3, <2>3, <2>4, <2>5, <3>1 DEF InvFs, UnDuenio
      <4>4. CASE g # f /\ h # f
        BY <4>4, <2>5 DEF InvFs, UnDuenio
      <4> QED BY <4>1, <4>2, <4>3, <4>4
    <3> QED BY <3>2 DEF UnDuenio
  <2>9. TamanioJusto'
    <3>1. Techo(0, TAMANIO_BLOQUES) = 0
      <4>1. TAMANIO_BLOQUES \in Nat \ {0}
        BY TamaniosSupuesto
      <4>2. (0 - 1) * TAMANIO_BLOQUES < 0 /\ 0 <= 0 * TAMANIO_BLOQUES
        BY <4>1
      <4> QED BY <4>1, <4>2, TechoUnico
    <3>2. ASSUME NEW g \in DOMAIN archivos'
          PROVE  Len(archivos'[g].bloques) =
                   IF Techo(archivos'[g].tamanio, TAMANIO_BLOQUES) = 0 THEN 1
                   ELSE Techo(archivos'[g].tamanio, TAMANIO_BLOQUES)
      <4>1. CASE g = f
        BY <4>1, <3>1, <2>3, <2>4, <2>5
      <4>2. CASE g # f
        BY <4>2, <2>5 DEF InvFs, TamanioJusto
      <4> QED BY <4>1, <4>2
    <3> QED BY <3>2 DEF TamanioJusto
  <2>10. SinMarcados'
    <3>1. Marcados' = Marcados /\ b \notin Marcados
      BY <2>2 DEF InvFs, BitmapExacto, Marcados, Bloques
    <3>2. ASSUME NEW g \in DOMAIN archivos'
          PROVE  ToSet(archivos'[g].bloques) \cap Marcados = {}
      <4>1. CASE g = f
        BY <4>1, <3>1, <2>3, <2>4, <2>5
      <4>2. CASE g # f
        BY <4>2, <2>5 DEF InvFs, SinMarcados
      <4> QED BY <4>1, <4>2
    <3> QED BY <3>1, <3>2 DEF SinMarcados
  <2> QED BY <1>2, <2>5, <2>6, <2>7, <2>8, <2>9, <2>10 DEF InvFs
<1> QED BY <1>1, <1>2 DEF Crear, fs

\* Writing to a file gives it free blocks, as many as its new size needs.
LEMMA GuardarInv ==
  ASSUME InvFs, NEW f \in Paths, NEW n \in Tamanios, NEW v, Guardar(f, n, v)
  PROVE  InvFs' /\ DOMAIN archivos' = DOMAIN archivos
<1>0. f \in DOMAIN archivos /\ n \in Nat \ {0} /\ TAMANIO_BLOQUES \in Nat \ {0}
  BY TamaniosSupuesto DEF Guardar, Existe
<1>1. CASE UNCHANGED fs
  BY <1>1, IgualInv DEF fs
<1>2. CASE ~(UNCHANGED fs)
  <2> DEFINE k == MasBloques(f, n)
             nuevos == Primeros(k)
             m == archivos[f]
             suyo == [tamanio |-> m.tamanio + n, bloques |-> m.bloques \o nuevos]
  <2>1. /\ k <= Cardinality(Libres)
        /\ archivos' = [archivos EXCEPT ![f].tamanio = @ + n, ![f].bloques = @ \o nuevos]
        /\ bitarray' = bitarray \cup ToSet(nuevos)
    BY <1>2 DEF Guardar
  <2>2. /\ m \in Metadata /\ m.tamanio \in Nat /\ m.bloques \in Seq(Bloques)
        /\ m = [tamanio |-> m.tamanio, bloques |-> m.bloques]
    BY <1>0, MetadataTipo DEF InvFs
  <2>3. Len(m.bloques) \in Nat
    BY <2>2, LenProperties
  <2>4. k \in Nat /\ Len(m.bloques) + k = Techo(m.tamanio + n, TAMANIO_BLOQUES)
        /\ Techo(m.tamanio + n, TAMANIO_BLOQUES) # 0
    <3> DEFINE l == Len(m.bloques)
               t == m.tamanio
               b == TAMANIO_BLOQUES
    <3>1. (Techo(t, b) = 0 => l = 1) /\ (Techo(t, b) # 0 => l = Techo(t, b))
      BY <1>0 DEF InvFs, TamanioJusto
    <3>2. (n < l * b - t => k = 0) /\ (~(n < l * b - t) => k = Techo(n - (l * b - t), b))
      BY DEF MasBloques, Restante
    <3>3. l \in Nat /\ t \in Nat
      BY <2>2, <2>3
    <3>4. b \in Nat \ {0}
      BY <1>0
    <3> HIDE DEF l, t, k, b
    <3>5. k \in Nat /\ (l + k - 1) * b < t + n /\ t + n <= (l + k) * b /\ l + k >= 1
      BY <3>1, <3>2, <3>3, <3>4, <1>0, CreceJusto, Zenon
    <3> DEFINE q == l + k
               a == t + n
    <3>6. a \in Nat /\ q \in Nat /\ (q - 1) * b < a /\ a <= q * b /\ q # 0
      BY <3>3, <3>5, <1>0
    <3> HIDE DEF a, q
    <3>7. Techo(a, b) = q
      BY <3>4, <3>6, TechoUnico
    <3> QED BY <3>5, <3>6, <3>7 DEF l, t, b, a, q
  <2> HIDE DEF k
  <2>5. /\ nuevos \in Seq(Bloques) /\ Len(nuevos) = k
        /\ ToSet(nuevos) \subseteq Libres /\ IsInjective(nuevos)
    BY <2>1, <2>4, PrimerosSon
  <2> HIDE DEF nuevos
  <2>6. ToSet(nuevos) \subseteq Bloques /\ ToSet(nuevos) \cap bitarray = {}
        /\ ToSet(nuevos) \cap Marcados = {}
    BY <2>5, BloquesFinitos DEF InvFs, BitmapExacto
  <2>7. ToSet(m.bloques) \cap ToSet(nuevos) = {} /\ IsInjective(m.bloques)
        /\ \A g \in DOMAIN archivos : ToSet(archivos[g].bloques) \cap ToSet(nuevos) = {}
    <3>1. \A g \in DOMAIN archivos : ToSet(archivos[g].bloques) \subseteq bitarray
      BY DEF InvFs, BitmapExacto
    <3> QED BY <3>1, <2>6, <1>0 DEF InvFs, UnDuenio
  <2> HIDE DEF m
  <2>8. /\ m.bloques \o nuevos \in Seq(Bloques)
        /\ Len(m.bloques \o nuevos) = Len(m.bloques) + k
        /\ ToSet(m.bloques \o nuevos) = ToSet(m.bloques) \cup ToSet(nuevos)
        /\ IsInjective(m.bloques \o nuevos)
    BY <2>2, <2>5, <2>7, ListasJuntas
  <2>9. /\ DOMAIN archivos' = DOMAIN archivos /\ archivos'[f] = suyo
        /\ \A g \in DOMAIN archivos : g # f => archivos'[g] = archivos[g]
        /\ archivos' \in [DOMAIN archivos -> Metadata]
    <3>1. archivos \in [DOMAIN archivos -> Metadata]
      BY DEF InvFs, TiposFs
    <3>2. archivos' = [archivos EXCEPT ![f] = suyo]
      <4>1. archivos' = [archivos EXCEPT
              ![f] = [[m EXCEPT !.tamanio = @ + n] EXCEPT !.bloques = @ \o nuevos]]
        BY <3>1, <2>1, <1>0 DEF m
      <4>2. ASSUME NEW a, NEW b, NEW c, NEW d
            PROVE  [[[tamanio |-> a, bloques |-> b] EXCEPT !.tamanio = c] EXCEPT !.bloques = d] =
                     [tamanio |-> c, bloques |-> d]
        <5>1. [[tamanio |-> a, bloques |-> b] EXCEPT !.tamanio = c] =
                [tamanio |-> c, bloques |-> b]
          OBVIOUS
        <5>2. [[tamanio |-> c, bloques |-> b] EXCEPT !.bloques = d] =
                [tamanio |-> c, bloques |-> d]
          OBVIOUS
        <5> QED BY <5>1, <5>2
      <4>3. [m EXCEPT !.tamanio = @ + n].bloques = m.bloques
        BY <2>2
      <4>4. [[m EXCEPT !.tamanio = @ + n] EXCEPT !.bloques = @ \o nuevos] =
              [[m EXCEPT !.tamanio = m.tamanio + n] EXCEPT !.bloques = m.bloques \o nuevos]
        BY <4>3
      <4>5. [[m EXCEPT !.tamanio = @ + n] EXCEPT !.bloques = @ \o nuevos] = suyo
        BY <4>4, <4>2, <2>2
      <4> QED BY <4>1, <4>5
    <3>3. suyo \in Metadata
      BY <2>2, <2>8, <1>0 DEF Metadata
    <3> HIDE DEF suyo
    <3> QED BY <3>1, <3>2, <3>3, <1>0
  <2>10. suyo.tamanio = m.tamanio + n /\ suyo.bloques = m.bloques \o nuevos
    OBVIOUS
  <2> HIDE DEF suyo
  <2>11. TiposFs'
    <3>1. archivos' \in [DOMAIN archivos' -> Metadata]
      BY <2>9
    <3> QED BY <3>1, <2>1, <2>6, <2>9 DEF InvFs, TiposFs, Metadata, Bloques
  <2>12. BitmapExacto'
    <3> DEFINE Juntos == UNION {ToSet(archivos'[g].bloques) : g \in DOMAIN archivos'}
    <3>1. ToSet(archivos'[f].bloques) = ToSet(archivos[f].bloques) \cup ToSet(nuevos)
      BY <2>8, <2>9, <2>10 DEF m
    <3>2. Juntos = DeArchivos \cup ToSet(nuevos)
      <4>1. ASSUME NEW x \in Juntos PROVE x \in DeArchivos \cup ToSet(nuevos)
        <5>1. PICK g \in DOMAIN archivos : x \in ToSet(archivos'[g].bloques)
          BY <2>9
        <5>2. x \in ToSet(archivos[g].bloques) \/ x \in ToSet(nuevos)
          BY <5>1, <3>1, <2>9
        <5> QED BY <5>2 DEF DeArchivos
      <4>2. ASSUME NEW x \in DeArchivos PROVE x \in Juntos
        <5>1. PICK g \in DOMAIN archivos : x \in ToSet(archivos[g].bloques)
          BY DEF DeArchivos
        <5>2. x \in ToSet(archivos'[g].bloques)
          BY <5>1, <3>1, <2>9
        <5> QED BY <5>2, <2>9
      <4>3. ToSet(nuevos) \subseteq Juntos
        BY <3>1, <2>9, <1>0
      <4> QED BY <4>1, <4>2, <4>3
    <3>3. bitarray = Marcados \cup DeArchivos
      BY DEF InvFs, BitmapExacto, DeArchivos
    <3> QED BY <3>2, <3>3, <2>1 DEF BitmapExacto, Marcados, Bloques
  <2>13. UnDuenio'
    <3>1. archivos'[f].bloques = m.bloques \o nuevos
      BY <2>9, <2>10
    <3>2. ASSUME NEW g \in DOMAIN archivos, NEW h \in DOMAIN archivos
          PROVE  /\ IsInjective(archivos'[g].bloques)
                 /\ g # h => ToSet(archivos'[g].bloques) \cap ToSet(archivos'[h].bloques) = {}
      <4>1. /\ IsInjective(archivos[g].bloques)
            /\ g # h => ToSet(archivos[g].bloques) \cap ToSet(archivos[h].bloques) = {}
        BY DEF InvFs, UnDuenio
      <4>2. CASE g = f /\ h = f
        BY <4>2, <2>8, <3>1
      <4>3. CASE g = f /\ h # f
        BY <4>1, <4>3, <2>7, <2>8, <2>9, <3>1 DEF m
      <4>4. CASE g # f /\ h = f
        BY <4>1, <4>4, <2>7, <2>8, <2>9, <3>1 DEF m
      <4>5. CASE g # f /\ h # f
        BY <4>1, <4>5, <2>9
      <4> QED BY <4>2, <4>3, <4>4, <4>5
    <3> QED BY <3>2, <2>9 DEF UnDuenio
  <2>14. TamanioJusto'
    <3>1. ASSUME NEW g \in DOMAIN archivos
          PROVE  Len(archivos'[g].bloques) =
                   IF Techo(archivos'[g].tamanio, TAMANIO_BLOQUES) = 0 THEN 1
                   ELSE Techo(archivos'[g].tamanio, TAMANIO_BLOQUES)
      <4>1. CASE g = f
        BY <4>1, <2>4, <2>8, <2>9, <2>10
      <4>2. CASE g # f
        BY <4>2, <2>9 DEF InvFs, TamanioJusto
      <4> QED BY <4>1, <4>2
    <3> QED BY <3>1, <2>9 DEF TamanioJusto
  <2>15. SinMarcados'
    <3>1. ASSUME NEW g \in DOMAIN archivos
          PROVE  ToSet(archivos'[g].bloques) \cap Marcados = {}
      <4>1. CASE g = f
        BY <4>1, <2>6, <2>8, <2>9, <2>10, <1>0 DEF InvFs, SinMarcados, m
      <4>2. CASE g # f
        BY <4>2, <2>9 DEF InvFs, SinMarcados
      <4> QED BY <4>1, <4>2
    <3>2. Marcados' = Marcados
      BY DEF Marcados, Bloques
    <3> QED BY <3>1, <3>2, <2>9 DEF SinMarcados
  <2> QED BY <2>9, <2>11, <2>12, <2>13, <2>14, <2>15 DEF InvFs
<1> QED BY <1>1, <1>2

\* Deleting a file frees its blocks and no other.
LEMMA BorrarInv ==
  ASSUME InvFs, NEW f, NEW v, Borrar(f, v)
  PROVE  InvFs'
<1>1. CASE UNCHANGED fs
  BY <1>1, IgualInv DEF fs
<1>2. CASE ~(UNCHANGED fs)
  <2>1. /\ f \in DOMAIN archivos
        /\ archivos' = [g \in DOMAIN archivos \ {f} |-> archivos[g]]
        /\ bitarray' = bitarray \ ToSet(archivos[f].bloques)
    BY <1>2 DEF Borrar, Existe
  <2>2. /\ DOMAIN archivos' = DOMAIN archivos \ {f}
        /\ \A g \in DOMAIN archivos' : g \in DOMAIN archivos /\ archivos'[g] = archivos[g]
    BY <2>1
  <2>3. TiposFs'
    <3>1. \A g \in DOMAIN archivos' : archivos'[g] \in Metadata
      BY <2>2, MetadataTipo DEF InvFs
    <3>2. archivos' \in [DOMAIN archivos' -> Metadata]
      BY <3>1, <2>1, <2>2
    <3> QED BY <3>2, <2>1, <2>2 DEF InvFs, TiposFs, Metadata, Bloques
  <2>4. UnDuenio'
    BY <2>2 DEF InvFs, UnDuenio
  <2>5. TamanioJusto'
    BY <2>2 DEF InvFs, TamanioJusto
  <2>6. BitmapExacto'
    <3> DEFINE Juntos == UNION {ToSet(archivos'[g].bloques) : g \in DOMAIN archivos'}
               suyos == ToSet(archivos[f].bloques)
    <3>1. Marcados \cap suyos = {} /\ Marcados' = Marcados
      BY <2>1 DEF InvFs, SinMarcados, Marcados, Bloques
    <3>2. \A g \in DOMAIN archivos' : ToSet(archivos'[g].bloques) \cap suyos = {}
      BY <2>1, <2>2 DEF InvFs, UnDuenio
    <3>3. Juntos = DeArchivos \ suyos
      <4>1. ASSUME NEW x \in Juntos PROVE x \in DeArchivos /\ x \notin suyos
        BY <2>2, <3>2 DEF DeArchivos
      <4>2. ASSUME NEW x \in DeArchivos, x \notin suyos PROVE x \in Juntos
        <5>1. PICK g \in DOMAIN archivos : x \in ToSet(archivos[g].bloques)
          BY DEF DeArchivos
        <5>2. g \in DOMAIN archivos'
          BY <4>2, <5>1, <2>2
        <5> QED BY <5>1, <5>2, <2>2
      <4> QED BY <4>1, <4>2
    <3>4. bitarray = Marcados \cup DeArchivos
      BY DEF InvFs, BitmapExacto, DeArchivos
    <3> HIDE DEF Juntos, suyos
    <3>5. bitarray \ suyos = Marcados \cup Juntos
      BY <3>1, <3>3, <3>4
    <3> QED BY <3>1, <3>5, <2>1 DEF BitmapExacto, Juntos, suyos
  <2>7. SinMarcados'
    BY <2>2 DEF InvFs, SinMarcados, Marcados, Bloques
  <2> QED BY <2>3, <2>4, <2>5, <2>6, <2>7 DEF InvFs
<1> QED BY <1>1, <1>2
-----------------------------------------------------------------------------
(* The tables of open files: types. *)

\* The place of the entry of a descriptor a table has.
LEMMA EntradaDeEs ==
  ASSUME TiposTablas, NEW p \in Procs, NEW fd, TieneFd(p, fd)
  PROVE  /\ tablas[p] \in Seq(EntradaDeTabla)
         /\ EntradaDe(p, fd) \in 1..Len(tablas[p])
         /\ Entrada(p, fd) \in EntradaDeTabla /\ Entrada(p, fd).fd = fd
         /\ Entrada(p, fd) \in ToSet(tablas[p])
<1> DEFINE I == {i \in 1..Len(tablas[p]) : tablas[p][i].fd = fd}
<1>1. tablas[p] \in Seq(EntradaDeTabla)
  BY DEF TiposTablas, TieneFd, Tabla
<1>2. EntradaDe(p, fd) = (IF I # {} THEN Min(I) ELSE 0) /\ EntradaDe(p, fd) # 0
  BY DEF EntradaDe, SelectInSeq, TieneFd
<1>3. I \subseteq Nat /\ I # {}
  BY <1>2
<1>4. EntradaDe(p, fd) \in I
  BY <1>2, <1>3, MinEs
<1> QED BY <1>1, <1>4, EnLista DEF Entrada

\* The first entry of a path in the global table.
LEMMA PrimeraDe ==
  ASSUME NEW g \in Seq(EntradaGlobal), NEW path,
         \E i \in 1..Len(g) : g[i].path = path
  PROVE  /\ SelectInSeq(g, LAMBDA e : e.path = path) \in 1..Len(g)
         /\ g[SelectInSeq(g, LAMBDA e : e.path = path)].path = path
<1> DEFINE I == {i \in 1..Len(g) : g[i].path = path}
           k == SelectInSeq(g, LAMBDA e : e.path = path)
<1>1. k = IF I # {} THEN Min(I) ELSE 0
  BY DEF SelectInSeq
<1>2. I \subseteq Nat /\ I # {}
  OBVIOUS
<1>3. k \in I
  BY <1>1, <1>2, MinEs
<1> QED BY <1>3

\* buscarIndiceEnTablaGlobal.
LEMMA UltimaDe ==
  ASSUME TiposTablas, NEW path
  PROVE  \/ /\ IndiceEnGlobal(path) = 0
            /\ \A i \in 1..Len(tablaArchivosGlobal) : tablaArchivosGlobal[i].path # path
         \/ /\ IndiceEnGlobal(path) \in 1..Len(tablaArchivosGlobal)
            /\ tablaArchivosGlobal[IndiceEnGlobal(path)].path = path
<1> DEFINE g == tablaArchivosGlobal
           k == IndiceEnGlobal(path)
           I == {i \in 1..Len(g) : g[i].path = path}
<1>1. k = IF I # {} THEN Max(I) ELSE 0
  BY DEF IndiceEnGlobal, SelectLastInSeq
<1>2. Len(g) \in Nat /\ I \subseteq 1..Len(g)
  BY LenProperties DEF TiposTablas
<1> HIDE DEF k, g
<1>3. CASE I = {}
  <2>1. k = 0
    BY <1>1, <1>3
  <2> QED BY <2>1, <1>3 DEF k, g
<1>4. CASE I # {}
  <2>1. k \in I
    BY <1>1, <1>2, <1>4, MaxEs
  <2> QED BY <2>1 DEF k, g
<1> QED BY <1>3, <1>4

\* aumentarOpenEnTablaGlobal takes the first entry of the path to the end.
LEMMA AumentarEs ==
  ASSUME NEW g \in Seq(EntradaGlobal), NEW path,
         \E i \in 1..Len(g) : g[i].path = path
  PROVE  /\ AumentarOpen(g, path) \in Seq(EntradaGlobal)
         /\ \E k \in 1..Len(g) :
              /\ g[k].path = path
              /\ AumentarOpen(g, path) =
                   Append(RemoveAt(g, k), [path |-> path, open |-> g[k].open + 1])
<1> DEFINE k == SelectInSeq(g, LAMBDA e : e.path = path)
           nueva == [path |-> path, open |-> g[k].open + 1]
<1>1. k \in 1..Len(g) /\ g[k].path = path
  BY PrimeraDe
<1>2. AumentarOpen(g, path) = Append(RemoveAt(g, k), [g[k] EXCEPT !.open = @ + 1])
  BY DEF AumentarOpen
<1> HIDE DEF k
<1>3. g[k] \in EntradaGlobal
  BY <1>1, EnLista
<1>4. [g[k] EXCEPT !.open = @ + 1] = nueva /\ nueva \in EntradaGlobal
  BY <1>1, <1>3 DEF EntradaGlobal
<1>5. RemoveAt(g, k) \in Seq(EntradaGlobal)
  BY <1>1, QuitaIndices
<1>6. Append(RemoveAt(g, k), nueva) \in Seq(EntradaGlobal)
  BY <1>4, <1>5, ListaAgrega
<1> QED BY <1>1, <1>2, <1>4, <1>6

\* actualizarIndicesGlobalesEnTablasProcesos corrects every entry of every table.
LEMMA ActualizarEs ==
  ASSUME NEW t \in [Procs -> Tabla], NEW indice \in Int
  PROVE  /\ Actualizar(t, indice) \in [Procs -> Tabla]
         /\ \A p \in Procs :
              /\ t[p] = Nadie => Actualizar(t, indice)[p] = Nadie
              /\ t[p] # Nadie =>
                   /\ t[p] \in Seq(EntradaDeTabla) /\ Actualizar(t, indice)[p] # Nadie
                   /\ Actualizar(t, indice)[p] =
                        [j \in DOMAIN t[p] |-> Corregida(t[p][j], indice)]
<1> DEFINE Baja(e) == IF e.globalFd > indice THEN [e EXCEPT !.globalFd = @ - 1] ELSE e
           a == [p \in Procs |-> IF t[p] = Nadie THEN Nadie
                                 ELSE [j \in DOMAIN t[p] |-> Baja(t[p][j])]]
<1>1. Actualizar(t, indice) = a
  BY DEF Actualizar
<1>2. ASSUME NEW e \in EntradaDeTabla
      PROVE  Baja(e) = Corregida(e, indice) /\ Corregida(e, indice) \in EntradaDeTabla
  <2>1. /\ e.fd \in Nat /\ e.flags \in SUBSET Permisos /\ e.globalFd \in Int /\ e.path \in Paths
        /\ e = [fd |-> e.fd, flags |-> e.flags, globalFd |-> e.globalFd, path |-> e.path]
    BY DEF EntradaDeTabla
  <2>2. Corregida(e, indice) \in EntradaDeTabla
    BY <2>1 DEF Corregida, EntradaDeTabla
  <2>3. CASE e.globalFd > indice
    <3>1. [e EXCEPT !.globalFd = @ - 1] =
            [fd |-> e.fd, flags |-> e.flags, globalFd |-> e.globalFd - 1, path |-> e.path]
      BY <2>1
    <3> QED BY <3>1, <2>2, <2>3 DEF Corregida
  <2>4. CASE ~(e.globalFd > indice)
    BY <2>1, <2>2, <2>4 DEF Corregida
  <2> QED BY <2>3, <2>4
<1>3. ASSUME NEW p \in Procs, t[p] # Nadie
      PROVE  /\ t[p] \in Seq(EntradaDeTabla) /\ a[p] # Nadie /\ a[p] \in Seq(EntradaDeTabla)
             /\ a[p] = [j \in DOMAIN t[p] |-> Corregida(t[p][j], indice)]
  <2>1. t[p] \in Seq(EntradaDeTabla)
    BY <1>3 DEF Tabla
  <2>2. \A j \in DOMAIN t[p] : t[p][j] \in EntradaDeTabla
    BY <2>1, EnLista
  <2>3. a[p] = [j \in DOMAIN t[p] |-> Baja(t[p][j])]
    BY <1>3
  <2> HIDE DEF a, Baja
  <2>4. a[p] = [j \in DOMAIN t[p] |-> Corregida(t[p][j], indice)]
    BY <1>2, <2>2, <2>3
  <2>5. a[p] \in [1..Len(t[p]) -> EntradaDeTabla] /\ Len(t[p]) \in Nat
    BY <1>2, <2>1, <2>2, <2>4, LenProperties
  <2>6. a[p] \in Seq(EntradaDeTabla)
    BY <2>5, SeqDef
  <2> QED BY <2>1, <2>4, <2>6, NadieSupuesto
<1>4. \A p \in Procs : t[p] = Nadie => a[p] = Nadie
  OBVIOUS
<1>5. a \in [Procs -> Tabla]
  <2>1. \A p \in Procs : a[p] \in Tabla
    BY <1>3, <1>4 DEF Tabla
  <2> QED BY <2>1
<1> HIDE DEF a
<1> QED BY <1>1, <1>3, <1>4, <1>5

\* The entries of p after a descriptor that it has is taken off.
LEMMA SinEntradaEs ==
  ASSUME TiposTablas, NEW p \in Procs, NEW fd, TieneFd(p, fd)
  PROVE  /\ SinEntrada(p, fd) \in Seq(EntradaDeTabla)
         /\ Rotada(p, fd) \in Seq(EntradaDeTabla)
<1>1. /\ tablas[p] \in Seq(EntradaDeTabla) /\ EntradaDe(p, fd) \in 1..Len(tablas[p])
      /\ Entrada(p, fd) \in EntradaDeTabla
  BY EntradaDeEs
<1>2. SinEntrada(p, fd) \in Seq(EntradaDeTabla)
  BY <1>1, QuitaIndices DEF SinEntrada
<1>3. Rotada(p, fd) \in Seq(EntradaDeTabla)
  BY <1>1, <1>2, ListaAgrega DEF Rotada
<1> QED BY <1>2, <1>3

\* disminuirOpenYVerificarExistenciaEntradaGlobal, when the position is in the table.
LEMMA DisminuirTipos ==
  ASSUME TiposTablas, NEW t \in [Procs -> Tabla], NEW i \in Int,
         i + 1 \in DOMAIN tablaArchivosGlobal, DisminuirOpen(i)
  PROVE  /\ tablaArchivosGlobal' \in Seq(EntradaGlobal)
         /\ Disminuir(t, i) \in [Procs -> Tabla]
<1> DEFINE g == tablaArchivosGlobal
<1>1. g \in Seq(EntradaGlobal) /\ i + 1 \in 1..Len(g) /\ g[i + 1] \in EntradaGlobal
  BY EnLista DEF TiposTablas
<1>2. Disminuir(t, i) \in [Procs -> Tabla]
  BY ActualizarEs DEF Disminuir
<1>3. CASE QuedaSinAbrir(i)
  BY <1>1, <1>2, <1>3, QuitaIndices DEF DisminuirOpen
<1>4. CASE ~QuedaSinAbrir(i)
  <2>1. g' = [g EXCEPT ![i + 1].open = @ - 1]
    BY <1>4 DEF DisminuirOpen
  <2>2. [g[i + 1] EXCEPT !.open = @ - 1] \in EntradaGlobal
    BY <1>1 DEF EntradaGlobal
  <2>3. g' = [g EXCEPT ![i + 1] = [g[i + 1] EXCEPT !.open = @ - 1]]
    BY <2>1
  <2>4. g' \in Seq(EntradaGlobal)
    BY <2>2, <2>3, <1>1, ExceptSeq
  <2> QED BY <1>2, <2>4
<1> QED BY <1>3, <1>4

\* abrirArchivo leaves well-formed tables: the new entry at the end of those of
\* the process, the global table with the open of the file one higher.
LEMMA RegistraTipos ==
  ASSUME TiposTablas, NEW g \in Seq(EntradaGlobal), NEW i \in Int, Registra(g, i),
         \E k \in 1..Len(g) : g[k].path = actual.path,
         actual.pid \in Procs, actual.path \in Paths, actual.flags \in SUBSET Permisos
  PROVE  /\ TiposTablas'
         /\ Previa(actual.pid) \in Seq(EntradaDeTabla)
         /\ NuevaEntrada(Previa(actual.pid), i) \in EntradaDeTabla
         /\ tablas' = [tablas EXCEPT ![actual.pid] =
              Append(Previa(actual.pid), NuevaEntrada(Previa(actual.pid), i))]
         /\ tablaArchivosGlobal' = AumentarOpen(g, actual.path)
<1> DEFINE t == Previa(actual.pid)
<1>1. t \in Seq(EntradaDeTabla)
  BY DEF Previa, TiposTablas, Tabla
<1>2. /\ tablas' = [tablas EXCEPT ![actual.pid] = Append(t, NuevaEntrada(t, i))]
      /\ tablaArchivosGlobal' = AumentarOpen(g, actual.path)
  BY DEF Registra, Previa, NuevaEntrada
<1> HIDE DEF t
<1>3. Len(t) + 3 \in Nat
  BY <1>1, LenProperties
<1>4. NuevaEntrada(t, i) \in EntradaDeTabla
  BY <1>3 DEF NuevaEntrada, EntradaDeTabla
<1>5. Append(t, NuevaEntrada(t, i)) \in Seq(EntradaDeTabla)
  BY <1>1, <1>4, ListaAgrega
<1>6. tablaArchivosGlobal' \in Seq(EntradaGlobal)
  BY <1>2, AumentarEs
<1>7. tablas' \in [Procs -> Tabla]
  BY <1>2, <1>5 DEF TiposTablas, Tabla
<1>8. TiposTablas'
  BY <1>6, <1>7 DEF TiposTablas, Tabla, EntradaDeTabla, EntradaGlobal, Permisos
<1> QED BY <1>1, <1>2, <1>4, <1>8 DEF t

\* Nothing of the request changes.
LEMMA PedidoIgual ==
  ASSUME Pedido, UNCHANGED <<actual, fase, respuesta>>, archivos' = archivos
  PROVE  Pedido'
BY DEF Pedido, Existe, Permisos

\* The thread is done with the request.
LEMMA PedidoNinguno ==
  ASSUME NEW p, NEW r, Responde(p, r)
  PROVE  Pedido' /\ fase' = "espera"
BY DEF Responde, Pedido

\* The tables of the Kernel do not change.
LEMMA TablasIgual ==
  ASSUME TiposTablas, UNCHANGED tablasKernel
  PROVE  TiposTablas'
BY DEF TiposTablas, tablasKernel, Tabla, EntradaDeTabla, EntradaGlobal, Permisos

\* The types of the tables need only be shown of each.
LEMMA TablasTipos ==
  ASSUME tablas' \in [Procs -> Tabla], tablaArchivosGlobal' \in Seq(EntradaGlobal)
  PROVE  TiposTablas'
BY DEF TiposTablas, Tabla, EntradaDeTabla, EntradaGlobal, Permisos

\* The FileSystem answers.
LEMMA FileSystemTipos ==
  ASSUME IInvFs, FileSystem
  PROVE  IInvFs'
<1>1. PICK v \in {0, 1} : Atiende(v) /\ respuesta' = v
  BY DEF FileSystem
<1>2. /\ UNCHANGED <<actual, fase, tablasKernel>> /\ respuesta = Nadie
      /\ respuesta' \in {0, 1} /\ respuesta' # Nadie
  BY <1>1, NadieSupuesto DEF FileSystem
<1>3. TiposTablas'
  BY <1>2, TablasIgual DEF IInvFs
<1>4. Pedido'
  <2>1. ASSUME fase = "valida", v = 0 PROVE ~Existe(actual.path)'
    BY <1>1, <1>2, <2>1 DEF Atiende, Existe, fs
  <2> QED BY <1>1, <1>2, <2>1 DEF IInvFs, Pedido, Permisos
<1>5. InvFs'
  <2>1. CASE UNCHANGED fs
    BY <2>1, IgualInv DEF IInvFs, fs
  <2>2. CASE fase = "crea" /\ Crear(actual.path, v)
    BY <1>2, <2>2, CrearInv DEF IInvFs, Pedido
  <2>3. CASE fase = "guarda" /\ Guardar(actual.path, actual.n, v)
    BY <2>3, GuardarInv DEF IInvFs, Pedido
  <2>4. CASE fase = "borra" /\ Borrar(actual.path, v)
    BY <2>4, BorrarInv DEF IInvFs
  <2> QED BY <1>1, <2>1, <2>2, <2>3, <2>4 DEF Atiende
<1> QED BY <1>3, <1>4, <1>5 DEF IInvFs

\* What AbreExistente and AbreCreado give Registra.
LEMMA NuevaGlobalEs ==
  ASSUME TiposTablas, actual.path \in Paths
  PROVE  /\ NuevaGlobal \in Seq(EntradaGlobal)
         /\ Len(NuevaGlobal) = Len(tablaArchivosGlobal) + 1
         /\ Len(tablaArchivosGlobal) \in Nat
         /\ \A k \in 1..Len(tablaArchivosGlobal) : NuevaGlobal[k] = tablaArchivosGlobal[k]
         /\ NuevaGlobal[Len(NuevaGlobal)] = [path |-> actual.path, open |-> 0]
         /\ Len(NuevaGlobal) \in 1..Len(NuevaGlobal)
<1> DEFINE g == tablaArchivosGlobal
           e == [path |-> actual.path, open |-> 0]
<1>1. g \in Seq(EntradaGlobal) /\ e \in EntradaGlobal
  BY DEF TiposTablas, EntradaGlobal
<1>2. Len(g) \in Nat
  BY <1>1, LenProperties
<1> HIDE DEF g, e
<1>3. /\ Append(g, e) \in Seq(EntradaGlobal) /\ Len(Append(g, e)) = Len(g) + 1
      /\ \A k \in 1..Len(g) : Append(g, e)[k] = g[k]
      /\ Append(g, e)[Len(g) + 1] = e
  BY <1>1, AppendProperties
<1> QED BY <1>2, <1>3 DEF NuevaGlobal, g, e

\* abrirArchivo, of a file there is or of the one just created.
LEMMA AbreTipos ==
  ASSUME IInvFs, AbreExistente \/ AbreCreado
  PROVE  IInvFs' /\ archivos' = archivos
<1>0. fase \in {"valida", "crea"} /\ UNCHANGED fs
  BY DEF AbreExistente, AbreCreado
<1>1. actual.pid \in Procs /\ actual.path \in Paths /\ actual.flags \in SUBSET Permisos
  BY <1>0 DEF IInvFs, Pedido
<1>2. InvFs' /\ archivos' = archivos
  BY <1>0, IgualInv DEF IInvFs, fs
<1>3. CASE Registra(NuevaGlobal, IndiceNuevo(actual.path))
  <2>1. \E k \in 1..Len(NuevaGlobal) : NuevaGlobal[k].path = actual.path
    BY <1>1, NuevaGlobalEs DEF IInvFs
  <2>2. TiposTablas'
    <3>1. IndiceNuevo(actual.path) \in Int /\ NuevaGlobal \in Seq(EntradaGlobal)
      BY <1>1, NuevaGlobalEs DEF IInvFs, IndiceNuevo
    <3> QED BY <1>1, <1>3, <2>1, <3>1, RegistraTipos DEF IInvFs
  <2>3. Pedido'
    BY <1>3, PedidoNinguno DEF Registra
  <2> QED BY <1>2, <2>2, <2>3 DEF IInvFs
<1>4. CASE AbreExistente
  <2> DEFINE i == IndiceEnGlobal(actual.path)
  <2>1. \/ i = 0
        \/ i \in 1..Len(tablaArchivosGlobal) /\ tablaArchivosGlobal[i].path = actual.path
    BY UltimaDe DEF IInvFs
  <2>2. CASE i = 0
    BY <1>3, <1>4, <2>2 DEF AbreExistente
  <2>3. CASE i # 0
    <3>1. Registra(tablaArchivosGlobal, i - 1)
      BY <1>4, <2>3 DEF AbreExistente
    <3> HIDE DEF i
    <3>2. i - 1 \in Int
      BY <2>1, <2>3
    <3>3. tablaArchivosGlobal \in Seq(EntradaGlobal)
      BY DEF IInvFs, TiposTablas
    <3>4. TiposTablas'
      BY <1>1, <2>1, <2>3, <3>1, <3>2, <3>3, RegistraTipos DEF IInvFs
    <3>5. Pedido'
      BY <3>1, PedidoNinguno DEF Registra
    <3> QED BY <1>2, <3>4, <3>5 DEF IInvFs
  <2> QED BY <2>2, <2>3
<1>5. CASE AbreCreado
  <2>1. CASE Responde(actual.pid, 2) /\ UNCHANGED tablasKernel
    <3>1. Pedido'
      BY <2>1, PedidoNinguno
    <3>2. TiposTablas'
      BY <2>1, TablasIgual DEF IInvFs
    <3> QED BY <1>2, <3>1, <3>2 DEF IInvFs
  <2> QED BY <1>3, <1>5, <2>1 DEF AbreCreado
<1> QED BY <1>4, <1>5

\* The position of an entry that is in range.
LEMMA AbiertoEs ==
  ASSUME TiposTablas, NEW p \in Procs, NEW fd, TieneFd(p, fd), EnRango(p, fd)
  PROVE  /\ Entrada(p, fd).globalFd \in Int
         /\ Entrada(p, fd).globalFd + 1 \in DOMAIN tablaArchivosGlobal
         /\ Abierto(p, fd) \in Paths
<1>1. Entrada(p, fd).globalFd \in Int
  BY EntradaDeEs DEF EntradaDeTabla
<1>2. tablaArchivosGlobal[Entrada(p, fd).globalFd + 1] \in EntradaGlobal
  BY EnLista DEF TiposTablas, EnRango
<1> QED BY <1>1, <1>2 DEF EnRango, Abierto, EntradaGlobal

\* cerrarArchivo and borrarArchivo of a file that is open.
LEMMA QuitaTipos ==
  ASSUME TiposTablas, NEW p \in Procs, NEW fd, TieneFd(p, fd), EnRango(p, fd),
         DisminuirOpen(Entrada(p, fd).globalFd)
  PROVE  /\ tablaArchivosGlobal' \in Seq(EntradaGlobal)
         /\ Disminuir([tablas EXCEPT ![p] = SinEntrada(p, fd)], Entrada(p, fd).globalFd)
              \in [Procs -> Tabla]
<1>1. [tablas EXCEPT ![p] = SinEntrada(p, fd)] \in [Procs -> Tabla]
  BY SinEntradaEs DEF TiposTablas, Tabla
<1> QED BY <1>1, AbiertoEs, DisminuirTipos

\* An address that is not one stops the Kernel.
LEMMA RompeTipos ==
  ASSUME IInvFs, NEW h, Rompe(h)
  PROVE  IInvFs'
<1>1. InvFs' /\ archivos' = archivos
  BY IgualInv DEF IInvFs, Rompe, fs
<1> QED BY <1>1, PedidoIgual, TablasIgual DEF IInvFs, Rompe

\* cerrarArchivo.
LEMMA CierraTipos ==
  ASSUME IInvFs, NEW p \in Procs, NEW fd, Cierra(p, fd)
  PROVE  IInvFs'
<1>0. TiposTablas /\ Pedido /\ InvFs
  BY DEF IInvFs
<1>1. CASE \E h : Rompe(h)
  BY <1>1, RompeTipos
<1>2. CASE Responde(p, 0) /\ UNCHANGED <<fs, tablasKernel>>
  <2>1. Pedido' /\ TiposTablas'
    BY <1>0, <1>2, PedidoNinguno, TablasIgual
  <2> QED BY <1>0, <1>2, <2>1, IgualInv DEF IInvFs, fs
<1>3. CASE /\ TieneFd(p, fd) /\ EnRango(p, fd)
           /\ DisminuirOpen(Entrada(p, fd).globalFd)
           /\ tablas' = Disminuir([tablas EXCEPT ![p] = SinEntrada(p, fd)],
                                  Entrada(p, fd).globalFd)
           /\ Responde(p, 1) /\ UNCHANGED fs
  <2>1. TiposTablas'
    BY <1>0, <1>3, QuitaTipos, TablasTipos
  <2>2. Pedido'
    BY <1>3, PedidoNinguno
  <2> QED BY <1>0, <1>3, <2>1, <2>2, IgualInv DEF IInvFs, fs
<1> QED BY <1>1, <1>2, <1>3 DEF Cierra

\* escribirArchivo and leerArchivo, up to the message to the FileSystem.
LEMMA AccedeTipos ==
  ASSUME IInvFs, NEW p \in Procs, NEW fd, NEW n, NEW permiso, NEW f,
         (f = "guarda" /\ n \in Tamanios) \/ f = "obtiene",
         Accede(p, fd, n, permiso, f)
  PROVE  IInvFs'
<1>0. TiposTablas /\ Pedido /\ InvFs
  BY DEF IInvFs
<1>1. CASE \E h : Rompe(h)
  BY <1>1, RompeTipos
<1>2. CASE /\ Puede(p, fd, permiso) /\ EnRango(p, fd)
           /\ tablas' = [tablas EXCEPT ![p] = Rotada(p, fd)]
           /\ Consulta(p, Abierto(p, fd), {}, n, f)
           /\ UNCHANGED <<fs, tablaArchivosGlobal>>
  <2>1. TieneFd(p, fd) /\ EnRango(p, fd)
    BY <1>2 DEF Puede
  <2>2. Rotada(p, fd) \in Seq(EntradaDeTabla) /\ Abierto(p, fd) \in Paths
    BY <1>0, <2>1, SinEntradaEs, AbiertoEs
  <2>3. TiposTablas'
    <3>1. tablas' \in [Procs -> Tabla]
      BY <1>0, <1>2, <2>2 DEF TiposTablas, Tabla
    <3>2. tablaArchivosGlobal' \in Seq(EntradaGlobal)
      BY <1>0, <1>2 DEF TiposTablas
    <3> QED BY <3>1, <3>2, TablasTipos
  <2>4. Pedido'
    <3>1. /\ actual'.pid = p /\ actual'.path = Abierto(p, fd) /\ actual'.n = n
          /\ fase' = f /\ respuesta' = Nadie
      BY <1>2 DEF Consulta
    <3>2. Abierto(p, fd) \in Paths
      BY <2>2
    <3> HIDE DEF Pedido
    <3> QED BY <3>1, <3>2, NadieSupuesto DEF Pedido
  <2> QED BY <1>0, <1>2, <2>3, <2>4, IgualInv DEF IInvFs, fs
<1> QED BY <1>1, <1>2 DEF Accede

\* borrarArchivo, up to the message to the FileSystem.
LEMMA BorraTipos ==
  ASSUME IInvFs, NEW p \in Procs, NEW fd, Borra(p, fd)
  PROVE  IInvFs'
<1>0. TiposTablas /\ Pedido /\ InvFs
  BY DEF IInvFs
<1>1. CASE \E h : Rompe(h)
  BY <1>1, RompeTipos
<1>2. CASE /\ TieneFd(p, fd) /\ EnRango(p, fd)
           /\ Consulta(p, Abierto(p, fd), {}, fd, "borra")
           /\ DisminuirOpen(Entrada(p, fd).globalFd)
           /\ tablas' = Actualizar(
                Disminuir([tablas EXCEPT ![p] = SinEntrada(p, fd)], Entrada(p, fd).globalFd),
                Entrada(p, fd).globalFd)
           /\ UNCHANGED fs
  <2>1. Entrada(p, fd).globalFd \in Int /\ Abierto(p, fd) \in Paths
    BY <1>0, <1>2, AbiertoEs
  <2>2. TiposTablas'
    <3>1. /\ tablaArchivosGlobal' \in Seq(EntradaGlobal)
          /\ Disminuir([tablas EXCEPT ![p] = SinEntrada(p, fd)], Entrada(p, fd).globalFd)
               \in [Procs -> Tabla]
      BY <1>0, <1>2, QuitaTipos
    <3>2. tablas' \in [Procs -> Tabla]
      BY <1>2, <2>1, <3>1, ActualizarEs
    <3> QED BY <3>1, <3>2, TablasTipos
  <2>3. Pedido'
    <3>1. /\ actual'.pid = p /\ actual'.path = Abierto(p, fd)
          /\ fase' = "borra" /\ respuesta' = Nadie
      BY <1>2 DEF Consulta
    <3> QED BY <3>1, <2>1, NadieSupuesto DEF Pedido
  <2> QED BY <1>0, <1>2, <2>2, <2>3, IgualInv DEF IInvFs, fs
<1> QED BY <1>1, <1>2 DEF Borra

\* moverCursor.
LEMMA MueveTipos ==
  ASSUME IInvFs, NEW p \in Procs, NEW fd, Mueve(p, fd)
  PROVE  IInvFs'
<1>0. TiposTablas /\ Pedido /\ InvFs
  BY DEF IInvFs
<1>1. CASE \E h : Rompe(h)
  BY <1>1, RompeTipos
<1>2. CASE /\ tablas' = [tablas EXCEPT ![p] = IF TieneFd(p, fd) THEN Rotada(p, fd) ELSE Nadie]
           /\ Responde(p, IF TieneFd(p, fd) THEN 1 ELSE 0)
           /\ UNCHANGED <<fs, tablaArchivosGlobal>>
  <2>1. TiposTablas'
    <3>1. TieneFd(p, fd) => Rotada(p, fd) \in Seq(EntradaDeTabla)
      BY <1>0, SinEntradaEs
    <3>2. (IF TieneFd(p, fd) THEN Rotada(p, fd) ELSE Nadie) \in Tabla
      BY <3>1 DEF Tabla
    <3>3. tablas' \in [Procs -> Tabla]
      BY <1>0, <1>2, <3>2 DEF TiposTablas
    <3>4. tablaArchivosGlobal' \in Seq(EntradaGlobal)
      BY <1>0, <1>2 DEF TiposTablas
    <3> QED BY <3>3, <3>4, TablasTipos
  <2>2. Pedido'
    BY <1>2, PedidoNinguno
  <2> QED BY <1>0, <1>2, <2>1, <2>2, IgualInv DEF IInvFs, fs
<1> QED BY <1>1, <1>2 DEF Mueve

\* The actions that touch neither the tables nor the FileSystem.
LEMMA OtrasTipos ==
  ASSUME IInvFs,
         \/ \E p \in Procs : Pide(p) \/ Valida(p)
         \/ AbreInexistente \/ TrasAcceder \/ TrasBorrar
  PROVE  IInvFs'
<1>0. TiposTablas /\ Pedido /\ InvFs
  BY DEF IInvFs
<1>1. CASE \E h : Rompe(h)
  BY <1>1, RompeTipos
<1>2. CASE ~(\E h : Rompe(h))
  <2>1. UNCHANGED <<fs, tablasKernel>>
    BY <1>2 DEF Pide, Valida, AbreInexistente, TrasAcceder, TrasBorrar
  <2>2. InvFs' /\ TiposTablas' /\ archivos' = archivos
    BY <1>0, <2>1, IgualInv, TablasIgual DEF fs
  <2>3. Pedido'
    <3>1. CASE \E p \in Procs : Pide(p)
      BY <1>0, <2>2, <3>1, PedidoIgual DEF Pide
    <3>2. CASE \E p \in Procs : Valida(p)
      <4>1. PICK p \in Procs, path \in Paths, b \in Banderas, resto \in Basura :
              Consulta(p, path, b \cup resto, 0, "valida")
        BY <3>2 DEF Valida
      <4>2. b \cup resto \in SUBSET Permisos
        BY DEF Permisos
      <4> QED BY <4>1, <4>2, NadieSupuesto DEF Pedido, Consulta, Permisos
    <3>3. CASE AbreInexistente
      <4>1. /\ fase = "valida" /\ respuesta = 0
            /\ Consulta(actual.pid, actual.path, actual.flags, 0, "crea")
        BY <1>2, <3>3 DEF AbreInexistente
      <4>2. /\ ~Existe(actual.path) /\ actual.pid \in Procs /\ actual.path \in Paths
            /\ actual.flags \in SUBSET Permisos
        BY <1>0, <4>1 DEF Pedido
      <4> QED BY <2>2, <4>1, <4>2, NadieSupuesto DEF Pedido, Consulta, Permisos, Existe
    <3>4. CASE TrasAcceder \/ TrasBorrar
      BY <3>4, PedidoNinguno DEF TrasAcceder, TrasBorrar
    <3> QED BY <3>1, <3>2, <3>3, <3>4
  <2> QED BY <2>2, <2>3 DEF IInvFs
<1> QED BY <1>1, <1>2

\* The Kernel with no table and the FileSystem with no file.
LEMMA InicialTipos == InitArchivos => IInvFs
<1> SUFFICES ASSUME InitArchivos PROVE IInvFs
  OBVIOUS
<1>1. archivos = <<>> /\ DOMAIN archivos = {} /\ bitarray = Marcados
  BY DEF InitArchivos, Init
<1>2. InvFs
  <2>1. TiposFs
    BY <1>1 DEF TiposFs, Marcados
  <2> QED BY <1>1, <2>1 DEF InvFs, BitmapExacto, UnDuenio, SinMarcados, TamanioJusto
<1>3. Pedido
  BY DEF InitArchivos, Pedido
<1>4. TiposTablas
  BY DEF InitArchivos, TiposTablas, Tabla
<1> QED BY <1>2, <1>3, <1>4 DEF IInvFs

\* Every action keeps the files, the bitmap and the types of the tables.
LEMMA PasoTipos ==
  ASSUME IInvFs, NextArchivos
  PROVE  IInvFs'
<1>1. CASE FileSystem
  BY <1>1, FileSystemTipos
<1>2. CASE \E p \in Procs, fd \in Descriptores : Cierra(p, fd)
  BY <1>2, CierraTipos
<1>3. CASE \E p \in Procs, fd \in Descriptores : Escribe(p, fd) \/ Lee(p, fd)
  BY <1>3, AccedeTipos DEF Escribe, Lee
<1>4. CASE \E p \in Procs, fd \in Descriptores : Borra(p, fd)
  BY <1>4, BorraTipos
<1>5. CASE \E p \in Procs, fd \in Descriptores : Mueve(p, fd)
  BY <1>5, MueveTipos
<1>6. CASE AbreExistente \/ AbreCreado
  BY <1>6, AbreTipos
<1>7. CASE \/ \E p \in Procs : Pide(p) \/ Valida(p)
           \/ AbreInexistente \/ TrasAcceder \/ TrasBorrar
  BY <1>7, OtrasTipos
<1> QED BY <1>1, <1>2, <1>3, <1>4, <1>5, <1>6, <1>7 DEF NextArchivos, CapaFs

\* So does a step in which nothing of these moves.
LEMMA QuietoTipos ==
  ASSUME IInvFs, UNCHANGED vars
  PROVE  IInvFs'
<1>1. /\ UNCHANGED <<actual, fase, respuesta>> /\ UNCHANGED tablasKernel
      /\ archivos' = archivos /\ bitarray' = bitarray
  BY DEF vars, fs
<1> QED BY <1>1, IgualInv, PedidoIgual, TablasIgual DEF IInvFs

\* The FileSystem's files, its bitmap and the types of the tables, whatever the
\* programs ask.
THEOREM FileSystemCorrecto == SpecArchivos => []IInvFs
<1>1. InitArchivos => IInvFs
  BY InicialTipos
<1>2. IInvFs /\ [NextArchivos]_vars => IInvFs'
  BY PasoTipos, QuietoTipos
<1> QED BY <1>1, <1>2, PTL DEF SpecArchivos

\* The bits set in the bitmap are those main() marks and those of the blocks of
\* the files, whatever the programs ask and whoever of them dies.
THEOREM BitmapSiempreExacto == SpecArchivos => []BitmapExacto
<1>1. IInvFs => BitmapExacto
  BY DEF IInvFs, InvFs
<1> QED BY <1>1, FileSystemCorrecto, PTL

-----------------------------------------------------------------------------
(* The tables in order, while files are used one at a time. *)

\* The entries of every process are the same, in any order.
LEMMA TablasQuietas ==
  ASSUME IInvFs, TablasEnOrden, UNCHANGED tablaArchivosGlobal,
         \A p \in Procs : /\ EntradasDe(p)' = EntradasDe(p)
                          /\ tablas'[p] # Nadie => IsInjective(tablas'[p]),
         \A f \in DOMAIN archivos : f \in DOMAIN archivos'
  PROVE  TablasEnOrden'
<1>1. \A p \in Procs : \A e \in EntradasDe(p)' : Apunta(e)'
  BY DEF TablasEnOrden, Apunta
<1>2. UnaEntrada'
  BY DEF TablasEnOrden, UnaEntrada
<1>3. GlobalVigente'
  BY DEF TablasEnOrden, GlobalVigente, Existe
<1> QED BY <1>1, <1>2, <1>3 DEF TablasEnOrden

\* The tables do not change and no file is deleted.
LEMMA TablasIguales ==
  ASSUME IInvFs, TablasEnOrden, UNCHANGED tablasKernel,
         \A f \in DOMAIN archivos : f \in DOMAIN archivos'
  PROVE  TablasEnOrden'
<1>1. UNCHANGED tablaArchivosGlobal /\ tablas' = tablas
  BY DEF tablasKernel
<1>2. \A p \in Procs : /\ EntradasDe(p)' = EntradasDe(p)
                       /\ tablas'[p] # Nadie => IsInjective(tablas'[p])
  BY <1>1 DEF EntradasDe, TablasEnOrden, UnaEntrada
<1> QED BY <1>1, <1>2, TablasQuietas

\* The entry of a descriptor goes to the end of its table.
LEMMA TablaRotada ==
  ASSUME IInvFs, TablasEnOrden, NEW p \in Procs, NEW fd, TieneFd(p, fd),
         tablas' = [tablas EXCEPT ![p] = Rotada(p, fd)],
         UNCHANGED tablaArchivosGlobal, archivos' = archivos
  PROVE  TablasEnOrden'
<1> DEFINE t == tablas[p]
           i == EntradaDe(p, fd)
<1>1. t \in Seq(EntradaDeTabla) /\ t # Nadie /\ i \in 1..Len(t) /\ IsInjective(t)
  BY EntradaDeEs DEF IInvFs, TieneFd, TablasEnOrden, UnaEntrada
<1>2. Rotada(p, fd) = Append(RemoveAt(t, i), t[i])
  BY DEF Rotada, SinEntrada, Entrada
<1> HIDE DEF t, i
<1>3. /\ RemoveAt(t, i) \in Seq(EntradaDeTabla) /\ ToSet(RemoveAt(t, i)) = ToSet(t) \ {t[i]}
      /\ IsInjective(RemoveAt(t, i)) /\ t[i] \in EntradaDeTabla /\ t[i] \in ToSet(t)
  BY <1>1, ListaQuita
<1>4. /\ Rotada(p, fd) \in Seq(EntradaDeTabla)
      /\ ToSet(Rotada(p, fd)) = ToSet(t) /\ IsInjective(Rotada(p, fd))
  <2>1. t[i] \notin ToSet(RemoveAt(t, i))
    BY <1>3
  <2>2. /\ Append(RemoveAt(t, i), t[i]) \in Seq(EntradaDeTabla)
        /\ ToSet(Append(RemoveAt(t, i), t[i])) = ToSet(RemoveAt(t, i)) \cup {t[i]}
        /\ IsInjective(Append(RemoveAt(t, i), t[i]))
    BY <1>3, <2>1, ListaAgrega
  <2> QED BY <1>2, <1>3, <2>2
<1>5. tablas'[p] = Rotada(p, fd) /\ \A q \in Procs : q # p => tablas'[q] = tablas[q]
  BY DEF IInvFs, TiposTablas
<1>6. Rotada(p, fd) # Nadie
  BY <1>4, NadieSupuesto
<1>7. ASSUME NEW q \in Procs
      PROVE  /\ EntradasDe(q)' = EntradasDe(q)
             /\ tablas'[q] # Nadie => IsInjective(tablas'[q])
  <2>1. CASE q = p
    BY <2>1, <1>1, <1>4, <1>5, <1>6 DEF EntradasDe, t
  <2>2. CASE q # p
    BY <2>2, <1>5 DEF EntradasDe, TablasEnOrden, UnaEntrada
  <2> QED BY <2>1, <2>2
<1> QED BY <1>7, TablasQuietas

\* The last of the entries of a table of paths, when no other is of that path,
\* is the one that aumentarOpen takes: the others stay where they are.
LEMMA AumentarNueva ==
  ASSUME TiposTablas, actual.path \in Paths,
         \A i \in DOMAIN tablaArchivosGlobal : tablaArchivosGlobal[i].path # actual.path
  PROVE  LET g == tablaArchivosGlobal
             a == AumentarOpen(NuevaGlobal, actual.path)
         IN  /\ DOMAIN a = 1..Len(g) + 1 /\ DOMAIN g = 1..Len(g) /\ Len(g) \in Nat
             /\ \A k \in DOMAIN g : a[k] = g[k]
             /\ a[Len(g) + 1] = [path |-> actual.path, open |-> 1]
<1> DEFINE g == tablaArchivosGlobal
           n == Len(g)
           h == NuevaGlobal
           a == AumentarOpen(h, actual.path)
           u == [path |-> actual.path, open |-> 0]
<1>1. /\ h \in Seq(EntradaGlobal) /\ Len(h) = n + 1 /\ n \in Nat
      /\ \A k \in 1..n : h[k] = g[k]
      /\ h[n + 1] = u /\ n + 1 \in 1..Len(h) /\ DOMAIN g = 1..n
  BY NuevaGlobalEs, LenProperties DEF TiposTablas
<1>2. h[n + 1].path = actual.path /\ \A k \in 1..n : h[k].path # actual.path
  BY <1>1
<1> HIDE DEF g, h, n
<1>3. PICK k \in 1..Len(h) :
        /\ h[k].path = actual.path
        /\ a = Append(RemoveAt(h, k), [path |-> actual.path, open |-> h[k].open + 1])
  <2>1. \E k \in 1..Len(h) : h[k].path = actual.path
    BY <1>1, <1>2
  <2> QED BY <1>1, <2>1, AumentarEs
<1>4. k = n + 1
  <2>1. k \in 1..n + 1 /\ k \notin 1..n
    BY <1>1, <1>2, <1>3
  <2> QED BY <2>1, <1>1
<1> DEFINE r == RemoveAt(h, n + 1)
           f == [path |-> actual.path, open |-> h[n + 1].open + 1]
<1>5. /\ r \in Seq(EntradaGlobal) /\ Len(r) = n
      /\ \A j \in 1..n : r[j] = h[j]
  <2>1. /\ r \in Seq(EntradaGlobal) /\ Len(r) = Len(h) - 1
        /\ \A j \in 1..Len(h) - 1 : r[j] = IF j < n + 1 THEN h[j] ELSE h[j + 1]
    BY <1>1, QuitaIndices
  <2>2. Len(h) - 1 = n /\ \A j \in 1..n : j < n + 1
    BY <1>1
  <2> QED BY <2>1, <2>2
<1>6. f = [path |-> actual.path, open |-> 1] /\ f \in EntradaGlobal
  BY <1>1 DEF EntradaGlobal
<1>7. a = Append(r, f)
  BY <1>3, <1>4
<1> HIDE DEF a, r, f
<1>8. /\ Append(r, f) \in Seq(EntradaGlobal) /\ Len(Append(r, f)) = n + 1
      /\ \A j \in 1..n : Append(r, f)[j] = r[j]
      /\ Append(r, f)[n + 1] = f
  BY <1>5, <1>6, AppendProperties
<1>9. DOMAIN Append(r, f) = 1..n + 1
  BY <1>8, LenProperties
<1>10. /\ DOMAIN a = 1..n + 1 /\ DOMAIN g = 1..n /\ n \in Nat
       /\ \A j \in DOMAIN g : a[j] = g[j]
       /\ a[n + 1] = [path |-> actual.path, open |-> 1]
  BY <1>1, <1>5, <1>6, <1>7, <1>8, <1>9
<1> QED BY <1>10 DEF g, n, h, a

\* A file that nobody has open is opened.
LEMMA AbreEnOrden ==
  ASSUME IInvFs, TablasEnOrden, Registra(NuevaGlobal, IndiceNuevo(actual.path)),
         actual.pid \in Procs, actual.path \in Paths, actual.flags \in SUBSET Permisos,
         \A i \in DOMAIN tablaArchivosGlobal : tablaArchivosGlobal[i].path # actual.path,
         \A q \in Procs : \A e \in EntradasDe(q) : e.path # actual.path,
         Existe(actual.path), archivos' = archivos
  PROVE  TablasEnOrden'
<1>a. PICK p \in Procs : p = actual.pid
  OBVIOUS
<1> DEFINE g == tablaArchivosGlobal
           n == Len(g)
           a == AumentarOpen(NuevaGlobal, actual.path)
           t == Previa(p)
           e0 == NuevaEntrada(t, n)
<1>1. /\ DOMAIN a = 1..n + 1 /\ DOMAIN g = 1..n /\ n \in Nat
      /\ \A k \in DOMAIN g : a[k] = g[k]
      /\ a[n + 1] = [path |-> actual.path, open |-> 1]
  BY AumentarNueva DEF IInvFs
<1>2. /\ t \in Seq(EntradaDeTabla) /\ e0 \in EntradaDeTabla
      /\ tablas' = [tablas EXCEPT ![p] = Append(t, e0)] /\ g' = a
  <2>1. n \in Int /\ NuevaGlobal \in Seq(EntradaGlobal)
    BY <1>1, NuevaGlobalEs DEF IInvFs
  <2>2. \E k \in 1..Len(NuevaGlobal) : NuevaGlobal[k].path = actual.path
    BY NuevaGlobalEs DEF IInvFs
  <2>3. Registra(NuevaGlobal, n)
    BY DEF IndiceNuevo
  <2> QED BY <2>1, <2>2, <2>3, <1>a, RegistraTipos DEF IInvFs
<1>3. e0.path = actual.path /\ e0.globalFd = n
  BY DEF NuevaEntrada
<1>4. ToSet(t) = EntradasDe(p) /\ IsInjective(t)
  <2>1. CASE tablas[p] = Nadie
    <3>1. t = <<>>
      BY <2>1 DEF Previa
    <3>2. ToSet(<<>>) = {} /\ IsInjective(<<>>)
      BY DEF ToSet, IsInjective
    <3> QED BY <2>1, <3>1, <3>2 DEF EntradasDe
  <2>2. CASE tablas[p] # Nadie
    BY <2>2 DEF Previa, EntradasDe, TablasEnOrden, UnaEntrada
  <2> QED BY <2>1, <2>2
<1> HIDE DEF g, a, t, e0, n
<1>5. e0 \notin ToSet(t)
  BY <1>3, <1>4
<1>6. /\ Append(t, e0) \in Seq(EntradaDeTabla) /\ IsInjective(Append(t, e0))
      /\ ToSet(Append(t, e0)) = EntradasDe(p) \cup {e0} /\ Append(t, e0) # Nadie
  BY <1>2, <1>4, <1>5, ListaAgrega, NadieSupuesto
<1>7. /\ tablas'[p] = Append(t, e0) /\ \A q \in Procs : q # p => tablas'[q] = tablas[q]
  BY <1>2 DEF IInvFs, TiposTablas
<1>8. /\ EntradasDe(p)' = EntradasDe(p) \cup {e0}
      /\ \A q \in Procs : q # p => EntradasDe(q)' = EntradasDe(q)
  BY <1>6, <1>7 DEF EntradasDe
<1>9. \A q \in Procs : \A e \in EntradasDe(q)' :
        \/ e \in EntradasDe(q) /\ e # e0 /\ e.path # e0.path
        \/ e = e0 /\ q = p
  BY <1>3, <1>8
<1>10. ASSUME NEW q \in Procs, NEW e \in EntradasDe(q)' PROVE Apunta(e)'
  <2>1. CASE e \in EntradasDe(q)
    <3>1. e.globalFd + 1 \in DOMAIN g /\ g[e.globalFd + 1] = [path |-> e.path, open |-> 1]
      BY <2>1 DEF TablasEnOrden, Apunta, g
    <3>2. e.globalFd + 1 \in DOMAIN a /\ a[e.globalFd + 1] = g[e.globalFd + 1]
      BY <3>1, <1>1
    <3> QED BY <3>1, <3>2, <1>2 DEF Apunta, g
  <2>2. CASE e = e0
    <3>1. e.globalFd + 1 \in DOMAIN a /\ a[e.globalFd + 1] = [path |-> e.path, open |-> 1]
      BY <2>2, <1>1, <1>3
    <3> QED BY <3>1, <1>2 DEF Apunta, g
  <2> QED BY <1>9, <2>1, <2>2
<1>11. UnaEntrada'
  <2>1. ASSUME NEW q \in Procs, NEW r \in Procs,
               NEW e \in EntradasDe(q)', NEW d \in EntradasDe(r)', e.path = d.path
        PROVE  q = r /\ e = d
    <3>1. CASE e = e0 \/ d = e0
      BY <2>1, <3>1, <1>9
    <3>2. CASE e # e0 /\ d # e0
      <4>1. e \in EntradasDe(q) /\ d \in EntradasDe(r)
        BY <3>2, <1>9
      <4> QED BY <4>1, <2>1 DEF TablasEnOrden, UnaEntrada
    <3> QED BY <3>1, <3>2
  <2>2. ASSUME NEW q \in Procs, tablas'[q] # Nadie PROVE IsInjective(tablas'[q])
    <3>1. CASE q = p
      BY <3>1, <1>6, <1>7
    <3>2. CASE q # p
      BY <2>2, <3>2, <1>7 DEF TablasEnOrden, UnaEntrada
    <3> QED BY <3>1, <3>2
  <2>3. ASSUME NEW i \in DOMAIN a, NEW j \in DOMAIN a, a[i].path = a[j].path
        PROVE  i = j
    <3>1. \A k \in DOMAIN a : k \in DOMAIN g \/ k = n + 1
      BY <1>1
    <3>2. a[n + 1].path = actual.path
      BY <1>1
    <3>3. \A k \in DOMAIN g : a[k].path = g[k].path /\ g[k].path # actual.path
      BY <1>1 DEF g
    <3>4. \A k, l \in DOMAIN g : g[k].path = g[l].path => k = l
      BY DEF TablasEnOrden, UnaEntrada, g
    <3> QED BY <3>1, <3>2, <3>3, <3>4, <2>3
  <2> QED BY <2>1, <2>2, <2>3, <1>2 DEF UnaEntrada, g
<1>12. GlobalVigente'
  <2>1. ASSUME NEW i \in DOMAIN a
        PROVE  /\ a[i].path \in DOMAIN archivos
               /\ \E q \in Procs : \E e \in EntradasDe(q)' : e.path = a[i].path
    <3>1. CASE i \in DOMAIN g
      <4>1. a[i] = g[i]
        BY <3>1, <1>1
      <4>2. /\ g[i].path \in DOMAIN archivos
            /\ \E q \in Procs : \E e \in EntradasDe(q) : e.path = g[i].path
        BY <3>1 DEF TablasEnOrden, GlobalVigente, Existe, g
      <4> QED BY <4>1, <4>2, <1>8
    <3>2. CASE i \notin DOMAIN g
      <4>1. i = n + 1
        BY <3>2, <1>1
      <4>2. a[i].path = actual.path /\ e0 \in EntradasDe(p)'
        BY <4>1, <1>1, <1>8
      <4> QED BY <4>2, <1>3 DEF Existe
    <3> QED BY <3>1, <3>2
  <2> QED BY <2>1, <1>2 DEF GlobalVigente, Existe, g
<1> QED BY <1>10, <1>11, <1>12 DEF TablasEnOrden

\* A file that is open is closed: its entry of the global table goes, and the
\* positions of those after it are corrected.
LEMMA CierraEnOrden ==
  ASSUME IInvFs, TablasEnOrden, NEW p \in Procs, NEW fd, TieneFd(p, fd), EnRango(p, fd),
         DisminuirOpen(Entrada(p, fd).globalFd),
         tablas' = Disminuir([tablas EXCEPT ![p] = SinEntrada(p, fd)], Entrada(p, fd).globalFd),
         archivos' = archivos
  PROVE  TablasEnOrden'
<1> DEFINE g == tablaArchivosGlobal
           n == Len(g)
           e0 == Entrada(p, fd)
           m == e0.globalFd
           k0 == EntradaDe(p, fd)
           t == [tablas EXCEPT ![p] = SinEntrada(p, fd)]
           De(q) == IF t[q] = Nadie THEN {} ELSE ToSet(t[q])
<1>0. TiposTablas /\ g \in Seq(EntradaGlobal)
  BY DEF IInvFs, TiposTablas
<1>1. /\ tablas[p] \in Seq(EntradaDeTabla) /\ tablas[p] # Nadie /\ k0 \in 1..Len(tablas[p])
      /\ e0 \in EntradaDeTabla /\ e0 \in EntradasDe(p) /\ e0 = tablas[p][k0]
      /\ IsInjective(tablas[p]) /\ m \in Int
  BY <1>0, EntradaDeEs
     DEF TieneFd, TablasEnOrden, UnaEntrada, EntradasDe, Entrada, EntradaDeTabla
<1>2. m + 1 \in 1..n /\ g[m + 1] = [path |-> e0.path, open |-> 1] /\ n \in Nat
  BY <1>0, <1>1, LenProperties DEF TablasEnOrden, Apunta
<1>3. QuedaSinAbrir(m)
  BY <1>2 DEF QuedaSinAbrir
<1>4. g' = RemoveAt(g, m + 1) /\ tablas' = Actualizar(t, m)
  BY <1>3 DEF DisminuirOpen, Disminuir
<1> DEFINE r == RemoveAt(g, m + 1)
<1>5. /\ DOMAIN r = 1..n - 1 /\ DOMAIN g = 1..n
      /\ \A k \in 1..n - 1 : r[k] = IF k < m + 1 THEN g[k] ELSE g[k + 1]
  BY <1>0, <1>2, QuitaIndices
<1>6. /\ SinEntrada(p, fd) \in Seq(EntradaDeTabla)
      /\ ToSet(SinEntrada(p, fd)) = EntradasDe(p) \ {e0} /\ IsInjective(SinEntrada(p, fd))
  BY <1>1, ListaQuita DEF SinEntrada, EntradasDe
<1>7. /\ t \in [Procs -> Tabla] /\ t[p] = SinEntrada(p, fd) /\ t[p] # Nadie
      /\ \A q \in Procs : q # p => t[q] = tablas[q]
  BY <1>0, <1>6, NadieSupuesto DEF TiposTablas, Tabla
<1>8. /\ De(p) = EntradasDe(p) \ {e0} /\ \A q \in Procs : q # p => De(q) = EntradasDe(q)
      /\ \A q \in Procs : t[q] # Nadie => IsInjective(t[q]) /\ t[q] \in Seq(EntradaDeTabla)
      /\ \A q \in Procs : \A e \in De(q) : e \in EntradaDeTabla
  <2>1. \A q \in Procs : t[q] # Nadie => t[q] \in Seq(EntradaDeTabla)
    BY <1>7 DEF Tabla
  <2>2. \A q \in Procs : \A e \in De(q) : e \in EntradaDeTabla
    BY <2>1, EnLista
  <2> HIDE DEF t
  <2>3. De(p) = EntradasDe(p) \ {e0} /\ \A q \in Procs : q # p => De(q) = EntradasDe(q)
    BY <1>6, <1>7 DEF EntradasDe
  <2>4. \A q \in Procs : t[q] # Nadie => IsInjective(t[q])
    BY <1>6, <1>7 DEF TablasEnOrden, UnaEntrada
  <2> QED BY <2>1, <2>2, <2>3, <2>4
<1> HIDE DEF g, n, e0, m, k0, t, r, De
\* What is left of the tables are the entries of other files, corrected.
<1>9. \A q \in Procs : \A e \in De(q) : e \in EntradasDe(q) /\ e.path # e0.path
  <2> SUFFICES ASSUME NEW q \in Procs, NEW e \in De(q)
               PROVE  e \in EntradasDe(q) /\ e.path # e0.path
    OBVIOUS
  <2>1. e \in EntradasDe(q) /\ (q = p => e # e0)
    BY <1>8
  <2>2. e.path = e0.path => q = p /\ e = e0
    BY <2>1, <1>1 DEF TablasEnOrden, UnaEntrada
  <2> QED BY <2>1, <2>2
<1>10. \A q \in Procs : tablas'[q] = Nadie <=> t[q] = Nadie
  <2>1. \A q \in Procs : /\ t[q] = Nadie => Actualizar(t, m)[q] = Nadie
                         /\ t[q] # Nadie => Actualizar(t, m)[q] # Nadie
    BY <1>1, <1>7, ActualizarEs
  <2> QED BY <2>1, <1>4
<1>11. \A q \in Procs : t[q] # Nadie =>
         tablas'[q] = [j \in DOMAIN t[q] |-> Corregida(t[q][j], m)]
  <2>1. \A q \in Procs : t[q] # Nadie =>
          Actualizar(t, m)[q] = [j \in DOMAIN t[q] |-> Corregida(t[q][j], m)]
    BY <1>1, <1>7, ActualizarEs
  <2> QED BY <2>1, <1>4
<1>12. ASSUME NEW q \in Procs
       PROVE  EntradasDe(q)' = {Corregida(e, m) : e \in De(q)}
  <2>1. CASE t[q] = Nadie
    BY <2>1, <1>10 DEF EntradasDe, De
  <2>2. CASE t[q] # Nadie
    <3>1. EntradasDe(q)' = ToSet(tablas'[q]) /\ De(q) = ToSet(t[q])
      BY <2>2, <1>10 DEF EntradasDe, De
    <3>2. /\ DOMAIN tablas'[q] = DOMAIN t[q]
          /\ \A j \in DOMAIN t[q] : tablas'[q][j] = Corregida(t[q][j], m)
      BY <2>2, <1>11
    <3>3. ASSUME NEW x \in ToSet(tablas'[q]) PROVE \E e \in ToSet(t[q]) : x = Corregida(e, m)
      BY <3>2 DEF ToSet
    <3>4. ASSUME NEW e \in ToSet(t[q]) PROVE Corregida(e, m) \in ToSet(tablas'[q])
      BY <3>2 DEF ToSet
    <3> QED BY <3>1, <3>3, <3>4
  <2> QED BY <2>1, <2>2
<1>13. \A e : Corregida(e, m).path = e.path
              /\ Corregida(e, m).globalFd = IF e.globalFd > m THEN e.globalFd - 1 ELSE e.globalFd
  BY DEF Corregida
<1>14. ASSUME NEW q \in Procs, NEW d \in EntradasDe(q)' PROVE Apunta(d)'
  <2>1. PICK e \in De(q) : d = Corregida(e, m)
    BY <1>12
  <2>2. e.globalFd + 1 \in 1..n /\ g[e.globalFd + 1] = [path |-> e.path, open |-> 1]
    BY <1>5, <1>9 DEF TablasEnOrden, Apunta, g
  <2>3. e.globalFd # m /\ e.globalFd \in Int
    <3>1. e.globalFd # m
      BY <1>2, <1>9, <2>2
    <3> QED BY <3>1, <1>8 DEF EntradaDeTabla
  <2>4. d.globalFd + 1 \in 1..n - 1 /\ r[d.globalFd + 1] = g[e.globalFd + 1]
    <3>1. CASE e.globalFd > m
      <4>1. d.globalFd = e.globalFd - 1 /\ d.globalFd + 1 = e.globalFd
        BY <2>1, <2>3, <3>1, <1>13
      <4>2. e.globalFd \in 1..n - 1 /\ ~(e.globalFd < m + 1)
        BY <2>2, <2>3, <3>1, <1>1, <1>2
      <4> QED BY <4>1, <4>2, <1>5
    <3>2. CASE ~(e.globalFd > m)
      <4>1. d.globalFd = e.globalFd
        BY <2>1, <3>2, <1>13
      <4>2. e.globalFd + 1 \in 1..n - 1 /\ e.globalFd + 1 < m + 1
        BY <2>2, <2>3, <3>2, <1>1, <1>2
      <4> QED BY <4>1, <4>2, <1>5
    <3> QED BY <3>1, <3>2
  <2>5. d.path = e.path
    BY <2>1, <1>13
  <2> QED BY <2>2, <2>4, <2>5, <1>4, <1>5 DEF Apunta, g, r
<1>15. UnaEntrada'
  <2>1. ASSUME NEW q \in Procs, NEW s \in Procs,
               NEW x \in EntradasDe(q)', NEW y \in EntradasDe(s)', x.path = y.path
        PROVE  q = s /\ x = y
    <3>1. PICK e \in De(q) : x = Corregida(e, m)
      BY <1>12
    <3>2. PICK d \in De(s) : y = Corregida(d, m)
      BY <1>12
    <3>3. e.path = d.path /\ e \in EntradasDe(q) /\ d \in EntradasDe(s)
      BY <2>1, <3>1, <3>2, <1>9, <1>13
    <3>4. q = s /\ e = d
      BY <3>3 DEF TablasEnOrden, UnaEntrada
    <3> QED BY <3>1, <3>2, <3>4
  <2>2. ASSUME NEW q \in Procs, tablas'[q] # Nadie PROVE IsInjective(tablas'[q])
    <3>1. t[q] # Nadie /\ tablas'[q] = [j \in DOMAIN t[q] |-> Corregida(t[q][j], m)]
      BY <2>2, <1>10, <1>11
    <3>2. ASSUME NEW i \in DOMAIN t[q], NEW j \in DOMAIN t[q],
                 Corregida(t[q][i], m) = Corregida(t[q][j], m)
          PROVE  i = j
      <4>1. t[q][i] \in De(q) /\ t[q][j] \in De(q)
        BY <3>1 DEF De, ToSet
      <4>2. t[q][i].path = t[q][j].path
        BY <3>2, <1>13
      <4>3. t[q][i] = t[q][j]
        BY <4>1, <4>2, <1>9 DEF TablasEnOrden, UnaEntrada
      <4> QED BY <4>3, <3>1, <1>8 DEF IsInjective
    <3> QED BY <3>1, <3>2 DEF IsInjective
  <2>3. ASSUME NEW i \in DOMAIN r, NEW j \in DOMAIN r, r[i].path = r[j].path
        PROVE  i = j
    <3> DEFINE Antes(k) == IF k < m + 1 THEN k ELSE k + 1
    <3>1. \A k \in DOMAIN r : Antes(k) \in DOMAIN g /\ r[k] = g[Antes(k)]
      BY <1>1, <1>2, <1>5
    <3>2. Antes(i) = Antes(j)
      BY <2>3, <3>1 DEF TablasEnOrden, UnaEntrada, g
    <3> QED BY <3>2, <1>1, <1>2, <1>5
  <2> QED BY <2>1, <2>2, <2>3, <1>4 DEF UnaEntrada, g, r
<1>16. GlobalVigente'
  <2>1. ASSUME NEW i \in DOMAIN r
        PROVE  /\ r[i].path \in DOMAIN archivos
               /\ \E q \in Procs : \E e \in EntradasDe(q)' : e.path = r[i].path
    <3>1. PICK k \in DOMAIN g : k # m + 1 /\ r[i] = g[k]
      <4> DEFINE k == IF i < m + 1 THEN i ELSE i + 1
      <4>1. k \in DOMAIN g /\ k # m + 1 /\ r[i] = g[k]
        BY <1>1, <1>2, <1>5
      <4> QED BY <4>1
    <3>0. PICK q \in Procs : \E e \in EntradasDe(q) : e.path = g[k].path
      BY DEF TablasEnOrden, GlobalVigente, g
    <3>2. PICK e \in EntradasDe(q) : e.path = g[k].path
      BY <3>0
    <3>3. e # e0
      <4>1. g[k].path # g[m + 1].path
        BY <3>1, <1>2, <1>5 DEF TablasEnOrden, UnaEntrada, g
      <4> QED BY <4>1, <3>2, <1>2
    <3>4. e \in De(q)
      BY <3>2, <3>3, <1>8
    <3>5. Corregida(e, m) \in EntradasDe(q)' /\ Corregida(e, m).path = r[i].path
      BY <3>1, <3>2, <3>4, <1>12, <1>13
    <3>6. g[k].path \in DOMAIN archivos
      BY DEF TablasEnOrden, GlobalVigente, Existe, g
    <3> QED BY <3>1, <3>5, <3>6
  <2> QED BY <2>1, <1>4 DEF GlobalVigente, Existe, g, r
<1> QED BY <1>14, <1>15, <1>16 DEF TablasEnOrden

\* What was open, deleted or lost once, was.
LEMMA HistoriaCrece ==
  ASSUME NextArchivos
  PROVE  historia \subseteq historia'
<1>1. CASE \E h : Historia(h)
  BY <1>1 DEF Historia
<1>2. CASE UNCHANGED historia
  BY <1>2
<1>3. ASSUME NEW h, Rompe(h) PROVE \E x : Historia(x)
  BY <1>3 DEF Rompe
<1>4. ASSUME NEW g, NEW i, Registra(g, i) PROVE \E x : Historia(x)
  BY <1>4 DEF Registra
<1>5. ASSUME NEW p \in Procs, NEW fd,
             Cierra(p, fd) \/ Escribe(p, fd) \/ Lee(p, fd) \/ Borra(p, fd) \/ Mueve(p, fd)
      PROVE  UNCHANGED historia \/ \E x : Historia(x)
  BY <1>3, <1>5 DEF Cierra, Escribe, Lee, Accede, Borra, Mueve
<1>6. ASSUME AbreExistente \/ AbreInexistente \/ AbreCreado \/ TrasAcceder \/ TrasBorrar
      PROVE  UNCHANGED historia \/ \E x : Historia(x)
  BY <1>3, <1>4, <1>6 DEF AbreExistente, AbreInexistente, AbreCreado, TrasAcceder, TrasBorrar
<1>7. ASSUME NEW p \in Procs, Pide(p) \/ Valida(p) PROVE UNCHANGED historia
  BY <1>7 DEF Pide, Valida
<1>8. FileSystem => UNCHANGED historia
  BY DEF FileSystem
<1> QED BY <1>1, <1>2, <1>5, <1>6, <1>7, <1>8 DEF NextArchivos, CapaFs

\* The rest of EnOrden, when the thread is done with a request.
LEMMA TrasResponder ==
  ASSUME EnOrden, TablasEnOrden', NEW p, NEW r, Responde(p, r),
         UNCHANGED fallo, historia \subseteq historia'
  PROVE  EnOrden'
<1>1. PedidoVigente'
  BY DEF PedidoVigente, Responde
<1>2. ("ilegal" \notin historia => fallo = "no")'
  BY DEF EnOrden
<1> QED BY <1>1, <1>2 DEF EnOrden

\* While each file is used by one program at a time, only a program that does
\* what it may not makes the Kernel use an address that is not one.
LEMMA RompeEnOrden ==
  ASSUME IInvFs, EnOrden, Rompe({"ilegal"}), archivos' = archivos
  PROVE  EnOrden'
<1>1. UNCHANGED <<actual, fase, respuesta, tablasKernel>> /\ "ilegal" \in historia'
  BY DEF Rompe, Historia
<1>2. TablasEnOrden'
  BY <1>1, TablasIguales DEF EnOrden
<1>3. PedidoVigente'
  BY <1>1 DEF EnOrden, PedidoVigente, Existe, tablasKernel
<1> QED BY <1>1, <1>2, <1>3 DEF EnOrden

\* A descriptor is in range.
LEMMA SiempreEnRango ==
  ASSUME IInvFs, EnOrden, NEW p \in Procs, NEW fd, TieneFd(p, fd)
  PROVE  EnRango(p, fd) /\ Abierto(p, fd) \in DOMAIN archivos
<1>1. Entrada(p, fd) \in EntradasDe(p)
  BY EntradaDeEs DEF IInvFs, EntradasDe, TieneFd
<1>2. Apunta(Entrada(p, fd))
  BY <1>1 DEF EnOrden, TablasEnOrden
<1>3. EnRango(p, fd)
  BY <1>2 DEF Apunta, EnRango
<1>4. Abierto(p, fd) \in DOMAIN archivos
  BY <1>2 DEF EnOrden, TablasEnOrden, GlobalVigente, Apunta, Abierto, Existe
<1> QED BY <1>3, <1>4

\* abrirArchivo, when no other program has the file.
LEMMA AbreSigueEnOrden ==
  ASSUME IInvFs, EnOrden, AbreExistente \/ AbreCreado, Exclusivo', historia \subseteq historia'
  PROVE  EnOrden'
<1>1. fase \in {"valida", "crea"} /\ archivos' = archivos /\ UNCHANGED fallo
  BY DEF AbreExistente, AbreCreado, fs
<1>2. actual.pid \in Procs /\ actual.path \in Paths /\ actual.flags \in SUBSET Permisos
  BY <1>1 DEF IInvFs, Pedido
\* What Registra does not say it shares.
<1>3. ASSUME NEW g, NEW i, Registra(g, i)
      PROVE  /\ \A q \in Procs : \A e \in EntradasDe(q) : e.path # actual.path
             /\ \A k \in DOMAIN tablaArchivosGlobal : tablaArchivosGlobal[k].path # actual.path
             /\ Responde(actual.pid, 1)
  <2>1. "comparte" \notin historia'
    BY DEF Exclusivo
  <2>2. ~(\E q \in Procs : tablas[q] # Nadie /\
            \E e \in ToSet(tablas[q]) : e.path = actual.path)
    BY <1>3, <2>1 DEF Registra, Historia
  <2>3. \A q \in Procs : \A e \in EntradasDe(q) : e.path # actual.path
    BY <2>2 DEF EntradasDe
  <2>4. \A k \in DOMAIN tablaArchivosGlobal : tablaArchivosGlobal[k].path # actual.path
    BY <2>3 DEF EnOrden, TablasEnOrden, GlobalVigente
  <2> QED BY <1>3, <2>3, <2>4 DEF Registra
<1>4. CASE Registra(NuevaGlobal, IndiceNuevo(actual.path)) /\ respuesta = 1
  <2>1. Existe(actual.path)
    BY <1>1, <1>4 DEF EnOrden, PedidoVigente
  <2>2. TablasEnOrden'
    BY <1>1, <1>2, <1>3, <1>4, <2>1, AbreEnOrden DEF EnOrden
  <2> QED BY <1>1, <1>3, <1>4, <2>2, TrasResponder
<1>5. CASE AbreExistente
  <2>1. CASE IndiceEnGlobal(actual.path) = 0
    BY <1>4, <1>5, <2>1 DEF AbreExistente
  <2>2. CASE IndiceEnGlobal(actual.path) # 0
    <3>1. Registra(tablaArchivosGlobal, IndiceEnGlobal(actual.path) - 1)
      BY <1>5, <2>2 DEF AbreExistente
    <3>2. \A k \in DOMAIN tablaArchivosGlobal : tablaArchivosGlobal[k].path # actual.path
      BY <3>1, <1>3
    <3>3. DOMAIN tablaArchivosGlobal = 1..Len(tablaArchivosGlobal)
      BY LenProperties DEF IInvFs, TiposTablas
    <3> QED BY <2>2, <3>2, <3>3, UltimaDe DEF IInvFs
  <2> QED BY <2>1, <2>2
<1>6. CASE AbreCreado
  <2>1. CASE Responde(actual.pid, 2) /\ UNCHANGED tablasKernel
    <3>1. TablasEnOrden'
      BY <1>1, <2>1, TablasIguales DEF EnOrden
    <3> QED BY <1>1, <2>1, <3>1, TrasResponder
  <2> QED BY <1>4, <1>6, <2>1 DEF AbreCreado
<1> QED BY <1>5, <1>6

\* cerrarArchivo: the position is in range, and the global entry goes with the
\* only one that points to it.
LEMMA CierraSigueEnOrden ==
  ASSUME IInvFs, EnOrden, NEW p \in Procs, NEW fd, Cierra(p, fd), historia \subseteq historia'
  PROVE  EnOrden'
<1>1. TieneFd(p, fd) => EnRango(p, fd)
  BY SiempreEnRango
<1>2. archivos' = archivos
  BY DEF Cierra, Rompe, fs
<1>3. CASE Rompe({"ilegal"})
  BY <1>2, <1>3, RompeEnOrden
<1>4. CASE Responde(p, 0) /\ UNCHANGED <<tablasKernel, fallo>>
  <2>1. TablasEnOrden'
    BY <1>2, <1>4, TablasIguales DEF EnOrden
  <2> QED BY <1>4, <2>1, TrasResponder
<1>5. CASE /\ TieneFd(p, fd) /\ EnRango(p, fd)
           /\ DisminuirOpen(Entrada(p, fd).globalFd)
           /\ tablas' = Disminuir([tablas EXCEPT ![p] = SinEntrada(p, fd)],
                                  Entrada(p, fd).globalFd)
           /\ Responde(p, 1) /\ UNCHANGED fallo
  <2>1. TablasEnOrden'
    BY <1>2, <1>5, CierraEnOrden DEF EnOrden
  <2> QED BY <1>5, <2>1, TrasResponder
<1> QED BY <1>1, <1>3, <1>4, <1>5 DEF Cierra

\* escribirArchivo and leerArchivo take the entry to the end of its table.
LEMMA AccedeSigueEnOrden ==
  ASSUME IInvFs, EnOrden, NEW p \in Procs, NEW fd, NEW n, NEW permiso, NEW f,
         f \in {"guarda", "obtiene"}, Accede(p, fd, n, permiso, f), historia \subseteq historia'
  PROVE  EnOrden'
<1>1. Puede(p, fd, permiso) => TieneFd(p, fd) /\ EnRango(p, fd)
  BY SiempreEnRango DEF Puede
<1>2. archivos' = archivos
  BY DEF Accede, Rompe, fs
<1>3. CASE Rompe({"ilegal"})
  BY <1>2, <1>3, RompeEnOrden
<1>4. CASE /\ Puede(p, fd, permiso)
           /\ tablas' = [tablas EXCEPT ![p] = Rotada(p, fd)]
           /\ Consulta(p, Abierto(p, fd), {}, n, f)
           /\ UNCHANGED <<tablaArchivosGlobal, fallo>>
  <2>1. TablasEnOrden'
    BY <1>1, <1>2, <1>4, TablaRotada DEF EnOrden
  <2>2. actual'.path = Abierto(p, fd) /\ fase' = f
    BY <1>4 DEF Consulta
  <2>3. Abierto(p, fd) \in DOMAIN archivos
    BY <1>1, <1>4, SiempreEnRango
  <2>4. PedidoVigente'
    BY <1>2, <2>2, <2>3 DEF PedidoVigente, Existe
  <2>5. ("ilegal" \notin historia => fallo = "no")'
    BY <1>4 DEF EnOrden
  <2> QED BY <2>1, <2>4, <2>5 DEF EnOrden
<1> QED BY <1>1, <1>3, <1>4 DEF Accede

\* What a program deletes, or loses, is not used one at a time.
LEMMA BorraSigueEnOrden ==
  ASSUME IInvFs, EnOrden, NEW p \in Procs, NEW fd, Borra(p, fd), Exclusivo'
  PROVE  EnOrden'
<1>1. TieneFd(p, fd) => EnRango(p, fd)
  BY SiempreEnRango
<1>2. archivos' = archivos
  BY DEF Borra, Rompe, fs
<1>3. CASE Rompe({"ilegal"})
  BY <1>2, <1>3, RompeEnOrden
<1>4. ~Historia({"borra"})
  BY DEF Historia, Exclusivo
<1> QED BY <1>1, <1>3, <1>4 DEF Borra

\* moverCursor, of a descriptor the table has.
LEMMA MueveSigueEnOrden ==
  ASSUME IInvFs, EnOrden, NEW p \in Procs, NEW fd, Mueve(p, fd), Exclusivo',
         historia \subseteq historia'
  PROVE  EnOrden'
<1>1. archivos' = archivos
  BY DEF Mueve, Rompe, fs
<1>2. CASE Rompe({"ilegal"})
  BY <1>1, <1>2, RompeEnOrden
<1>3. ~Historia({"ilegal", "pierde"})
  BY DEF Historia, Exclusivo
<1>4. CASE /\ TieneFd(p, fd)
           /\ tablas' = [tablas EXCEPT ![p] = Rotada(p, fd)]
           /\ Responde(p, 1) /\ UNCHANGED <<tablaArchivosGlobal, fallo>>
  <2>1. TablasEnOrden'
    BY <1>1, <1>4, TablaRotada DEF EnOrden
  <2> QED BY <1>4, <2>1, TrasResponder
<1> QED BY <1>2, <1>3, <1>4 DEF Mueve

\* The FileSystem, asked for anything but a deletion, deletes nothing.
LEMMA FileSystemSigueEnOrden ==
  ASSUME IInvFs, EnOrden, FileSystem
  PROVE  EnOrden'
<1>1. PICK v \in {0, 1} : Atiende(v) /\ respuesta' = v
  BY DEF FileSystem
<1>2. UNCHANGED <<actual, fase, tablasKernel, fallo, historia>> /\ respuesta = Nadie
  BY DEF FileSystem
<1>3. fase # "borra"
  BY DEF EnOrden, PedidoVigente
<1>4. CASE UNCHANGED fs
  <2>1. archivos' = archivos
    BY <1>4 DEF fs
  <2>2. TablasEnOrden'
    BY <1>2, <2>1, TablasIguales DEF EnOrden
  <2>3. fase = "valida" /\ v = 1 => Existe(actual.path)
    BY <1>1 DEF Atiende
  <2>4. fase = "crea" /\ v = 1 => Existe(actual.path)'
    <3> SUFFICES ASSUME fase = "crea", v = 1 PROVE Existe(actual.path)'
      OBVIOUS
    <3>1. Crear(actual.path, v) /\ ~Existe(actual.path) /\ actual.path \in Paths
      BY <1>1, <1>2 DEF Atiende, IInvFs, Pedido
    <3>2. DOMAIN archivos' = DOMAIN archivos \cup {actual.path}
      BY <3>1, CrearInv DEF IInvFs
    <3> QED BY <1>2, <3>2 DEF Existe
  <2>5. PedidoVigente'
    BY <1>1, <1>2, <1>3, <2>1, <2>3, <2>4 DEF EnOrden, PedidoVigente, Existe, tablasKernel
  <2> QED BY <1>2, <2>2, <2>5 DEF EnOrden
<1>5. CASE fase = "crea" /\ Crear(actual.path, v)
  <2>1. ~Existe(actual.path) /\ actual.path \in Paths
    BY <1>2, <1>5 DEF IInvFs, Pedido
  <2>2. /\ v = 1 => DOMAIN archivos' = DOMAIN archivos \cup {actual.path}
        /\ v # 1 => DOMAIN archivos' = DOMAIN archivos
    BY <1>5, <2>1, CrearInv DEF IInvFs
  <2>3. TablasEnOrden'
    BY <1>2, <2>2, TablasIguales DEF EnOrden
  <2>4. PedidoVigente'
    BY <1>1, <1>2, <1>5, <2>2 DEF EnOrden, PedidoVigente, Existe, tablasKernel
  <2> QED BY <1>2, <2>3, <2>4 DEF EnOrden
<1>6. CASE fase = "guarda" /\ Guardar(actual.path, actual.n, v)
  <2>1. actual.n \in Tamanios /\ actual.path \in Paths
    BY <1>6 DEF IInvFs, Pedido
  <2>2. DOMAIN archivos' = DOMAIN archivos
    BY <1>6, <2>1, GuardarInv DEF IInvFs
  <2>3. TablasEnOrden'
    BY <1>2, <2>2, TablasIguales DEF EnOrden
  <2>4. PedidoVigente'
    BY <1>2, <1>6, <2>2 DEF EnOrden, PedidoVigente, Existe
  <2> QED BY <1>2, <2>3, <2>4 DEF EnOrden
<1> QED BY <1>1, <1>3, <1>4, <1>5, <1>6 DEF Atiende

\* The actions that touch neither the tables nor the FileSystem.
LEMMA OtrasSigueEnOrden ==
  ASSUME IInvFs, EnOrden, fallo = "no", historia \subseteq historia',
         \/ \E p \in Procs : Pide(p) \/ Valida(p)
         \/ AbreInexistente \/ TrasAcceder \/ TrasBorrar
  PROVE  EnOrden'
<1>1. archivos' = archivos /\ UNCHANGED tablasKernel
  BY DEF Pide, Valida, AbreInexistente, TrasAcceder, TrasBorrar, Rompe, fs
<1>2. TablasEnOrden'
  BY <1>1, TablasIguales DEF EnOrden
<1>3. CASE \E p \in Procs : Pide(p)
  <2>1. UNCHANGED <<actual, fase, respuesta, fallo, historia>>
    BY <1>3 DEF Pide
  <2>2. PedidoVigente'
    BY <1>1, <2>1 DEF EnOrden, PedidoVigente, Existe, tablasKernel
  <2> QED BY <1>2, <2>1, <2>2 DEF EnOrden
<1>4. CASE \E p \in Procs : Valida(p)
  <2>1. fase' = "valida" /\ respuesta' = Nadie /\ UNCHANGED <<fallo, historia>>
    BY <1>4 DEF Valida, Consulta
  <2>2. PedidoVigente'
    BY <2>1, NadieSupuesto DEF PedidoVigente
  <2> QED BY <1>2, <2>1, <2>2 DEF EnOrden
<1>5. CASE AbreInexistente
  <2>1. CASE Rompe({"ilegal"})
    BY <1>1, <2>1, RompeEnOrden
  <2>2. CASE /\ Consulta(actual.pid, actual.path, actual.flags, 0, "crea")
             /\ UNCHANGED <<fallo, historia>>
    <3>1. actual'.path = actual.path /\ fase' = "crea" /\ respuesta' = Nadie
      BY <2>2 DEF Consulta
    <3>2. ~Existe(actual.path)
      BY <1>5 DEF AbreInexistente, IInvFs, Pedido
    <3>3. \A i \in DOMAIN tablaArchivosGlobal : tablaArchivosGlobal[i].path # actual.path
      BY <3>2 DEF EnOrden, TablasEnOrden, GlobalVigente
    <3>4. PedidoVigente'
      BY <1>1, <3>1, <3>3, NadieSupuesto DEF PedidoVigente, tablasKernel
    <3> QED BY <1>2, <2>2, <3>4 DEF EnOrden
  <2> QED BY <1>5, <2>1, <2>2 DEF AbreInexistente
<1>6. CASE TrasAcceder \/ TrasBorrar
  BY <1>2, <1>6, TrasResponder DEF TrasAcceder, TrasBorrar
<1> QED BY <1>3, <1>4, <1>5, <1>6

\* With no table every table is in order.
LEMMA InicialTablas == InitArchivos => IInvTablas
<1> SUFFICES ASSUME InitArchivos PROVE EnOrden
  BY InicialTipos DEF IInvTablas
<1>1. \A p \in Procs : tablas[p] = Nadie /\ EntradasDe(p) = {}
  BY DEF InitArchivos, EntradasDe
<1>2. tablaArchivosGlobal = <<>> /\ DOMAIN tablaArchivosGlobal = {}
  BY DEF InitArchivos
<1>3. TablasEnOrden
  BY <1>1, <1>2 DEF TablasEnOrden, UnaEntrada, GlobalVigente
<1> QED BY <1>3 DEF EnOrden, PedidoVigente, InitArchivos

\* Every action keeps the tables in order while files are used one at a time.
LEMMA PasoTablas ==
  ASSUME IInvTablas, NextArchivos
  PROVE  IInvTablas'
<1>1. IInvFs' /\ IInvFs /\ historia \subseteq historia' /\ fallo = "no"
  BY PasoTipos, HistoriaCrece DEF IInvTablas, NextArchivos
<1> SUFFICES ASSUME Exclusivo' PROVE EnOrden'
  BY <1>1 DEF IInvTablas
<1>2. EnOrden
  BY <1>1 DEF IInvTablas, Exclusivo
<1>3. CASE FileSystem
  BY <1>1, <1>2, <1>3, FileSystemSigueEnOrden
<1>4. CASE \E p \in Procs, fd \in Descriptores : Cierra(p, fd)
  BY <1>1, <1>2, <1>4, CierraSigueEnOrden
<1>5. CASE \E p \in Procs, fd \in Descriptores : Escribe(p, fd) \/ Lee(p, fd)
  BY <1>1, <1>2, <1>5, AccedeSigueEnOrden DEF Escribe, Lee
<1>6. CASE \E p \in Procs, fd \in Descriptores : Borra(p, fd)
  BY <1>1, <1>2, <1>6, BorraSigueEnOrden
<1>7. CASE \E p \in Procs, fd \in Descriptores : Mueve(p, fd)
  BY <1>1, <1>2, <1>7, MueveSigueEnOrden
<1>8. CASE AbreExistente \/ AbreCreado
  BY <1>1, <1>2, <1>8, AbreSigueEnOrden
<1>9. CASE \/ \E p \in Procs : Pide(p) \/ Valida(p)
           \/ AbreInexistente \/ TrasAcceder \/ TrasBorrar
  BY <1>1, <1>2, <1>9, OtrasSigueEnOrden
<1> QED BY <1>3, <1>4, <1>5, <1>6, <1>7, <1>8, <1>9 DEF NextArchivos, CapaFs

\* So does a step in which nothing of these moves.
LEMMA QuietoTablas ==
  ASSUME IInvTablas, UNCHANGED vars
  PROVE  IInvTablas'
<1>1. /\ UNCHANGED <<actual, fase, respuesta, fallo, historia>> /\ UNCHANGED tablasKernel
      /\ archivos' = archivos
  BY DEF vars, fs
<1>2. IInvFs' /\ IInvFs
  BY QuietoTipos DEF IInvTablas
<1>3. ASSUME EnOrden PROVE EnOrden'
  <2>1. TablasEnOrden'
    BY <1>1, <1>2, <1>3, TablasIguales DEF EnOrden
  <2>2. PedidoVigente'
    BY <1>1, <1>3 DEF EnOrden, PedidoVigente, Existe, tablasKernel
  <2> QED BY <1>1, <1>3, <2>1, <2>2 DEF EnOrden
<1> QED BY <1>1, <1>2, <1>3 DEF IInvTablas, Exclusivo

\* While no two programs have the same file open, none deletes and none loses
\* its table, every entry of every process points to the entry of its file in
\* tablaArchivosGlobal, through all the removals that renumber them.
THEOREM TablasCorrectas == SpecArchivos => []IInvTablas
<1>1. InitArchivos => IInvTablas
  BY InicialTablas
<1>2. IInvTablas /\ [NextArchivos]_vars => IInvTablas'
  BY PasoTablas, QuietoTablas
<1> QED BY <1>1, <1>2, PTL DEF SpecArchivos

\* What the tables in order say of the file each descriptor reaches.
LEMMA ApuntaPorIInv == IInvTablas => ApuntaASuArchivo
<1> SUFFICES ASSUME IInvTablas, Exclusivo, NEW x \in Entradas
             PROVE  Apunta(tablas[x[1]][x[2]])
  BY DEF ApuntaASuArchivo, Apunta
<1>1. PICK p \in Procs : tablas[p] # Nadie /\ \E j \in DOMAIN tablas[p] : x = <<p, j>>
  BY DEF Entradas
<1>2. PICK j \in DOMAIN tablas[p] : x = <<p, j>>
  BY <1>1
<1>3. tablas[p][j] \in EntradasDe(p)
  BY <1>1 DEF EntradasDe, ToSet
<1> QED BY <1>2, <1>3 DEF IInvTablas, EnOrden, TablasEnOrden

\* A descriptor gives the file its program opened, as long as the programs use
\* files one at a time, however many entries obtenerArchivoGlobal has removed.
THEOREM ApuntaSiempre == SpecArchivos => []ApuntaASuArchivo
BY TablasCorrectas, ApuntaPorIInv, PTL

\* Programs that use the descriptors they got as they opened them, and files one
\* at a time, neither make the Kernel read outside of tablaArchivosGlobal nor
\* leave its thread waiting for an answer the FileSystem does not send.
THEOREM SinFalloSiempre == SpecArchivos => []SinFallo
<1>1. IInvTablas => SinFallo
  BY DEF IInvTablas, EnOrden, PedidoVigente, SinFallo, EsperaEnVano
<1> QED BY <1>1, TablasCorrectas, PTL

\* No block is of two files, whatever is created, saved and deleted.
THEOREM UnDuenioSiempre == SpecArchivos => []UnDuenio
<1>1. IInvFs => UnDuenio
  BY DEF IInvFs, InvFs
<1> QED BY <1>1, FileSystemCorrecto, PTL

\* A file has the blocks its size asks for and no more.
THEOREM TamanioSiempreJusto == SpecArchivos => []TamanioJusto
<1>1. IInvFs => TamanioJusto
  BY DEF IInvFs, InvFs
<1> QED BY <1>1, FileSystemCorrecto, PTL
-----------------------------------------------------------------------------
(* The count of the descriptors.                                            *)

\* How FoldSeq adds up open, and open as numbers.
SumandoOpen(q, it) ==
  [s \in SUBSET DOMAIN q |->
     IF s = {} THEN 0
     ELSE q[CHOOSE x \in s : TRUE].open + it[s \ {CHOOSE x \in s : TRUE}]]
DeOpen(q) == [k \in 1..Len(q) |-> q[k].open]

\* What open has in each entry is an integer.
LEMMA OpenEs ==
  ASSUME NEW q \in Seq(EntradaGlobal)
  PROVE  /\ DOMAIN q = 1..Len(q) /\ Len(q) \in Nat /\ DeOpen(q) \in [1..Len(q) -> Int]
         /\ \A k \in 1..Len(q) : /\ q[k] \in EntradaGlobal /\ q[k].open \in Int
                                 /\ DeOpen(q)[k] = q[k].open
<1>1. \A k \in 1..Len(q) : q[k] \in EntradaGlobal
  BY ElementOfSeq
<1>2. \A k \in 1..Len(q) : q[k].open \in Int
  BY <1>1 DEF EntradaGlobal
<1>3. DOMAIN q = 1..Len(q) /\ Len(q) \in Nat
  BY LenProperties
<1> DEFINE S == 1..Len(q)
<1>4. DeOpen(q) = [k \in S |-> q[k].open]
  BY DEF DeOpen
<1>5. \A k \in S : DeOpen(q)[k] = q[k].open
  BY <1>4
<1>6. DeOpen(q) \in [S -> Int]
  BY <1>2, <1>4
<1> QED BY <1>1, <1>2, <1>3, <1>5, <1>6

\* It is a sum of what open has in each entry.
LEMMA AbiertosEs ==
  ASSUME NEW q \in Seq(EntradaGlobal)
  PROVE  \E it : EsSuma(1..Len(q), DeOpen(q), it) /\ Abiertos(q) = it[1..Len(q)]
<1> DEFINE S == 1..Len(q)
           c == CHOOSE it : it = SumandoOpen(q, it)
<1>1. Abiertos(q) = c[DOMAIN q]
  <2>1. Abiertos(q) =
    (CHOOSE it : it = [s \in SUBSET DOMAIN q |->
       IF s = {} THEN 0
       ELSE q[CHOOSE x \in s : TRUE].open + it[s \ {CHOOSE x \in s : TRUE}]])[DOMAIN q]
    BY Zenon DEF Abiertos, FoldSeq, FoldFunction, FoldFunctionOnSet, MapThenFoldSet
  <2> QED BY ONLY <2>1, Zenon DEF SumandoOpen
<1>2. DOMAIN q = S /\ IsFiniteSet(S) /\ DeOpen(q) \in [S -> Int]
  BY OpenEs, FS_Interval
<1>3. ASSUME NEW it PROVE SumandoOpen(q, it) = Sumando(S, DeOpen(q), it)
  <2>1. ASSUME NEW s \in SUBSET S, s # {}
        PROVE  q[CHOOSE x \in s : TRUE].open = DeOpen(q)[CHOOSE x \in s : TRUE]
    <3>1. (CHOOSE x \in s : TRUE) \in S
      BY <2>1
    <3> QED BY <3>1 DEF DeOpen
  <2> HIDE DEF S
  <2> QED BY <1>2, <2>1 DEF SumandoOpen, Sumando
<1>4. PICK it : EsSuma(S, DeOpen(q), it)
  BY <1>2, SumaExiste
<1>5. it = SumandoOpen(q, it)
  BY <1>3, <1>4 DEF EsSuma
<1>6. c = SumandoOpen(q, c)
  BY <1>5
<1> HIDE DEF c, S
<1>7. EsSuma(S, DeOpen(q), c)
  BY <1>2, <1>3, <1>6 DEF EsSuma
<1> QED BY <1>1, <1>2, <1>7 DEF S

\* One entry more, one less, another.
LEMMA AbiertosAgrega ==
  ASSUME NEW q \in Seq(EntradaGlobal), NEW e \in EntradaGlobal
  PROVE  Abiertos(Append(q, e)) = Abiertos(q) + e.open /\ Abiertos(q) \in Int
<1> DEFINE r == Append(q, e)
           n == Len(q)
           m == n + 1
<1>1. r \in Seq(EntradaGlobal) /\ Len(r) = m /\ n \in Nat /\ m \in 1..m /\ r[m] = e
      /\ \A k \in 1..n : r[k] = q[k]
  BY ListaAgrega, LenProperties, AppendProperties
<1>2. PICK it : EsSuma(1..n, DeOpen(q), it) /\ Abiertos(q) = it[1..n]
  BY AbiertosEs
<1> HIDE DEF r
<1>4. DeOpen(q) \in [1..n -> Int] /\ \A k \in 1..n : DeOpen(q)[k] = q[k].open
  BY OpenEs
<1>5. DeOpen(r) \in [1..m -> Int] /\ \A k \in 1..m : DeOpen(r)[k] = r[k].open
  BY <1>1, OpenEs
<1>6. Agregada(n, DeOpen(q), m, DeOpen(r))
  <2>1. \A k \in 1..n : k \in 1..m /\ DeOpen(r)[k] = r[k].open /\ DeOpen(q)[k] = q[k].open
    BY <1>1, <1>4, <1>5
  <2>2. \A k \in 1..n : DeOpen(r)[k] = DeOpen(q)[k]
    BY <1>1, <2>1
  <2>3. n \in Nat /\ m = n + 1
    BY <1>1
  <2> HIDE DEF n, m
  <2> QED BY <1>4, <1>5, <2>2, <2>3 DEF Agregada
<1> HIDE DEF n, m
<1>3. PICK iu : EsSuma(1..m, DeOpen(r), iu) /\ Abiertos(r) = iu[1..m]
  BY <1>1, AbiertosEs
<1>8. DeOpen(r)[m] = e.open
  BY <1>1, <1>5
<1>9. iu[1..m] = it[1..n] + DeOpen(r)[m]
  BY ONLY <1>2, <1>3, <1>6, SumaAgrega
<1>10. it[1..n] \in Int
  <2>1. Suma(1..n, DeOpen(q), it)
    BY <1>2, SumaPorCualquiera
  <2> QED BY <2>1 DEF Suma
<1>11. Abiertos(r) = Abiertos(q) + e.open /\ Abiertos(q) \in Int
  BY <1>2, <1>3, <1>8, <1>9, <1>10
<1> QED BY <1>11 DEF r

\* The entry at i is what is missing when it leaves.
LEMMA AbiertosQuita ==
  ASSUME NEW q \in Seq(EntradaGlobal), NEW i \in 1..Len(q)
  PROVE  /\ Abiertos(q) = Abiertos(RemoveAt(q, i)) + q[i].open
         /\ Abiertos(RemoveAt(q, i)) \in Int /\ q[i].open \in Int
<1> DEFINE r == RemoveAt(q, i)
           n == Len(q)
<1>1. r \in Seq(EntradaGlobal) /\ Len(r) = n - 1 /\ n \in Nat /\ n - 1 \in Nat /\ i \in 1..n
      /\ \A k \in 1..n - 1 : r[k] = IF k < i THEN q[k] ELSE q[k + 1]
  BY QuitaIndices
<1>2. PICK it : EsSuma(1..n, DeOpen(q), it) /\ Abiertos(q) = it[1..n]
  BY AbiertosEs
<1> HIDE DEF r
<1>3. PICK iu : EsSuma(1..n - 1, DeOpen(r), iu) /\ Abiertos(r) = iu[1..n - 1]
  BY <1>1, AbiertosEs
<1>4. /\ DeOpen(q) \in [1..n -> Int]
      /\ \A k \in 1..n : DeOpen(q)[k] = q[k].open /\ q[k].open \in Int
  BY OpenEs
<1>5. DeOpen(r) \in [1..n - 1 -> Int] /\ \A k \in 1..n - 1 : DeOpen(r)[k] = r[k].open
  BY <1>1, OpenEs
<1> HIDE DEF n
<1>7. \A k \in 1..n - 1 : DeOpen(r)[k] = DeOpen(q)[IF k < i THEN k ELSE k + 1]
  <2> TAKE k \in 1..n - 1
  <2>1. k \in 1..n /\ k + 1 \in 1..n
    BY <1>1
  <2>2. DeOpen(q)[k] = q[k].open /\ DeOpen(q)[k + 1] = q[k + 1].open /\ DeOpen(r)[k] = r[k].open
    BY <1>4, <1>5, <2>1
  <2> QED BY <1>1, <2>2
<1>6. Quitada(n, DeOpen(q), i, DeOpen(r))
  BY <1>1, <1>4, <1>5, <1>7 DEF Quitada
<1>8. DeOpen(q)[i] = q[i].open
  BY <1>1, <1>4
<1>9. it[1..n] = iu[1..n - 1] + DeOpen(q)[i]
  BY ONLY <1>2, <1>3, <1>6, SumaQuita
<1>10. iu[1..n - 1] \in Int
  <2>1. Suma(1..n - 1, DeOpen(r), iu)
    BY <1>3, SumaPorCualquiera
  <2> QED BY <2>1 DEF Suma
<1>11. Abiertos(q) = Abiertos(r) + q[i].open /\ Abiertos(r) \in Int
  BY <1>2, <1>3, <1>8, <1>9, <1>10
<1>12. q[i].open \in Int
  BY <1>1, <1>4
<1> QED BY <1>11, <1>12 DEF r

\* An entry replaced by one with another open.
LEMMA AbiertosCambia ==
  ASSUME NEW q \in Seq(EntradaGlobal), NEW i \in 1..Len(q), NEW e \in EntradaGlobal
  PROVE  Abiertos([q EXCEPT ![i] = e]) = Abiertos(q) - q[i].open + e.open
<1> DEFINE n == Len(q)
           S == 1..n
           r == [q EXCEPT ![i] = e]
<1>1. r \in Seq(EntradaGlobal) /\ Len(r) = n /\ n \in Nat /\ i \in S
      /\ \A k \in S : r[k] = IF k = i THEN e ELSE q[k]
  BY ExceptSeq, LenProperties
<1>2. PICK it : EsSuma(S, DeOpen(q), it) /\ Abiertos(q) = it[S]
  BY AbiertosEs
<1> HIDE DEF r
<1>3. PICK iu : EsSuma(S, DeOpen(r), iu) /\ Abiertos(r) = iu[S]
  BY <1>1, AbiertosEs
<1>4. \A k \in S : DeOpen(q)[k] = q[k].open /\ DeOpen(r)[k] = r[k].open
  BY <1>1, OpenEs
<1> HIDE DEF S, n
<1>5. CambiaEn(S, DeOpen(q), DeOpen(r), i)
  BY <1>1, <1>4 DEF CambiaEn
<1>6. iu[S] = it[S] - DeOpen(q)[i] + DeOpen(r)[i]
  BY ONLY <1>1, <1>2, <1>3, <1>5, SumaOtra
<1>7. DeOpen(q)[i] = q[i].open /\ DeOpen(r)[i] = e.open
  BY <1>1, <1>4
<1>8. Abiertos(r) = Abiertos(q) - q[i].open + e.open
  BY <1>2, <1>3, <1>6, <1>7
<1> QED BY <1>8 DEF r
\* The open of a file one higher, wherever its entry goes.
LEMMA AumentarSuma ==
  ASSUME NEW g \in Seq(EntradaGlobal), NEW path, path \in Paths,
         \E i \in 1..Len(g) : g[i].path = path
  PROVE  Abiertos(AumentarOpen(g, path)) = Abiertos(g) + 1 /\ Abiertos(g) \in Int
<1>1. PICK k \in 1..Len(g) :
        AumentarOpen(g, path) = Append(RemoveAt(g, k), [path |-> path, open |-> g[k].open + 1])
  BY AumentarEs
<1> DEFINE r == RemoveAt(g, k)
           e == [path |-> path, open |-> g[k].open + 1]
<1>2. /\ Abiertos(g) = Abiertos(r) + g[k].open /\ Abiertos(r) \in Int /\ g[k].open \in Int
  BY AbiertosQuita
<1>3. r \in Seq(EntradaGlobal)
  BY QuitaIndices
<1>4. e \in EntradaGlobal /\ e.open = g[k].open + 1
  BY <1>2 DEF EntradaGlobal
<1>5. Abiertos(Append(r, e)) = Abiertos(r) + e.open
  BY <1>3, <1>4, AbiertosAgrega
<1> HIDE DEF r, e
<1> QED BY <1>1, <1>2, <1>4, <1>5 DEF r, e

\* A new entry counts for nothing.
LEMMA NuevaSuma ==
  ASSUME TiposTablas, actual.path \in Paths
  PROVE  Abiertos(NuevaGlobal) = Abiertos(tablaArchivosGlobal)
<1> DEFINE g == tablaArchivosGlobal
           e == [path |-> actual.path, open |-> 0]
<1>1. g \in Seq(EntradaGlobal) /\ e \in EntradaGlobal /\ e.open = 0
  BY DEF TiposTablas, EntradaGlobal
<1> HIDE DEF g, e
<1>2. Abiertos(Append(g, e)) = Abiertos(g) + e.open /\ Abiertos(g) \in Int
  BY <1>1, AbiertosAgrega
<1> QED BY <1>1, <1>2 DEF NuevaGlobal, g, e

\* disminuirOpenYVerificarExistenciaEntradaGlobal takes one off the sum.
LEMMA DisminuirSuma ==
  ASSUME TiposTablas, NEW i \in Int, i + 1 \in DOMAIN tablaArchivosGlobal, DisminuirOpen(i)
  PROVE  Abiertos(tablaArchivosGlobal') = Abiertos(tablaArchivosGlobal) - 1
<1> DEFINE g == tablaArchivosGlobal
           k == i + 1
<1>1. g \in Seq(EntradaGlobal) /\ k \in 1..Len(g) /\ g[k] \in EntradaGlobal /\ g[k].open \in Int
  <2>1. g \in Seq(EntradaGlobal)
    BY DEF TiposTablas
  <2>2. k \in 1..Len(g)
    BY <2>1, OpenEs
  <2> QED BY <2>1, <2>2, OpenEs
<1>2. CASE QuedaSinAbrir(i)
  <2>1. g' = RemoveAt(g, k) /\ g[k].open = 1
    BY <1>2 DEF DisminuirOpen, QuedaSinAbrir
  <2> HIDE DEF k
  <2>2. Abiertos(g) = Abiertos(RemoveAt(g, k)) + g[k].open /\ Abiertos(RemoveAt(g, k)) \in Int
    BY <1>1, AbiertosQuita
  <2>3. Abiertos(g') = Abiertos(RemoveAt(g, k))
    BY <2>1
  <2> QED BY <2>1, <2>2, <2>3
<1>3. CASE ~QuedaSinAbrir(i)
  <2> DEFINE e == [path |-> g[k].path, open |-> g[k].open - 1]
  <2>1. g' = [g EXCEPT ![k].open = @ - 1]
    BY <1>3 DEF DisminuirOpen
  <2>2. [g[k] EXCEPT !.open = @ - 1] = e /\ e \in EntradaGlobal /\ e.open = g[k].open - 1
    BY <1>1 DEF EntradaGlobal
  <2>3. g' = [g EXCEPT ![k] = e]
    BY <2>1, <2>2
  <2>4. Abiertos(g) \in Int
    <3>1. /\ Abiertos(g) = Abiertos(RemoveAt(g, k)) + g[k].open
          /\ Abiertos(RemoveAt(g, k)) \in Int
      BY <1>1, AbiertosQuita
    <3> QED BY <1>1, <3>1
  <2> HIDE DEF e, k
  <2>5. Abiertos([g EXCEPT ![k] = e]) = Abiertos(g) - g[k].open + e.open
    BY <1>1, <2>2, AbiertosCambia
  <2> QED BY <1>1, <2>2, <2>3, <2>4, <2>5
<1> QED BY <1>2, <1>3

\* Which are the entries of all the tables.
LEMMA EntradaEn ==
  ASSUME NEW t, NEW x
  PROVE  x \in EntradasEn(t)
           <=> \E p \in Procs : t[p] # Nadie /\ \E j \in DOMAIN t[p] : x = <<p, j>>
BY DEF EntradasEn

\* Tables with the same places.
LEMMA MismasEntradas ==
  ASSUME NEW t, NEW u,
         \A p \in Procs : /\ t[p] = Nadie <=> u[p] = Nadie
                          /\ t[p] # Nadie => DOMAIN t[p] = DOMAIN u[p]
  PROVE  EntradasEn(u) = EntradasEn(t)
<1>1. ASSUME NEW x PROVE x \in EntradasEn(u) <=> x \in EntradasEn(t)
  BY EntradaEn
<1> QED BY <1>1

\* The table of p has one place more in u.
UnaMas(t, u, p, n) ==
  /\ p \in Procs /\ n \in Nat /\ \A q \in Procs : q # p => u[q] = t[q]
  /\ IF t[p] = Nadie THEN n = 0 ELSE DOMAIN t[p] = 1..n
  /\ u[p] # Nadie /\ DOMAIN u[p] = 1..n + 1

\* One entry more, at the end of the table of p.
LEMMA EntradaMas ==
  ASSUME NEW t, NEW u, NEW p, NEW n, UnaMas(t, u, p, n)
  PROVE  /\ EntradasEn(u) = EntradasEn(t) \cup {<<p, n + 1>>}
         /\ <<p, n + 1>> \notin EntradasEn(t)
<1>0. /\ p \in Procs /\ n \in Nat /\ \A q \in Procs : q # p => u[q] = t[q]
      /\ IF t[p] = Nadie THEN n = 0 ELSE DOMAIN t[p] = 1..n
      /\ u[p] # Nadie /\ DOMAIN u[p] = 1..n + 1
  BY DEF UnaMas
<1>1. \A j : j \in 1..n + 1 <=> (t[p] # Nadie /\ j \in DOMAIN t[p]) \/ j = n + 1
  BY <1>0
<1>2. \A j : t[p] # Nadie /\ j \in DOMAIN t[p] => j # n + 1
  BY <1>0
<1> DEFINE m == n + 1
<1>3. /\ \A j : j \in DOMAIN u[p] <=> (t[p] # Nadie /\ j \in DOMAIN t[p]) \/ j = m
      /\ \A j : t[p] # Nadie /\ j \in DOMAIN t[p] => j # m
  BY <1>0, <1>1, <1>2
<1> HIDE DEF m
<1>4. ASSUME NEW x PROVE x \in EntradasEn(u) <=> x \in EntradasEn(t) \/ x = <<p, m>>
  <2>1. ASSUME x \in EntradasEn(u) PROVE x \in EntradasEn(t) \/ x = <<p, m>>
    <3>1. PICK q \in Procs : u[q] # Nadie /\ \E j \in DOMAIN u[q] : x = <<q, j>>
      BY <2>1, EntradaEn
    <3>2. PICK j \in DOMAIN u[q] : x = <<q, j>>
      BY <3>1
    <3>3. CASE q = p
      BY <1>0, <1>3, <3>2, <3>3, EntradaEn
    <3>4. CASE q # p
      BY <1>0, <3>1, <3>2, <3>4, EntradaEn
    <3> QED BY <3>3, <3>4
  <2>2. ASSUME x \in EntradasEn(t) PROVE x \in EntradasEn(u)
    <3>1. PICK q \in Procs : t[q] # Nadie /\ \E j \in DOMAIN t[q] : x = <<q, j>>
      BY <2>2, EntradaEn
    <3>2. PICK j \in DOMAIN t[q] : x = <<q, j>>
      BY <3>1
    <3>3. CASE q = p
      BY <1>0, <1>3, <3>1, <3>2, <3>3, EntradaEn
    <3>4. CASE q # p
      BY <1>0, <3>1, <3>2, <3>4, EntradaEn
    <3> QED BY <3>3, <3>4
  <2>3. <<p, m>> \in EntradasEn(u)
    BY <1>0, <1>3, EntradaEn
  <2> QED BY <2>1, <2>2, <2>3
<1>5. <<p, m>> \notin EntradasEn(t)
  <2> SUFFICES ASSUME <<p, m>> \in EntradasEn(t) PROVE FALSE
    OBVIOUS
  <2>1. PICK q \in Procs : t[q] # Nadie /\ \E j \in DOMAIN t[q] : <<p, m>> = <<q, j>>
    BY EntradaEn
  <2> QED BY <1>3, <2>1
<1> QED BY <1>4, <1>5 DEF m

\* The count follows the places.
LEMMA CuentaMas ==
  ASSUME NEW t, NEW u, NEW p, NEW n, UnaMas(t, u, p, n)
  PROVE  /\ IsFiniteSet(EntradasEn(t)) <=> IsFiniteSet(EntradasEn(u))
         /\ IsFiniteSet(EntradasEn(t)) =>
              /\ Cardinality(EntradasEn(u)) = Cardinality(EntradasEn(t)) + 1
              /\ Cardinality(EntradasEn(t)) \in Nat
<1> DEFINE T == EntradasEn(t)
           U == EntradasEn(u)
           x == <<p, n + 1>>
<1>1. U = T \cup {x} /\ x \notin T
  BY EntradaMas
<1> HIDE DEF T, U, x
<1>2. IsFiniteSet(U) => IsFiniteSet(T)
  BY <1>1, FS_Subset
<1>3. IsFiniteSet(T) => /\ IsFiniteSet(U) /\ Cardinality(U) = Cardinality(T) + 1
                        /\ Cardinality(T) \in Nat
  BY <1>1, FS_AddElement, FS_CardinalityType
<1> QED BY <1>2, <1>3 DEF T, U

\* The places after actualizarIndicesGlobalesEnTablasProcesos and the removal.
LEMMA ActualizarEntradas ==
  ASSUME NEW t \in [Procs -> Tabla], NEW i \in Int
  PROVE  /\ EntradasEn(Actualizar(t, i)) = EntradasEn(t)
         /\ EntradasEn(Disminuir(t, i)) = EntradasEn(t)
<1>1. \A p \in Procs : /\ t[p] = Nadie <=> Actualizar(t, i)[p] = Nadie
                       /\ t[p] # Nadie => DOMAIN t[p] = DOMAIN Actualizar(t, i)[p]
  BY ActualizarEs
<1>2. EntradasEn(Actualizar(t, i)) = EntradasEn(t)
  BY <1>1, MismasEntradas
<1> QED BY <1>2 DEF Disminuir

\* abrirArchivo: one more in each.
LEMMA RegistraCuenta ==
  ASSUME IInvCuenta, NEW g \in Seq(EntradaGlobal), NEW i \in Int, Registra(g, i),
         Abiertos(g) = Abiertos(tablaArchivosGlobal),
         \E k \in 1..Len(g) : g[k].path = actual.path,
         actual.pid \in Procs, actual.path \in Paths, actual.flags \in SUBSET Permisos
  PROVE  Contado'
<1> DEFINE p == actual.pid
           n == Len(Previa(p))
<1>1. /\ Previa(p) \in Seq(EntradaDeTabla) /\ TiposTablas /\ TiposTablas'
      /\ NuevaEntrada(Previa(p), i) \in EntradaDeTabla
      /\ tablas' = [tablas EXCEPT ![p] = Append(Previa(p), NuevaEntrada(Previa(p), i))]
      /\ tablaArchivosGlobal' = AumentarOpen(g, actual.path)
  BY RegistraTipos DEF IInvCuenta, IInvFs
<1>2. UnaMas(tablas, tablas', p, n)
  <2>1. tablas'[p] = Append(Previa(p), NuevaEntrada(Previa(p), i))
    BY <1>1 DEF TiposTablas
  <2>2. tablas'[p] \in Seq(EntradaDeTabla) /\ Len(tablas'[p]) = n + 1 /\ n \in Nat
    BY <1>1, <2>1, ListaAgrega, LenProperties, SMTT(30)
  <2>3. DOMAIN tablas'[p] = 1..n + 1 /\ tablas'[p] # Nadie
    BY <2>2, LenProperties, NadieSupuesto
  <2>4. IF tablas[p] = Nadie THEN n = 0 ELSE DOMAIN tablas[p] = 1..n
    BY <1>1, LenProperties DEF Previa
  <2>5. \A q \in Procs : q # p => tablas'[q] = tablas[q]
    BY <1>1 DEF TiposTablas
  <2> HIDE DEF n
  <2> QED BY <2>2, <2>3, <2>4, <2>5 DEF UnaMas
<1>3. Abiertos(tablaArchivosGlobal') = Abiertos(g) + 1
  <2>1. Abiertos(AumentarOpen(g, actual.path)) = Abiertos(g) + 1
    BY AumentarSuma
  <2> QED BY <1>1, <2>1
<1>4. historia \subseteq historia'
  BY DEF Registra, Historia
<1>5. Entradas = EntradasEn(tablas) /\ Entradas' = EntradasEn(tablas')
  BY DEF Entradas, EntradasEn
<1> HIDE DEF p, n
<1>6. /\ IsFiniteSet(EntradasEn(tablas))
      /\ "pierde" \notin historia =>
           Abiertos(tablaArchivosGlobal) = Cardinality(EntradasEn(tablas))
  BY <1>5 DEF IInvCuenta, Contado
<1>7. /\ IsFiniteSet(EntradasEn(tablas'))
      /\ Cardinality(EntradasEn(tablas')) = Cardinality(EntradasEn(tablas)) + 1
  BY <1>2, <1>6, CuentaMas
<1>8. "pierde" \notin historia' =>
        Abiertos(tablaArchivosGlobal') = Cardinality(EntradasEn(tablas'))
  BY <1>3, <1>4, <1>6, <1>7
<1> QED BY <1>5, <1>7, <1>8 DEF Contado

\* abrirArchivo, of a file there is or of the one just created: one more in each.
LEMMA AbreCuenta ==
  ASSUME IInvCuenta, AbreExistente \/ AbreCreado
  PROVE  Contado'
<1>0. TiposTablas /\ fase \in {"valida", "crea"}
  BY DEF IInvCuenta, IInvFs, AbreExistente, AbreCreado
<1>1. actual.pid \in Procs /\ actual.path \in Paths /\ actual.flags \in SUBSET Permisos
  BY <1>0 DEF IInvCuenta, IInvFs, Pedido
<1>2. CASE Registra(NuevaGlobal, IndiceNuevo(actual.path))
  <2>1. /\ \E k \in 1..Len(NuevaGlobal) : NuevaGlobal[k].path = actual.path
        /\ IndiceNuevo(actual.path) \in Int /\ NuevaGlobal \in Seq(EntradaGlobal)
    BY <1>0, <1>1, NuevaGlobalEs DEF IndiceNuevo
  <2>2. Abiertos(NuevaGlobal) = Abiertos(tablaArchivosGlobal)
    BY <1>0, <1>1, NuevaSuma
  <2> QED BY <1>1, <1>2, <2>1, <2>2, RegistraCuenta
<1>3. CASE AbreExistente /\ IndiceEnGlobal(actual.path) # 0
  <2> DEFINE i == IndiceEnGlobal(actual.path)
  <2>1. i \in 1..Len(tablaArchivosGlobal) /\ tablaArchivosGlobal[i].path = actual.path
    BY <1>0, <1>3, UltimaDe
  <2>2. Registra(tablaArchivosGlobal, i - 1)
    BY <1>3 DEF AbreExistente
  <2> HIDE DEF i
  <2>3. i - 1 \in Int /\ tablaArchivosGlobal \in Seq(EntradaGlobal)
    BY <1>0, <2>1 DEF TiposTablas
  <2> QED BY <1>1, <2>1, <2>2, <2>3, RegistraCuenta
<1>4. CASE UNCHANGED <<tablasKernel, historia>>
  BY <1>4 DEF IInvCuenta, Contado, Entradas, tablasKernel
<1> QED BY <1>2, <1>3, <1>4 DEF AbreExistente, AbreCreado

\* cerrarArchivo and borrarArchivo: one less in each.
LEMMA QuitaCuenta ==
  ASSUME IInvCuenta, NEW p \in Procs, NEW fd, TieneFd(p, fd), EnRango(p, fd),
         NEW i, i = Entrada(p, fd).globalFd, DisminuirOpen(i), historia \subseteq historia',
         \/ tablas' = Disminuir([tablas EXCEPT ![p] = SinEntrada(p, fd)], i)
         \/ tablas' = Actualizar(Disminuir([tablas EXCEPT ![p] = SinEntrada(p, fd)], i), i)
  PROVE  Contado'
<1> DEFINE t == [tablas EXCEPT ![p] = SinEntrada(p, fd)]
           m == Len(tablas[p])
           n == m - 1
<1>0. TiposTablas /\ tablas \in [Procs -> Tabla]
  BY DEF IInvCuenta, IInvFs, TiposTablas
<1>1. i \in Int /\ i + 1 \in DOMAIN tablaArchivosGlobal
  BY <1>0, AbiertoEs
<1>2. t \in [Procs -> Tabla] /\ Disminuir(t, i) \in [Procs -> Tabla]
  <2>1. t \in [Procs -> Tabla]
    BY <1>0, SinEntradaEs DEF Tabla
  <2> QED BY <1>0, <1>1, <2>1, DisminuirTipos
<1>3. UnaMas(t, tablas, p, n)
  <2>1. tablas[p] \in Seq(EntradaDeTabla) /\ EntradaDe(p, fd) \in 1..m
    BY <1>0, EntradaDeEs
  <2>2. t[p] = SinEntrada(p, fd)
    BY <1>0
  <2>3. /\ SinEntrada(p, fd) \in Seq(EntradaDeTabla) /\ DOMAIN SinEntrada(p, fd) = 1..n
        /\ m \in Nat /\ n \in Nat /\ n + 1 = m /\ DOMAIN tablas[p] = 1..m
    BY <2>1, QuitaIndices DEF SinEntrada
  <2>4. \A q \in Procs : q # p => tablas[q] = t[q]
    BY <1>0
  <2>5. t[p] # Nadie /\ tablas[p] # Nadie
    BY <2>1, <2>2, <2>3, NadieSupuesto
  <2> HIDE DEF t, n, m
  <2> QED BY <2>2, <2>3, <2>4, <2>5 DEF UnaMas
<1> HIDE DEF t, n
<1>4. EntradasEn(tablas') = EntradasEn(t)
  <2>1. EntradasEn(Actualizar(Disminuir(t, i), i)) = EntradasEn(Disminuir(t, i))
    BY <1>1, <1>2, ActualizarEntradas
  <2>2. EntradasEn(Disminuir(t, i)) = EntradasEn(t)
    BY <1>1, <1>2, ActualizarEntradas
  <2> QED BY <2>1, <2>2 DEF t
<1>5. Abiertos(tablaArchivosGlobal') = Abiertos(tablaArchivosGlobal) - 1
  BY <1>0, <1>1, DisminuirSuma
<1>6. Entradas = EntradasEn(tablas) /\ Entradas' = EntradasEn(tablas')
  BY DEF Entradas, EntradasEn
<1>7. /\ IsFiniteSet(EntradasEn(tablas))
      /\ "pierde" \notin historia =>
           Abiertos(tablaArchivosGlobal) = Cardinality(EntradasEn(tablas))
  BY <1>6 DEF IInvCuenta, Contado
<1>8. /\ IsFiniteSet(EntradasEn(tablas')) /\ Cardinality(EntradasEn(tablas')) \in Nat
      /\ Cardinality(EntradasEn(tablas)) = Cardinality(EntradasEn(tablas')) + 1
  BY <1>3, <1>4, <1>7, CuentaMas
<1>9. "pierde" \notin historia' =>
        Abiertos(tablaArchivosGlobal') = Cardinality(EntradasEn(tablas'))
  BY <1>5, <1>7, <1>8
<1> QED BY <1>6, <1>8, <1>9 DEF Contado

\* escribirArchivo, leerArchivo and moverCursorArchivo, of a descriptor there is:
\* its entry goes to the end.
LEMMA RotaCuenta ==
  ASSUME IInvCuenta, NEW p \in Procs, NEW fd, TieneFd(p, fd), historia \subseteq historia',
         tablas' = [tablas EXCEPT ![p] = Rotada(p, fd)], UNCHANGED tablaArchivosGlobal
  PROVE  Contado'
<1> DEFINE m == Len(tablas[p])
<1>0. TiposTablas /\ tablas \in [Procs -> Tabla]
  BY DEF IInvCuenta, IInvFs, TiposTablas
<1>1. /\ tablas[p] \in Seq(EntradaDeTabla) /\ EntradaDe(p, fd) \in 1..m
      /\ Entrada(p, fd) \in EntradaDeTabla
  BY <1>0, EntradaDeEs
<1>2. /\ SinEntrada(p, fd) \in Seq(EntradaDeTabla) /\ Len(SinEntrada(p, fd)) = m - 1
      /\ m \in Nat /\ DOMAIN tablas[p] = 1..m
  BY <1>1, QuitaIndices DEF SinEntrada
<1>3. Rotada(p, fd) \in Seq(EntradaDeTabla) /\ Len(Rotada(p, fd)) = m
  BY <1>1, <1>2, ListaAgrega DEF Rotada
<1>4. DOMAIN Rotada(p, fd) = DOMAIN tablas[p] /\ Rotada(p, fd) # Nadie /\ tablas[p] # Nadie
  BY <1>1, <1>2, <1>3, LenProperties, NadieSupuesto
<1>5. \A q \in Procs : /\ tablas[q] = Nadie <=> tablas'[q] = Nadie
                       /\ tablas[q] # Nadie => DOMAIN tablas[q] = DOMAIN tablas'[q]
  BY <1>0, <1>4
<1>6. EntradasEn(tablas') = EntradasEn(tablas)
  BY <1>5, MismasEntradas
<1>7. Entradas = EntradasEn(tablas) /\ Entradas' = EntradasEn(tablas')
  BY DEF Entradas, EntradasEn
<1> QED BY <1>6, <1>7 DEF IInvCuenta, Contado

\* moverCursorArchivo of a descriptor there is not loses the table.
LEMMA PierdeCuenta ==
  ASSUME IInvCuenta, NEW p \in Procs, tablas' = [tablas EXCEPT ![p] = Nadie],
         "pierde" \in historia'
  PROVE  Contado'
<1>0. tablas \in [Procs -> Tabla]
  BY DEF IInvCuenta, IInvFs, TiposTablas
<1>1. \A q \in Procs : tablas'[q] # Nadie => tablas[q] # Nadie /\ tablas'[q] = tablas[q]
  BY <1>0
<1>2. Entradas = EntradasEn(tablas) /\ Entradas' = EntradasEn(tablas')
  BY DEF Entradas, EntradasEn
<1>3. EntradasEn(tablas') \subseteq EntradasEn(tablas)
  <2>1. ASSUME NEW x \in EntradasEn(tablas') PROVE x \in EntradasEn(tablas)
    <3>1. PICK q \in Procs : tablas'[q] # Nadie /\ \E j \in DOMAIN tablas'[q] : x = <<q, j>>
      BY <2>1 DEF EntradasEn
    <3> QED BY <1>1, <3>1, EntradaEn
  <2> QED BY <2>1
<1>4. IsFiniteSet(EntradasEn(tablas'))
  BY <1>2, <1>3, FS_Subset DEF IInvCuenta, Contado
<1> QED BY <1>2, <1>4 DEF Contado

\* A step that leaves the tables alone.
LEMMA IgualCuenta ==
  ASSUME IInvCuenta, historia \subseteq historia', UNCHANGED tablasKernel
  PROVE  Contado'
BY DEF IInvCuenta, Contado, Entradas, tablasKernel

\* No entries, and nothing is open.
LEMMA InicialCuenta == InitArchivos => IInvCuenta
<1> SUFFICES ASSUME InitArchivos PROVE Contado
  BY InicialTipos DEF IInvCuenta
<1>1. Entradas = {} /\ tablaArchivosGlobal = <<>> /\ tablaArchivosGlobal \in Seq(EntradaGlobal)
  BY DEF InitArchivos, Entradas
<1>2. PICK it : /\ EsSuma(1..Len(tablaArchivosGlobal), DeOpen(tablaArchivosGlobal), it)
                /\ Abiertos(tablaArchivosGlobal) = it[1..Len(tablaArchivosGlobal)]
  BY <1>1, AbiertosEs
<1>3. it[{}] = 0
  BY <1>2, SumaPorCualquiera DEF Suma
<1>4. 1..Len(tablaArchivosGlobal) = {}
  BY <1>1
<1>5. Abiertos(tablaArchivosGlobal) = 0
  BY <1>2, <1>3, <1>4
<1> QED BY <1>1, <1>5, FS_EmptySet DEF Contado

\* Every action changes both counts alike, or loses a table.
LEMMA PasoCuenta ==
  ASSUME IInvCuenta, NextArchivos
  PROVE  IInvCuenta'
<1>1. IInvFs' /\ IInvFs /\ historia \subseteq historia' /\ TiposTablas
  BY PasoTipos, HistoriaCrece DEF IInvCuenta, IInvFs
<1> SUFFICES Contado'
  BY <1>1 DEF IInvCuenta
<1>2. CASE UNCHANGED tablasKernel
  BY <1>1, <1>2, IgualCuenta
<1>3. CASE AbreExistente \/ AbreCreado
  BY <1>3, AbreCuenta
<1>4. ASSUME NEW p \in Procs, NEW fd \in Descriptores, Cierra(p, fd), ~UNCHANGED tablasKernel
      PROVE  Contado'
  <2>1. /\ TieneFd(p, fd) /\ EnRango(p, fd) /\ DisminuirOpen(Entrada(p, fd).globalFd)
        /\ tablas' = Disminuir([tablas EXCEPT ![p] = SinEntrada(p, fd)], Entrada(p, fd).globalFd)
    BY <1>4 DEF Cierra, Rompe
  <2> QED BY <1>1, <2>1, QuitaCuenta
<1>5. ASSUME NEW p \in Procs, NEW fd \in Descriptores, Borra(p, fd), ~UNCHANGED tablasKernel
      PROVE  Contado'
  <2>1. /\ TieneFd(p, fd) /\ EnRango(p, fd) /\ DisminuirOpen(Entrada(p, fd).globalFd)
        /\ tablas' = Actualizar(
             Disminuir([tablas EXCEPT ![p] = SinEntrada(p, fd)], Entrada(p, fd).globalFd),
             Entrada(p, fd).globalFd)
    BY <1>5 DEF Borra, Rompe
  <2> QED BY <1>1, <2>1, QuitaCuenta
<1>6. ASSUME NEW p \in Procs, NEW fd, NEW n, NEW permiso, NEW f, Accede(p, fd, n, permiso, f),
             ~UNCHANGED tablasKernel
      PROVE  Contado'
  BY <1>1, <1>6, RotaCuenta DEF Accede, Rompe, Puede
<1>7. ASSUME NEW p \in Procs, NEW fd \in Descriptores, Mueve(p, fd), ~UNCHANGED tablasKernel
      PROVE  Contado'
  <2>1. /\ tablas' = [tablas EXCEPT ![p] = IF TieneFd(p, fd) THEN Rotada(p, fd) ELSE Nadie]
        /\ Historia(IF TieneFd(p, fd) THEN {} ELSE {"ilegal", "pierde"})
        /\ UNCHANGED tablaArchivosGlobal
    BY <1>7 DEF Mueve, Rompe
  <2>2. CASE TieneFd(p, fd)
    BY <1>1, <2>1, <2>2, RotaCuenta
  <2>3. CASE ~TieneFd(p, fd)
    BY <2>1, <2>3, PierdeCuenta DEF Historia
  <2> QED BY <2>2, <2>3
<1>8. ASSUME \/ \E p \in Procs : Pide(p) \/ Valida(p)
             \/ AbreInexistente \/ TrasAcceder \/ TrasBorrar \/ FileSystem
      PROVE  UNCHANGED tablasKernel
  BY <1>8 DEF Pide, Valida, AbreInexistente, TrasAcceder, TrasBorrar, FileSystem, Rompe
<1> QED BY <1>2, <1>3, <1>4, <1>5, <1>6, <1>7, <1>8 DEF NextArchivos, CapaFs, Escribe, Lee

\* So does a step in which nothing of these moves.
LEMMA QuietoCuenta ==
  ASSUME IInvCuenta, UNCHANGED vars
  PROVE  IInvCuenta'
<1>1. IInvFs'
  BY QuietoTipos DEF IInvCuenta
<1>2. historia \subseteq historia' /\ UNCHANGED tablasKernel
  BY DEF vars
<1> QED BY <1>1, <1>2, IgualCuenta DEF IInvCuenta

\* However files are shared, closed and deleted, every descriptor a program has
\* is counted once in the open of some entry of tablaArchivosGlobal: what one
\* procesarCapaFs adds, another takes off.
THEOREM CuentaSiempre == SpecArchivos => []CuentaAbiertos
<1>1. InitArchivos => IInvCuenta
  BY InicialCuenta
<1>2. IInvCuenta /\ [NextArchivos]_vars => IInvCuenta'
  BY PasoCuenta, QuietoCuenta
<1>3. IInvCuenta => CuentaAbiertos
  BY Zenon DEF IInvCuenta, Contado, CuentaAbiertos, Abiertos
<1> QED BY <1>1, <1>2, <1>3, PTL DEF SpecArchivos
=============================================================================
