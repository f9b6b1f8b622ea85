---------------------------- MODULE HuecosProofs ----------------------------
(***************************************************************************)
(* What the operations on the free list return, for every list.            *)
(***************************************************************************)
EXTENDS Huecos, SequenceTheorems, FiniteSetTheorems, WellFoundedInduction, TLAPS

\* RemoveAt takes one element out and keeps the order of the others
\* (list_remove).
LEMMA RemoveAtElementos ==
  ASSUME NEW S, NEW s \in Seq(S), NEW k \in 1 .. Len(s)
  PROVE  /\ RemoveAt(s, k) \in Seq(S)
         /\ Len(RemoveAt(s, k)) = Len(s) - 1
         /\ \A i \in 1 .. Len(s) - 1 :
              RemoveAt(s, k)[i] = IF i < k THEN s[i] ELSE s[i + 1]
<1> DEFINE a == SubSeq(s, 1, k - 1)
           b == SubSeq(s, k + 1, Len(s))
<1>0. Len(s) \in Nat /\ \A i \in 1 .. Len(s) : s[i] \in S
  BY LenProperties, ElementOfSeq
<1>1. a \in Seq(S) /\ Len(a) = k - 1 /\ \A i \in 1 .. k - 1 : a[i] = s[i]
  <2>1. \A i \in 1 .. k - 1 : s[i] \in S
    BY <1>0
  <2>2. 1 \in Int /\ k - 1 \in Int /\ k - 1 >= 0
    BY <1>0
  <2>3. QED
    BY <2>1, <2>2, SubSeqProperties
<1>2. b \in Seq(S) /\ Len(b) = Len(s) - k /\ \A i \in 1 .. Len(s) - k : b[i] = s[k + i]
  <2>1. \A i \in k + 1 .. Len(s) : s[i] \in S
    BY <1>0
  <2>2. k + 1 \in Int /\ Len(s) \in Int
    BY <1>0
  <2>3. QED
    BY <1>0, <2>1, <2>2, SubSeqProperties
<1> HIDE DEF a, b
<1>3. a \o b \in Seq(S) /\ Len(a \o b) = Len(s) - 1
  <2>1. a \o b \in Seq(S) /\ Len(a \o b) = Len(a) + Len(b)
    BY <1>1, <1>2, ConcatProperties
  <2>2. QED
    BY <1>0, <1>1, <1>2, <2>1
<1>4. ASSUME NEW i \in 1 .. Len(s) - 1
      PROVE  (a \o b)[i] = IF i < k THEN s[i] ELSE s[i + 1]
  <2>1. (a \o b)[i] = IF i <= k - 1 THEN a[i] ELSE b[i - (k - 1)]
    BY <1>0, <1>1, <1>2, ConcatProperties
  <2>2. CASE i < k
    BY <1>0, <1>1, <2>1, <2>2
  <2>3. CASE i >= k
    <3>1. i - (k - 1) \in 1 .. Len(s) - k /\ k + (i - (k - 1)) = i + 1
      BY <1>0, <2>3
    <3>2. QED
      BY <1>0, <1>2, <2>1, <2>3, <3>1
  <2>4. i < k \/ i >= k
    BY <1>0
  <2>5. QED
    BY <2>2, <2>3, <2>4
<1>5. RemoveAt(s, k) = a \o b
  BY DEF RemoveAt, a, b
<1>6. QED
  BY <1>3, <1>4, <1>5

\* A function on 1..n is a list of n elements.
LEMMA FuncionEsSeq ==
  ASSUME NEW S, NEW n \in Nat, NEW f \in [1 .. n -> S]
  PROVE  f \in Seq(S) /\ Len(f) = n
<1>1. f \in Seq(S)
  BY SeqDef
<1>2. Len(f) \in Nat /\ DOMAIN f = 1 .. Len(f)
  BY <1>1, LenProperties
<1>3. QED
  BY <1>1, <1>2

\* The hole a search returns is in the list and is large enough
\* (buscar_hueco_best_fit, buscar_hueco_worst_fit).
LEMMA BuscarHuecoEntra ==
  ASSUME NEW hs \in Seq(Hueco), NEW t \in Nat, NEW best \in BOOLEAN,
         BuscarHueco(best, hs, t) # SinHueco
  PROVE  /\ BuscarHueco(best, hs, t) \in 1 .. Len(hs)
         /\ hs[BuscarHueco(best, hs, t)].tamanio >= t
<1>1. BuscarHueco(best, hs, t) \in Candidatos(hs, t)
  BY DEF BuscarHueco, BuscarHuecoBestFit, BuscarHuecoWorstFit
<1>2. DOMAIN hs = 1 .. Len(hs)
  BY LenProperties
<1>3. QED
  BY <1>1, <1>2 DEF Candidatos

\* hueco_ocupar on a hole that is large enough leaves a list of holes.
LEMMA HuecoOcuparTipo ==
  ASSUME NEW hs \in Seq(Hueco), NEW i \in 1 .. Len(hs), NEW t \in Nat,
         hs[i].tamanio >= t
  PROVE  HuecoOcupar(hs, i, t) \in Seq(Hueco)
<1>1. RemoveAt(hs, i) \in Seq(Hueco)
  BY RemoveAtElementos
<1>2. hs[i] \in Hueco
  BY ElementOfSeq
<1>3. [base |-> hs[i].base + t, tamanio |-> hs[i].tamanio - t] \in Hueco
  BY <1>2 DEF Hueco
<1>4. QED
  BY <1>1, <1>3, ExceptSeq DEF HuecoOcupar

\* huecos_extender leaves a list of holes.
LEMMA HuecosExtenderTipo ==
  ASSUME NEW hs \in Seq(Hueco), NEW b \in Nat, NEW t \in Nat
  PROVE  HuecosExtender(hs, b, t) \in Seq(Hueco)
<1>1. [base |-> b, tamanio |-> t] \in Hueco
  BY DEF Hueco
<1>2. CASE hs = <<>>
  BY <1>1, <1>2 DEF HuecosExtender
<1>3. CASE hs # <<>>
  <2>1. Len(hs) \in 1 .. Len(hs)
    BY <1>3, EmptySeq
  <2>2. hs[Len(hs)] \in Hueco
    BY <2>1, ElementOfSeq
  <2>3. [base |-> hs[Len(hs)].base, tamanio |-> hs[Len(hs)].tamanio + t] \in Hueco
    BY <2>2 DEF Hueco
  <2>4. QED
    BY <1>1, <1>3, <2>1, <2>3, ExceptSeq DEF HuecosExtender
<1>4. QED
  BY <1>2, <1>3

\* huecos_reconstruir leaves a list of holes.
LEMMA HuecosReconstruirTipo ==
  ASSUME NEW b \in Nat, NEW total \in Nat
  PROVE  HuecosReconstruir(b, total) \in Seq(Hueco)
<1>1. CASE b < total
  <2>1. [base |-> b, tamanio |-> total - b] \in Hueco
    BY <1>1 DEF Hueco
  <2>2. QED
    BY <1>1, <2>1 DEF HuecosReconstruir
<1>2. CASE ~ (b < total)
  BY <1>2 DEF HuecosReconstruir
<1>3. QED
  BY <1>1, <1>2
-----------------------------------------------------------------------------
\* A set of numbers that is not empty has a least one.
LEMMA MinimoNat ==
  ASSUME NEW T \in SUBSET Nat, T # {}
  PROVE  \E x \in T : \A y \in T : x <= y
<1> DEFINE menor == OpToRel(<, Nat)
<1>1. IsWellFoundedOn(menor, Nat)
  BY NatLessThanWellFounded
<1>2. \A x, y \in Nat : x < y => <<x, y>> \in menor
  BY DEF OpToRel
<1> HIDE DEF menor
<1>3. PICK x \in T : \A y \in T : ~ (<<y, x>> \in menor)
  BY <1>1, WFMin
<1>4. ASSUME NEW y \in T PROVE x <= y
  <2>1. ~ (y < x)
    BY <1>2, <1>3
  <2>2. QED
    BY <2>1
<1>5. QED
  BY <1>4

\* Induction up to n, for a set: the loops below add up one element at a time.
LEMMA InduccionHasta ==
  ASSUME NEW n \in Nat, NEW B, 0 \in B,
         \A k \in 0 .. n - 1 : k \in B => k + 1 \in B
  PROVE  0 .. n \subseteq B
<1> DEFINE T == {k \in 0 .. n : k \notin B}
<1> SUFFICES ASSUME T # {} PROVE FALSE
  OBVIOUS
<1>1. T \in SUBSET Nat
  OBVIOUS
<1>2. PICK m \in T : \A k \in T : m <= k
  BY <1>1, MinimoNat
<1>3. m # 0 /\ m \in 0 .. n /\ m \notin B
  OBVIOUS
<1>4. m - 1 \in 0 .. n - 1 /\ (m - 1) + 1 = m
  BY <1>3
<1>5. m - 1 \notin B
  BY <1>3, <1>4
<1>6. m - 1 \in T
  BY <1>4, <1>5
<1>7. QED
  BY <1>2, <1>3, <1>6

-----------------------------------------------------------------------------
\* The sums of a list exist: the first one is zero and each one adds the next
\* element (the loop of huecos_total_libre, the one of
\* memory_stick_localizar).
LEMMA SumasPasoAPaso ==
  ASSUME NEW a \in Seq(Nat)
  PROVE  /\ Sumas(a) \in [0 .. Len(a) -> Nat]
         /\ Sumas(a)[0] = 0
         /\ \A k \in 1 .. Len(a) : Sumas(a)[k] = Sumas(a)[k - 1] + a[k]
<1> DEFINE Es(f, n) == /\ f[0] = 0
                       /\ \A k \in 1 .. n : f[k] = f[k - 1] + a[k]
           B == {n \in 0 .. Len(a) : \E f \in [0 .. n -> Nat] : Es(f, n)}
<1>0. Len(a) \in Nat /\ \A k \in 1 .. Len(a) : a[k] \in Nat
  BY LenProperties, ElementOfSeq
<1>1. 0 \in B
  <2>1. [k \in 0 .. 0 |-> 0] \in [0 .. 0 -> Nat] /\ Es([k \in 0 .. 0 |-> 0], 0)
    OBVIOUS
  <2>2. \E f \in [0 .. 0 -> Nat] : Es(f, 0)
    BY <2>1
  <2>3. 0 \in 0 .. Len(a)
    BY <1>0
  <2> HIDE DEF Es
  <2>4. QED
    BY <2>2, <2>3
<1>2. ASSUME NEW n \in 0 .. Len(a) - 1, n \in B
      PROVE  n + 1 \in B
  <2>1. PICK f \in [0 .. n -> Nat] : Es(f, n)
    BY <1>2
  <2>2. n + 1 \in 1 .. Len(a) /\ a[n + 1] \in Nat /\ n \in Nat
    BY <1>0
  <2> DEFINE g == [k \in 0 .. n + 1 |-> IF k = n + 1 THEN f[n] + a[n + 1] ELSE f[k]]
  <2>3. g \in [0 .. n + 1 -> Nat]
    BY <2>2
  <2>4. g[0] = 0
    BY <2>1, <2>2
  <2>5. ASSUME NEW k \in 1 .. n + 1 PROVE g[k] = g[k - 1] + a[k]
    <3>1. CASE k = n + 1
      BY <2>2, <3>1
    <3>2. CASE k # n + 1
      BY <2>1, <2>2, <3>2
    <3>3. QED
      BY <3>1, <3>2
  <2> HIDE DEF g
  <2>6. Es(g, n + 1)
    BY <2>4, <2>5
  <2> HIDE DEF Es
  <2>7. n + 1 \in 0 .. Len(a)
    BY <2>2
  <2>8. QED
    BY <2>3, <2>6, <2>7
<1>3. Len(a) \in B
  <2> HIDE DEF B
  <2>1. 0 .. Len(a) \subseteq B
    BY <1>0, <1>1, <1>2, InduccionHasta
  <2>2. QED
    BY <1>0, <2>1
<1>4. PICK f \in [0 .. Len(a) -> Nat] : Es(f, Len(a))
  BY <1>3
<1>5. f = [k \in 0 .. Len(a) |-> IF k = 0 THEN 0 ELSE f[k - 1] + a[k]]
  BY <1>0, <1>4
<1>6. Sumas(a) = CHOOSE s : s = [k \in 0 .. Len(a) |-> IF k = 0 THEN 0 ELSE s[k - 1] + a[k]]
  BY DEF Sumas
<1>7. Sumas(a) = [k \in 0 .. Len(a) |-> IF k = 0 THEN 0 ELSE Sumas(a)[k - 1] + a[k]]
  BY <1>5, <1>6
<1> DEFINE S == Sumas(a)
           P == {k \in 0 .. Len(a) : S[k] \in Nat}
<1>8. S[0] = 0 /\ \A k \in 1 .. Len(a) : S[k] = S[k - 1] + a[k]
  BY <1>0, <1>7
<1>9. \A k \in 0 .. Len(a) : S[k] \in Nat
  <2> HIDE DEF S
  <2>1. 0 \in P
    BY <1>0, <1>8
  <2>2. ASSUME NEW k \in 0 .. Len(a) - 1, k \in P PROVE k + 1 \in P
    BY <1>0, <1>8, <2>2, SMTT(30)
  <2>3. 0 .. Len(a) \subseteq P
    <3> HIDE DEF P
    <3>1. QED
      BY <1>0, <2>1, <2>2, InduccionHasta
  <2>4. QED
    BY <2>3
<1>10. QED
  BY <1>7, <1>8, <1>9

-----------------------------------------------------------------------------
\* A list of areas, holes or segments, seen from one address: the areas that
\* hold it.
EnHueco(hs, a, i) == EnArea(a, hs[i].base, hs[i].tamanio)

Cubre(hs, a) == \E i \in 1 .. Len(hs) : EnHueco(hs, a, i)

UnoSolo(hs, a) ==
  \A i, j \in 1 .. Len(hs) : EnHueco(hs, a, i) /\ EnHueco(hs, a, j) => i = j

\* Base and size of the elements of a list of areas are numbers.
LEMMA HuecosNumeros ==
  ASSUME NEW hs \in Seq(Hueco)
  PROVE  /\ Len(hs) \in Nat
         /\ DOMAIN hs = 1 .. Len(hs)
         /\ \A i \in 1 .. Len(hs) : /\ hs[i] \in Hueco
                                    /\ hs[i].base \in Nat
                                    /\ hs[i].tamanio \in Nat
<1>1. Len(hs) \in Nat /\ DOMAIN hs = 1 .. Len(hs)
  BY LenProperties
<1>2. \A i \in 1 .. Len(hs) : hs[i] \in Hueco
  BY ElementOfSeq
<1>3. QED
  BY <1>1, <1>2 DEF Hueco

\* Adding an area at the end (hueco_liberar).
LEMMA AgregarCubre ==
  ASSUME NEW hs \in Seq(Hueco), NEW h \in Hueco, NEW a \in Nat
  PROVE  /\ Cubre(Append(hs, h), a) <=> Cubre(hs, a) \/ EnArea(a, h.base, h.tamanio)
         /\ UnoSolo(hs, a) /\ ~ (Cubre(hs, a) /\ EnArea(a, h.base, h.tamanio))
              => UnoSolo(Append(hs, h), a)
<1> DEFINE n == Append(hs, h)
<1>1. Len(hs) \in Nat
  BY HuecosNumeros
<1>2. /\ Len(n) = Len(hs) + 1
      /\ \A i \in 1 .. Len(hs) : n[i] = hs[i]
      /\ n[Len(hs) + 1] = h
  BY AppendProperties
<1> HIDE DEF n
<1>3. \A i \in 1 .. Len(n) : i \in 1 .. Len(hs) \/ i = Len(hs) + 1
  BY <1>1, <1>2
<1>4. \A i \in 1 .. Len(hs) : i \in 1 .. Len(n)
  BY <1>1, <1>2
<1>5. Len(hs) + 1 \in 1 .. Len(n)
  BY <1>1, <1>2
<1>6. \A i \in 1 .. Len(hs) : EnHueco(n, a, i) <=> EnHueco(hs, a, i)
  BY <1>2 DEF EnHueco
<1>7. EnHueco(n, a, Len(hs) + 1) <=> EnArea(a, h.base, h.tamanio)
  BY <1>2 DEF EnHueco
<1>8. Cubre(n, a) <=> Cubre(hs, a) \/ EnArea(a, h.base, h.tamanio)
  BY <1>3, <1>4, <1>5, <1>6, <1>7 DEF Cubre
<1>9. UnoSolo(hs, a) /\ ~ (Cubre(hs, a) /\ EnArea(a, h.base, h.tamanio)) => UnoSolo(n, a)
  BY <1>3, <1>6, <1>7 DEF Cubre, UnoSolo
<1>10. QED
  BY <1>8, <1>9 DEF n

\* Adding a list of areas at the end (proceso_liberar_memoria).
LEMMA ConcatenarCubre ==
  ASSUME NEW hs \in Seq(Hueco), NEW gs \in Seq(Hueco), NEW a \in Nat
  PROVE  /\ Cubre(hs \o gs, a) <=> Cubre(hs, a) \/ Cubre(gs, a)
         /\ UnoSolo(hs, a) /\ UnoSolo(gs, a) /\ ~ (Cubre(hs, a) /\ Cubre(gs, a))
              => UnoSolo(hs \o gs, a)
<1> DEFINE n == hs \o gs
           l == Len(hs)
<1>1. l \in Nat /\ Len(gs) \in Nat
  BY HuecosNumeros
<1>2. /\ Len(n) = l + Len(gs)
      /\ \A i \in 1 .. Len(n) : n[i] = IF i <= l THEN hs[i] ELSE gs[i - l]
  BY ConcatProperties
<1> HIDE DEF n, l
<1>3. ASSUME NEW i \in 1 .. Len(n)
      PROVE  \/ i \in 1 .. l /\ (EnHueco(n, a, i) <=> EnHueco(hs, a, i))
             \/ i - l \in 1 .. Len(gs) /\ (EnHueco(n, a, i) <=> EnHueco(gs, a, i - l))
  <2>1. CASE i <= l
    BY <1>1, <1>2, <2>1 DEF EnHueco
  <2>2. CASE ~ (i <= l)
    BY <1>1, <1>2, <2>2 DEF EnHueco
  <2>3. QED
    BY <2>1, <2>2
<1>4. ASSUME NEW i \in 1 .. l
      PROVE  i \in 1 .. Len(n) /\ (EnHueco(n, a, i) <=> EnHueco(hs, a, i))
  BY <1>1, <1>2 DEF EnHueco
<1>5. ASSUME NEW i \in 1 .. Len(gs)
      PROVE  i + l \in 1 .. Len(n) /\ (EnHueco(n, a, i + l) <=> EnHueco(gs, a, i))
  <2>1. i + l \in 1 .. Len(n) /\ ~ (i + l <= l) /\ (i + l) - l = i
    BY <1>1, <1>2
  <2>2. QED
    BY <1>2, <2>1 DEF EnHueco
<1>6. Cubre(n, a) <=> Cubre(hs, a) \/ Cubre(gs, a)
  BY <1>3, <1>4, <1>5 DEF Cubre, l
<1>7. ASSUME UnoSolo(hs, a), UnoSolo(gs, a), ~ (Cubre(hs, a) /\ Cubre(gs, a)),
             NEW i \in 1 .. Len(n), NEW j \in 1 .. Len(n),
             EnHueco(n, a, i), EnHueco(n, a, j)
      PROVE  i = j
  <2>1. \/ i \in 1 .. l /\ j \in 1 .. l /\ EnHueco(hs, a, i) /\ EnHueco(hs, a, j)
        \/ /\ i - l \in 1 .. Len(gs) /\ j - l \in 1 .. Len(gs)
           /\ EnHueco(gs, a, i - l) /\ EnHueco(gs, a, j - l)
    BY <1>3, <1>7 DEF Cubre, l
  <2>2. i = j \/ i - l = j - l
    BY <1>7, <2>1 DEF UnoSolo, l
  <2>3. QED
    BY <1>1, <2>2
<1>8. QED
  BY <1>6, <1>7 DEF UnoSolo, n

\* Taking one area out (list_remove).
LEMMA QuitarCubre ==
  ASSUME NEW hs \in Seq(Hueco), NEW k \in 1 .. Len(hs), NEW a \in Nat, UnoSolo(hs, a)
  PROVE  /\ Cubre(RemoveAt(hs, k), a) <=> Cubre(hs, a) /\ ~ EnHueco(hs, a, k)
         /\ UnoSolo(RemoveAt(hs, k), a)
<1> DEFINE n == RemoveAt(hs, k)
<1>1. Len(hs) \in Nat
  BY HuecosNumeros
<1>2. /\ Len(n) = Len(hs) - 1
      /\ \A i \in 1 .. Len(hs) - 1 : n[i] = IF i < k THEN hs[i] ELSE hs[i + 1]
  BY RemoveAtElementos
<1> HIDE DEF n
<1>3. ASSUME NEW i \in 1 .. Len(n)
      PROVE  \/ /\ i < k /\ i \in 1 .. Len(hs)
                /\ EnHueco(n, a, i) <=> EnHueco(hs, a, i)
             \/ /\ ~ (i < k) /\ i + 1 \in 1 .. Len(hs)
                /\ EnHueco(n, a, i) <=> EnHueco(hs, a, i + 1)
  <2>1. CASE i < k
    BY <1>1, <1>2, <2>1 DEF EnHueco
  <2>2. CASE ~ (i < k)
    BY <1>1, <1>2, <2>2 DEF EnHueco
  <2>3. QED
    BY <2>1, <2>2
<1>4. ASSUME NEW i \in 1 .. Len(hs), i # k, EnHueco(hs, a, i)
      PROVE  Cubre(n, a)
  <2>1. CASE i < k
    <3>1. i \in 1 .. Len(n) /\ EnHueco(n, a, i)
      BY <1>1, <1>2, <1>4, <2>1 DEF EnHueco
    <3>2. QED
      BY <3>1 DEF Cubre
  <2>2. CASE ~ (i < k)
    <3>1. i - 1 \in 1 .. Len(n) /\ ~ (i - 1 < k) /\ (i - 1) + 1 = i
      BY <1>1, <1>2, <1>4, <2>2
    <3>2. EnHueco(n, a, i - 1)
      BY <1>2, <1>4, <3>1 DEF EnHueco
    <3>3. QED
      BY <3>1, <3>2 DEF Cubre
  <2>3. QED
    BY <2>1, <2>2
<1>5. ASSUME NEW i \in 1 .. Len(n), EnHueco(n, a, i)
      PROVE  \E j \in 1 .. Len(hs) : j # k /\ EnHueco(hs, a, j)
  <2>1. CASE i < k
    BY <1>1, <1>3, <1>5, <2>1
  <2>2. CASE ~ (i < k)
    <3>1. i + 1 \in 1 .. Len(hs) /\ i + 1 # k /\ EnHueco(hs, a, i + 1)
      BY <1>1, <1>3, <1>5, <2>2
    <3>2. QED
      BY <3>1
  <2>3. QED
    BY <2>1, <2>2
<1>6. Cubre(n, a) <=> Cubre(hs, a) /\ ~ EnHueco(hs, a, k)
  BY <1>4, <1>5 DEF Cubre, UnoSolo
<1>7. ASSUME NEW i \in 1 .. Len(n), NEW j \in 1 .. Len(n),
             EnHueco(n, a, i), EnHueco(n, a, j)
      PROVE  i = j
  <2> DEFINE ii == IF i < k THEN i ELSE i + 1
             jj == IF j < k THEN j ELSE j + 1
  <2>1. ii \in 1 .. Len(hs) /\ EnHueco(hs, a, ii)
    BY <1>3, <1>7
  <2>2. jj \in 1 .. Len(hs) /\ EnHueco(hs, a, jj)
    BY <1>3, <1>7
  <2>3. ii = jj
    <3> HIDE DEF ii, jj
    <3>1. QED
      BY <2>1, <2>2 DEF UnoSolo
  <2>4. QED
    BY <1>1, <1>2, <2>3
<1>8. QED
  BY <1>6, <1>7 DEF UnoSolo, n

\* Changing one area for another that takes no address of the other ones.
LEMMA CambiarCubre ==
  ASSUME NEW hs \in Seq(Hueco), NEW k \in 1 .. Len(hs), NEW h \in Hueco,
         NEW a \in Nat, UnoSolo(hs, a),
         EnArea(a, h.base, h.tamanio) => EnHueco(hs, a, k) \/ ~ Cubre(hs, a)
  PROVE  LET n == [hs EXCEPT ![k] = h] IN
         /\ Cubre(n, a) <=> \/ EnArea(a, h.base, h.tamanio)
                            \/ Cubre(hs, a) /\ ~ EnHueco(hs, a, k)
         /\ UnoSolo(n, a)
<1> DEFINE n == [hs EXCEPT ![k] = h]
<1>1. /\ Len(n) = Len(hs)
      /\ n[k] = h
      /\ \A j \in 1 .. Len(hs) : j # k => n[j] = hs[j]
  BY ExceptSeq
<1> HIDE DEF n
<1>2. EnHueco(n, a, k) <=> EnArea(a, h.base, h.tamanio)
  BY <1>1 DEF EnHueco
<1>3. \A j \in 1 .. Len(hs) : j # k => (EnHueco(n, a, j) <=> EnHueco(hs, a, j))
  BY <1>1 DEF EnHueco
<1>4. Cubre(n, a) <=> \/ EnArea(a, h.base, h.tamanio)
                      \/ Cubre(hs, a) /\ ~ EnHueco(hs, a, k)
  BY <1>1, <1>2, <1>3 DEF Cubre, UnoSolo
<1>5. UnoSolo(n, a)
  BY <1>1, <1>2, <1>3 DEF Cubre, UnoSolo
<1>6. QED
  BY <1>4, <1>5 DEF n

\* hueco_ocupar takes exactly the first t bytes of the hole out of the free
\* memory.
LEMMA OcuparCubre ==
  ASSUME NEW hs \in Seq(Hueco), NEW k \in 1 .. Len(hs), NEW t \in Nat,
         hs[k].tamanio >= t, NEW a \in Nat, UnoSolo(hs, a)
  PROVE  /\ Cubre(HuecoOcupar(hs, k, t), a) <=> Cubre(hs, a) /\ ~ EnArea(a, hs[k].base, t)
         /\ UnoSolo(HuecoOcupar(hs, k, t), a)
         /\ EnArea(a, hs[k].base, t) => Cubre(hs, a)
<1> DEFINE h == [base |-> hs[k].base + t, tamanio |-> hs[k].tamanio - t]
<1>1. hs[k].base \in Nat /\ hs[k].tamanio \in Nat
  BY HuecosNumeros
<1>2. EnArea(a, hs[k].base, t) => EnHueco(hs, a, k)
  BY <1>1 DEF EnArea, EnHueco
<1>3. CASE hs[k].tamanio = t
  <2>1. HuecoOcupar(hs, k, t) = RemoveAt(hs, k)
    BY <1>3 DEF HuecoOcupar
  <2>2. EnHueco(hs, a, k) <=> EnArea(a, hs[k].base, t)
    BY <1>3 DEF EnHueco
  <2>3. QED
    BY <1>2, <2>1, <2>2, QuitarCubre DEF Cubre
<1>4. CASE hs[k].tamanio # t
  <2>1. h \in Hueco /\ h.base = hs[k].base + t /\ h.tamanio = hs[k].tamanio - t
    BY <1>1 DEF Hueco
  <2>2. EnArea(a, h.base, h.tamanio) <=> EnHueco(hs, a, k) /\ ~ EnArea(a, hs[k].base, t)
    BY <1>1, <2>1 DEF EnArea, EnHueco
  <2>3. HuecoOcupar(hs, k, t) = [hs EXCEPT ![k] = h]
    BY <1>4 DEF HuecoOcupar
  <2> HIDE DEF h
  <2>4. /\ Cubre([hs EXCEPT ![k] = h], a) <=> \/ EnArea(a, h.base, h.tamanio)
                                              \/ Cubre(hs, a) /\ ~ EnHueco(hs, a, k)
        /\ UnoSolo([hs EXCEPT ![k] = h], a)
    BY <2>1, <2>2, CambiarCubre
  <2>5. QED
    BY <1>2, <2>2, <2>3, <2>4 DEF Cubre
<1>5. QED
  BY <1>3, <1>4

\* huecos_extender adds exactly the new memory.
LEMMA ExtenderCubre ==
  ASSUME NEW hs \in Seq(Hueco), NEW b \in Nat, NEW t \in Nat, NEW a \in Nat,
         UnoSolo(hs, a), ~ (Cubre(hs, a) /\ EnArea(a, b, t))
  PROVE  /\ Cubre(HuecosExtender(hs, b, t), a) <=> Cubre(hs, a) \/ EnArea(a, b, t)
         /\ UnoSolo(HuecosExtender(hs, b, t), a)
<1>1. Len(hs) \in Nat
  BY HuecosNumeros
<1>2. CASE hs # <<>> /\ hs[Len(hs)].base + hs[Len(hs)].tamanio = b
  <2> DEFINE k == Len(hs)
             h == [base |-> hs[k].base, tamanio |-> hs[k].tamanio + t]
  <2>1. k \in 1 .. Len(hs)
    BY <1>1, <1>2, EmptySeq
  <2>2. hs[k].base \in Nat /\ hs[k].tamanio \in Nat
    BY <2>1, HuecosNumeros
  <2>3. h \in Hueco /\ h.base = hs[k].base /\ h.tamanio = hs[k].tamanio + t
    BY <2>2 DEF Hueco
  <2>4. EnArea(a, h.base, h.tamanio) <=> EnHueco(hs, a, k) \/ EnArea(a, b, t)
    BY <1>2, <2>2, <2>3 DEF EnArea, EnHueco
  <2>5. HuecosExtender(hs, b, t) = [hs EXCEPT ![k] = h]
    BY <1>2 DEF HuecosExtender
  <2>6. EnHueco(hs, a, k) => Cubre(hs, a)
    BY <2>1 DEF Cubre
  <2> HIDE DEF h, k
  <2>7. /\ Cubre([hs EXCEPT ![k] = h], a) <=> \/ EnArea(a, h.base, h.tamanio)
                                              \/ Cubre(hs, a) /\ ~ EnHueco(hs, a, k)
        /\ UnoSolo([hs EXCEPT ![k] = h], a)
    BY <2>1, <2>3, <2>4, CambiarCubre
  <2>8. QED
    BY <2>4, <2>5, <2>6, <2>7
<1>3. CASE ~ (hs # <<>> /\ hs[Len(hs)].base + hs[Len(hs)].tamanio = b)
  <2>1. HuecosExtender(hs, b, t) = Append(hs, [base |-> b, tamanio |-> t])
    BY <1>3 DEF HuecosExtender
  <2>2. [base |-> b, tamanio |-> t] \in Hueco
    BY DEF Hueco
  <2>3. QED
    BY <2>1, <2>2, AgregarCubre
<1>4. QED
  BY <1>2, <1>3

\* huecos_reconstruir leaves free exactly what lies from the base on.
LEMMA ReconstruirCubre ==
  ASSUME NEW b \in Nat, NEW total \in Nat, NEW a \in Nat
  PROVE  /\ Cubre(HuecosReconstruir(b, total), a) <=> b <= a /\ a < total
         /\ UnoSolo(HuecosReconstruir(b, total), a)
<1> DEFINE n == HuecosReconstruir(b, total)
<1>1. CASE b < total
  <2>1. n = << [base |-> b, tamanio |-> total - b] >>
    BY <1>1 DEF HuecosReconstruir
  <2>2. Len(n) = 1 /\ n[1].base = b /\ n[1].tamanio = total - b
    BY <2>1
  <2> HIDE DEF n
  <2>3. \A i \in 1 .. Len(n) : i = 1
    BY <2>2
  <2>4. EnHueco(n, a, 1) <=> b <= a /\ a < total
    BY <1>1, <2>2 DEF EnHueco, EnArea
  <2>5. Cubre(n, a) <=> EnHueco(n, a, 1)
    BY <2>2, <2>3 DEF Cubre
  <2>6. UnoSolo(n, a)
    BY <2>3 DEF UnoSolo
  <2>7. QED
    BY <2>4, <2>5, <2>6 DEF n
<1>2. CASE ~ (b < total)
  <2>1. n = <<>>
    BY <1>2 DEF HuecosReconstruir
  <2>2. Len(n) = 0
    BY <2>1
  <2>3. ~ Cubre(n, a) /\ UnoSolo(n, a)
    BY <2>2 DEF Cubre, UnoSolo
  <2>4. QED
    BY <1>2, <2>3
<1>3. QED
  BY <1>1, <1>2

\* Two areas that have no address in common are apart.
LEMMA DisjuntasPorDireccion ==
  ASSUME NEW b1 \in Nat, NEW t1 \in Nat, NEW b2 \in Nat, NEW t2 \in Nat,
         \A a \in Nat : ~ (EnArea(a, b1, t1) /\ EnArea(a, b2, t2))
  PROVE  Disjuntas(b1, t1, b2, t2)
<1>1. ~ (EnArea(b1, b1, t1) /\ EnArea(b1, b2, t2))
  OBVIOUS
<1>2. ~ (EnArea(b2, b1, t1) /\ EnArea(b2, b2, t2))
  OBVIOUS
<1>3. QED
  BY <1>1, <1>2 DEF EnArea, Disjuntas

-----------------------------------------------------------------------------
\* One more element at the end adds its value to the last sum.
LEMMA SumasAgregar ==
  ASSUME NEW a \in Seq(Nat), NEW b \in Seq(Nat), Len(b) = Len(a) + 1,
         \A k \in 1 .. Len(a) : b[k] = a[k]
  PROVE  /\ \A k \in 0 .. Len(a) : Sumas(b)[k] = Sumas(a)[k]
         /\ Sumas(b)[Len(b)] = Sumas(a)[Len(a)] + b[Len(b)]
<1> DEFINE B == {k \in 0 .. Len(a) : Sumas(b)[k] = Sumas(a)[k]}
<1>0. Len(a) \in Nat
  BY LenProperties
<1>1. /\ Sumas(a)[0] = 0 /\ Sumas(b)[0] = 0
      /\ \A k \in 1 .. Len(a) : Sumas(a)[k] = Sumas(a)[k - 1] + a[k]
      /\ \A k \in 1 .. Len(b) : Sumas(b)[k] = Sumas(b)[k - 1] + b[k]
  BY SumasPasoAPaso
<1>2. 0 \in B
  BY <1>0, <1>1
<1>3. ASSUME NEW k \in 0 .. Len(a) - 1, k \in B PROVE k + 1 \in B
  <2>1. k + 1 \in 1 .. Len(a) /\ k + 1 \in 1 .. Len(b) /\ (k + 1) - 1 = k
    BY <1>0
  <2>2. /\ Sumas(a)[k + 1] = Sumas(a)[k] + a[k + 1]
        /\ Sumas(b)[k + 1] = Sumas(b)[k] + b[k + 1]
    BY <1>1, <2>1
  <2>3. QED
    BY <1>3, <2>1, <2>2
<1>4. 0 .. Len(a) \subseteq B
  <2> HIDE DEF B
  <2>1. QED
    BY <1>0, <1>2, <1>3, InduccionHasta
<1>5. \A k \in 0 .. Len(a) : Sumas(b)[k] = Sumas(a)[k]
  BY <1>4
<1>6. Len(b) \in 1 .. Len(b) /\ Len(b) - 1 = Len(a) /\ Len(a) \in 0 .. Len(a)
  BY <1>0
<1>7. Sumas(b)[Len(b)] = Sumas(b)[Len(a)] + b[Len(b)]
  BY <1>1, <1>6
<1>8. QED
  BY <1>5, <1>6, <1>7

\* A number below the last sum falls between two consecutive ones: the search
\* of memory_stick_localizar always finds where an address is.
LEMMA SumasTramo ==
  ASSUME NEW a \in Seq(Nat), NEW d \in Nat, d < Sumas(a)[Len(a)]
  PROVE  \E k \in 1 .. Len(a) : Sumas(a)[k - 1] <= d /\ d < Sumas(a)[k - 1] + a[k]
<1> DEFINE T == {k \in 0 .. Len(a) : d < Sumas(a)[k]}
<1>0. Len(a) \in Nat
  BY LenProperties
<1>1. /\ Sumas(a) \in [0 .. Len(a) -> Nat] /\ Sumas(a)[0] = 0
      /\ \A k \in 1 .. Len(a) : Sumas(a)[k] = Sumas(a)[k - 1] + a[k]
  BY SumasPasoAPaso
<1>2. T \in SUBSET Nat /\ Len(a) \in T
  BY <1>0
<1>3. PICK m \in T : \A k \in T : m <= k
  BY <1>2, MinimoNat
<1>4. m # 0 /\ m \in 1 .. Len(a)
  BY <1>0, <1>1
<1>5. m - 1 \notin T /\ m - 1 \in 0 .. Len(a)
  BY <1>0, <1>3, <1>4
<1>6. Sumas(a)[m - 1] <= d
  <2>1. Sumas(a)[m - 1] \in Nat
    BY <1>1, <1>5
  <2>2. ~ (d < Sumas(a)[m - 1])
    BY <1>5
  <2> HIDE DEF T
  <2>3. QED
    BY <2>1, <2>2
<1>7. d < Sumas(a)[m - 1] + a[m]
  BY <1>1, <1>4
<1>8. QED
  BY <1>4, <1>6, <1>7

\* The bytes of the holes, as the sizes of huecos_total_libre add them up, are
\* the addresses that the holes hold when no two of them overlap.
LEMMA TotalLibreCuenta ==
  ASSUME NEW hs \in Seq(Hueco), \A a \in Nat : UnoSolo(hs, a)
  PROVE  /\ IsFiniteSet({a \in Nat : Cubre(hs, a)})
         /\ Cardinality({a \in Nat : Cubre(hs, a)}) = HuecosTotalLibre(hs)
<1> DEFINE ts == [i \in DOMAIN hs |-> hs[i].tamanio]
           C(k) == {a \in Nat : \E i \in 1 .. k : EnHueco(hs, a, i)}
           B == {k \in 0 .. Len(hs) : /\ IsFiniteSet(C(k))
                                      /\ Cardinality(C(k)) = Sumas(ts)[k]}
<1>0. /\ Len(hs) \in Nat /\ DOMAIN hs = 1 .. Len(hs)
      /\ \A i \in 1 .. Len(hs) : hs[i].base \in Nat /\ hs[i].tamanio \in Nat
  BY HuecosNumeros
<1>1. ts \in Seq(Nat) /\ Len(ts) = Len(hs) /\ \A i \in 1 .. Len(hs) : ts[i] = hs[i].tamanio
  <2>1. ts \in [1 .. Len(hs) -> Nat]
    BY <1>0
  <2>2. QED
    BY <1>0, <2>1, FuncionEsSeq
<1> HIDE DEF ts
<1>2. /\ Sumas(ts)[0] = 0
      /\ \A k \in 1 .. Len(hs) : Sumas(ts)[k] = Sumas(ts)[k - 1] + hs[k].tamanio
  <2>1. /\ Sumas(ts)[0] = 0
        /\ \A k \in 1 .. Len(ts) : Sumas(ts)[k] = Sumas(ts)[k - 1] + ts[k]
    BY <1>1, SumasPasoAPaso
  <2>2. QED
    BY <1>1, <2>1
<1>3. 0 \in B
  <2>1. C(0) = {}
    OBVIOUS
  <2> HIDE DEF C
  <2>2. IsFiniteSet(C(0)) /\ Cardinality(C(0)) = Sumas(ts)[0]
    BY <1>2, <2>1, FS_EmptySet
  <2>3. 0 \in 0 .. Len(hs)
    BY <1>0
  <2>4. QED
    BY <2>2, <2>3
<1>4. ASSUME NEW k \in 0 .. Len(hs) - 1, k \in B PROVE k + 1 \in B
  <2> DEFINE n == k + 1
             I == hs[n].base .. hs[n].base + hs[n].tamanio - 1
  <2>1. n \in 1 .. Len(hs) /\ n - 1 = k
    BY <1>0
  <2>2. hs[n].base \in Nat /\ hs[n].tamanio \in Nat
    BY <1>0, <2>1
  <2>3. \A a \in Nat : EnHueco(hs, a, n) <=> a \in I
    BY <2>2 DEF EnHueco, EnArea
  <2>4. I \subseteq Nat
    BY <2>2
  <2>5. IsFiniteSet(I) /\ Cardinality(I) = hs[n].tamanio
    <3>1. hs[n].base \in Int /\ hs[n].base + hs[n].tamanio - 1 \in Int
      BY <2>2
    <3>2. /\ IsFiniteSet(I)
          /\ Cardinality(I) = IF hs[n].base > hs[n].base + hs[n].tamanio - 1 THEN 0
                              ELSE (hs[n].base + hs[n].tamanio - 1) - hs[n].base + 1
      BY <3>1, FS_Interval
    <3>3. QED
      BY <2>2, <3>2
  <2> HIDE DEF I
  <2>6. \A i \in 1 .. n : i \in 1 .. k \/ i = n
    BY <2>1
  <2>7. 1 .. k \subseteq 1 .. n /\ n \in 1 .. n
    BY <2>1
  <2>8. C(n) = C(k) \cup I
    BY <2>3, <2>4, <2>6, <2>7
  <2>9. C(k) \cap I = {}
    <3> SUFFICES ASSUME NEW a \in Nat, NEW i \in 1 .. k, EnHueco(hs, a, i), a \in I
                 PROVE  FALSE
      OBVIOUS
    <3>1. i \in 1 .. Len(hs) /\ i # n
      BY <1>0
    <3>2. QED
      BY <2>1, <2>3, <3>1 DEF UnoSolo
  <2>10. IsFiniteSet(C(k)) /\ Cardinality(C(k)) = Sumas(ts)[k] /\ Cardinality(C(k)) \in Nat
    BY <1>4, FS_CardinalityType
  <2> HIDE DEF C
  <2>11. /\ IsFiniteSet(C(k) \cup I)
         /\ Cardinality(C(k) \cup I)
              = Cardinality(C(k)) + Cardinality(I) - Cardinality(C(k) \cap I)
    BY <2>5, <2>10, FS_Union
  <2>12. Cardinality(C(n)) = Cardinality(C(k)) + hs[n].tamanio
    <3>1. Cardinality(C(k) \cap I) = 0
      BY <2>9, FS_EmptySet
    <3>2. Cardinality(C(n)) = Cardinality(C(k)) + Cardinality(I) - 0
      BY <2>8, <2>11, <3>1
    <3> HIDE DEF n
    <3>3. QED
      BY <2>2, <2>5, <2>10, <3>2
  <2>13. Sumas(ts)[n] = Sumas(ts)[k] + hs[n].tamanio
    BY <1>2, <2>1
  <2>14. IsFiniteSet(C(n)) /\ Cardinality(C(n)) = Sumas(ts)[n]
    BY <2>8, <2>10, <2>11, <2>12, <2>13
  <2>15. n \in 0 .. Len(hs)
    BY <2>1
  <2>16. QED
    BY <2>14, <2>15
<1>5. Len(hs) \in B
  <2>1. 0 .. Len(hs) \subseteq B
    <3> HIDE DEF B
    <3>1. QED
      BY <1>0, <1>3, <1>4, InduccionHasta
  <2>2. Len(hs) \in 0 .. Len(hs)
    BY <1>0
  <2> HIDE DEF B
  <2>3. QED
    BY <2>1, <2>2
<1>6. C(Len(hs)) = {a \in Nat : Cubre(hs, a)}
  BY DEF Cubre
<1>7. HuecosTotalLibre(hs) = Sumas(ts)[Len(hs)]
  BY DEF HuecosTotalLibre, ts
<1>8. QED
  BY <1>5, <1>6, <1>7

\* The sizes of a free list have a bound.
LEMMA TamaniosAcotados ==
  ASSUME NEW hs \in Seq(Hueco)
  PROVE  \E m \in Nat : \A i \in 1 .. Len(hs) : hs[i].tamanio <= m
<1> DEFINE B == {k \in 0 .. Len(hs) : \E m \in Nat : \A i \in 1 .. k : hs[i].tamanio <= m}
<1>1. /\ Len(hs) \in Nat
      /\ \A i \in 1 .. Len(hs) : hs[i].tamanio \in Nat
  BY HuecosNumeros
<1>2. 0 \in B
  <2>1. 0 \in 0 .. Len(hs) /\ 0 \in Nat /\ \A i \in 1 .. 0 : hs[i].tamanio <= 0
    BY <1>1
  <2>2. QED
    BY <2>1
<1>3. ASSUME NEW k \in 0 .. Len(hs) - 1, k \in B
      PROVE  k + 1 \in B
  <2>1. PICK m \in Nat : \A i \in 1 .. k : hs[i].tamanio <= m
    BY <1>3
  <2>2. k + 1 \in 1 .. Len(hs) /\ k + 1 \in 0 .. Len(hs)
    BY <1>1
  <2>3. hs[k + 1].tamanio \in Nat
    BY <1>1, <2>2
  <2>4. m + hs[k + 1].tamanio \in Nat
    BY <2>3
  <2>5. ASSUME NEW i \in 1 .. k + 1 PROVE hs[i].tamanio <= m + hs[k + 1].tamanio
    <3>1. CASE i = k + 1
      BY <2>3, <3>1
    <3>2. CASE i # k + 1
      <4>1. i \in 1 .. k /\ i \in 1 .. Len(hs)
        BY <1>1, <3>2
      <4>2. hs[i].tamanio \in Nat /\ hs[i].tamanio <= m
        BY <1>1, <2>1, <4>1
      <4>3. QED
        BY <2>3, <4>2
    <3>3. QED
      BY <3>1, <3>2
  <2>6. QED
    BY <2>2, <2>4, <2>5
<1> HIDE DEF B
<1>4. 0 .. Len(hs) \subseteq B
  BY <1>1, <1>2, <1>3, InduccionHasta
<1>5. Len(hs) \in B
  BY <1>1, <1>4
<1>6. QED
  BY <1>5 DEF B

\* The search finds a hole whenever there is one.
LEMMA BuscarHuecoEncuentra ==
  ASSUME NEW hs \in Seq(Hueco), NEW t \in Nat, NEW best \in BOOLEAN,
         NEW i \in 1 .. Len(hs), t <= hs[i].tamanio
  PROVE  BuscarHueco(best, hs, t) # SinHueco
<1> DEFINE C == Candidatos(hs, t)
<1>1. /\ DOMAIN hs = 1 .. Len(hs) /\ Len(hs) \in Nat
      /\ \A j \in 1 .. Len(hs) : hs[j].tamanio \in Nat
  BY HuecosNumeros
<1>2. /\ i \in C
      /\ \A j \in C : j \in 1 .. Len(hs) /\ j \in Nat /\ j # SinHueco /\ hs[j].tamanio \in Nat
  BY <1>1 DEF Candidatos, SinHueco
<1> HIDE DEF C
<1>3. \E j \in C : EsBestFit(hs, t, j)
  <2> DEFINE T == {hs[j].tamanio : j \in C}
  <2>1. T \in SUBSET Nat /\ T # {}
    BY <1>2
  <2>2. PICK m \in T : \A y \in T : m <= y
    BY <2>1, MinimoNat
  <2> DEFINE I == {j \in C : hs[j].tamanio = m}
  <2>3. I \in SUBSET Nat /\ I # {}
    BY <1>2, <2>2
  <2>4. PICK j \in I : \A y \in I : j <= y
    BY <2>3, MinimoNat
  <2>5. m \in Nat
    BY <2>1, <2>2
  <2>6. j \in C /\ hs[j].tamanio = m
    BY <2>4
  <2>7. ASSUME NEW y \in C
        PROVE  hs[j].tamanio < hs[y].tamanio \/ (hs[j].tamanio = hs[y].tamanio /\ j <= y)
    <3>1. m <= hs[y].tamanio /\ hs[y].tamanio \in Nat
      BY <1>2, <2>2
    <3>2. hs[y].tamanio = m => j <= y
      BY <2>4
    <3>3. QED
      BY <2>5, <2>6, <3>1, <3>2
  <2>8. QED
    BY <2>6, <2>7 DEF EsBestFit, C
<1>4. \E j \in C : EsWorstFit(hs, t, j)
  <2>1. PICK M \in Nat : \A j \in 1 .. Len(hs) : hs[j].tamanio <= M
    BY TamaniosAcotados
  <2> DEFINE T == {M - hs[j].tamanio : j \in C}
  <2>2. \A j \in C : M - hs[j].tamanio \in Nat
    <3>1. ASSUME NEW j \in C PROVE M - hs[j].tamanio \in Nat
      <4>1. hs[j].tamanio <= M /\ hs[j].tamanio \in Nat
        BY <1>2, <2>1
      <4>2. QED
        BY <4>1
    <3>2. QED
      BY <3>1
  <2>3. T \in SUBSET Nat /\ T # {}
    BY <1>2, <2>2
  <2>4. PICK m \in T : \A y \in T : m <= y
    BY <2>3, MinimoNat
  <2> DEFINE I == {j \in C : M - hs[j].tamanio = m}
  <2>5. I \in SUBSET Nat /\ I # {}
    BY <1>2, <2>4
  <2>6. PICK j \in I : \A y \in I : j <= y
    BY <2>5, MinimoNat
  <2>7. j \in C /\ M - hs[j].tamanio = m /\ hs[j].tamanio \in Nat
    BY <1>2, <2>6
  <2>8. ASSUME NEW y \in C
        PROVE  hs[j].tamanio > hs[y].tamanio \/ (hs[j].tamanio = hs[y].tamanio /\ j <= y)
    <3>1. m <= M - hs[y].tamanio /\ hs[y].tamanio \in Nat
      BY <1>2, <2>4
    <3>2. M - hs[y].tamanio = m => j <= y
      BY <2>6
    <3>3. QED
      BY <2>1, <2>7, <3>1, <3>2
  <2>9. QED
    BY <2>7, <2>8 DEF EsWorstFit, C
<1>5. BuscarHueco(best, hs, t) \in C
  BY <1>3, <1>4 DEF BuscarHueco, BuscarHuecoBestFit, BuscarHuecoWorstFit, C
<1>6. QED
  BY <1>2, <1>5

-----------------------------------------------------------------------------
(* The messages of a connection.                                            *)

\* A message at the end of a connection.
LEMMA MensajeAgregado ==
  ASSUME NEW S, NEW s \in Seq(S), NEW m
  PROVE  /\ \A i \in DOMAIN s : i \in DOMAIN Append(s, m) /\ Append(s, m)[i] = s[i]
         /\ \A i \in DOMAIN Append(s, m) :
              \/ i = Len(s) + 1 /\ Append(s, m)[i] = m
              \/ i \in DOMAIN s /\ Append(s, m)[i] = s[i]
         /\ Len(Append(s, m)) = Len(s) + 1 /\ Len(s) \in Nat
         /\ DOMAIN s = 1 .. Len(s)
<1>1. Len(s) \in Nat /\ DOMAIN s = 1 .. Len(s)
  BY LenProperties
<1>2. s \in Seq(S \cup {m}) /\ m \in S \cup {m}
  OBVIOUS
<1>3. /\ Append(s, m) \in Seq(S \cup {m}) /\ Len(Append(s, m)) = Len(s) + 1
      /\ \A i \in 1 .. Len(s) : Append(s, m)[i] = s[i]
      /\ Append(s, m)[Len(s) + 1] = m
  BY <1>2, AppendProperties
<1>4. DOMAIN Append(s, m) = 1 .. Len(s) + 1
  BY <1>3, LenProperties
<1>5. QED
  BY <1>1, <1>2, <1>3, <1>4

\* The first message of a connection is taken.
LEMMA MensajeQuitado ==
  ASSUME NEW S, NEW s \in Seq(S), s # <<>>
  PROVE  /\ \A i \in DOMAIN Tail(s) : i + 1 \in DOMAIN s /\ Tail(s)[i] = s[i + 1]
         /\ 1 \in DOMAIN s /\ Head(s) = s[1]
         /\ Len(Tail(s)) = Len(s) - 1 /\ Len(s) \in Nat
         /\ Tail(s) \in Seq(S)
         /\ DOMAIN Tail(s) = 1 .. Len(s) - 1 /\ DOMAIN s = 1 .. Len(s)
<1>1. /\ Tail(s) \in Seq(S) /\ Len(Tail(s)) = Len(s) - 1
      /\ \A i \in 1 .. Len(Tail(s)) : Tail(s)[i] = s[i + 1]
  BY HeadTailProperties
<1>2. Len(s) \in Nat /\ DOMAIN s = 1 .. Len(s) /\ DOMAIN Tail(s) = 1 .. Len(Tail(s))
  BY <1>1, LenProperties
<1>3. Len(s) # 0
  BY EmptySeq
<1>4. QED
  BY <1>1, <1>2, <1>3
=============================================================================
