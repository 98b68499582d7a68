------------------------- MODULE ConfigCarryProofs -------------------------
(***************************************************************************)
(* Proofs about the configuration of a container, for any environment of   *)
(* the user and any sequence of images.                                    *)
(***************************************************************************)
EXTENDS ConfigCarry, FiniteSetTheorems, FunctionTheorems, TLAPS

-----------------------------------------------------------------------------
\* Positions, in their order.

UpTo(I, i) == {j \in I : j <= i}

LEMMA SubsetCard ==
  ASSUME NEW S, IsFiniteSet(S), NEW T, T \subseteq S
  PROVE  /\ IsFiniteSet(T)
         /\ Cardinality(S) \in Nat /\ Cardinality(T) \in Nat
         /\ Cardinality(T) <= Cardinality(S)
         /\ Cardinality(S) = Cardinality(T) => S = T
<1>1. T \in SUBSET S
  OBVIOUS
<1>2. IsFiniteSet(T) /\ Cardinality(T) <= Cardinality(S) /\ (Cardinality(S) = Cardinality(T) => S = T)
  BY <1>1, FS_Subset, Zenon
<1>3. Cardinality(S) \in Nat /\ Cardinality(T) \in Nat
  BY <1>2, FS_CardinalityType, Zenon
<1>4. QED BY <1>2, <1>3

LEMMA PositionsFinite ==
  ASSUME NEW n \in Nat, NEW I, I \subseteq 1 .. n
  PROVE  IsFiniteSet(I) /\ Cardinality(I) \in Nat
<1>1. IsFiniteSet(1 .. n)
  <2>1. 1 \in Int /\ n \in Int
    OBVIOUS
  <2>2. QED BY <2>1, FS_Interval, Zenon
<1>2. QED BY <1>1, SubsetCard, Zenon

LEMMA UpToCard ==
  ASSUME NEW n \in Nat, NEW I, I \subseteq 1 .. n, NEW i \in I
  PROVE  /\ IsFiniteSet(UpTo(I, i))
         /\ Cardinality(UpTo(I, i)) \in 1 .. Cardinality(I)
<1>1. IsFiniteSet(I)
  BY PositionsFinite, Zenon
<1>2. UpTo(I, i) \subseteq I /\ i \in UpTo(I, i)
  BY DEF UpTo
<1>3. /\ IsFiniteSet(UpTo(I, i)) /\ Cardinality(UpTo(I, i)) <= Cardinality(I)
      /\ Cardinality(UpTo(I, i)) \in Nat /\ Cardinality(I) \in Nat
  BY <1>1, <1>2, SubsetCard, Zenon
<1>4. Cardinality(UpTo(I, i)) # 0
  BY <1>2, <1>3, FS_EmptySet, Zenon
<1>5. QED BY <1>3, <1>4

\* A later position has more up to it.
LEMMA UpToGrows ==
  ASSUME NEW n \in Nat, NEW I, I \subseteq 1 .. n, NEW i \in I, NEW k \in I, i < k
  PROVE  Cardinality(UpTo(I, i)) < Cardinality(UpTo(I, k))
<1>1. UpTo(I, i) \subseteq UpTo(I, k) /\ UpTo(I, i) # UpTo(I, k)
  <2>1. k \in UpTo(I, k) /\ k \notin UpTo(I, i)
    BY DEF UpTo
  <2>2. UpTo(I, i) \subseteq UpTo(I, k)
    <3>1. ASSUME NEW j \in I, j <= i
          PROVE  j <= k
      <4>1. i \in Nat /\ j \in Nat /\ k \in Nat
        OBVIOUS
      <4>2. QED BY <3>1, <4>1
    <3>2. QED BY <3>1 DEF UpTo
  <2>3. QED BY <2>1, <2>2, Zenon
<1>2. IsFiniteSet(UpTo(I, k))
  BY UpToCard, Zenon
<1>3. /\ Cardinality(UpTo(I, i)) \in Nat /\ Cardinality(UpTo(I, k)) \in Nat
      /\ Cardinality(UpTo(I, i)) <= Cardinality(UpTo(I, k))
      /\ Cardinality(UpTo(I, i)) # Cardinality(UpTo(I, k))
  BY <1>1, <1>2, SubsetCard, Zenon
<1>4. QED BY <1>3

\* So the positions correspond to 1, 2 and so on.
LEMMA NthPosition ==
  ASSUME NEW n \in Nat, NEW I, I \subseteq 1 .. n
  PROVE  /\ Cardinality(I) \in Nat
         /\ \A m \in 1 .. Cardinality(I) :
              Nth(I, m) \in I /\ Cardinality(UpTo(I, Nth(I, m))) = m
         /\ \A i \in I :
              /\ Cardinality(UpTo(I, i)) \in 1 .. Cardinality(I)
              /\ Nth(I, Cardinality(UpTo(I, i))) = i
<1>. DEFINE rank == [i \in I |-> Cardinality(UpTo(I, i))]
            N == 1 .. Cardinality(I)
<1>1. IsFiniteSet(I) /\ Cardinality(I) \in Nat
  BY PositionsFinite, Zenon
<1>2. \A i \in I : Cardinality(UpTo(I, i)) \in N
  BY UpToCard, Zenon
<1>3. \A i, k \in I : Cardinality(UpTo(I, i)) = Cardinality(UpTo(I, k)) => i = k
  <2>1. ASSUME NEW i \in I, NEW k \in I, i < k
        PROVE  Cardinality(UpTo(I, i)) # Cardinality(UpTo(I, k))
    <3>1. Cardinality(UpTo(I, i)) < Cardinality(UpTo(I, k))
      BY <2>1, UpToGrows, Zenon
    <3>2. Cardinality(UpTo(I, i)) \in Nat
      BY <1>1, <1>2
    <3>3. QED BY <3>1, <3>2
  <2>2. \A i, k \in I : i < k \/ k < i \/ i = k
    OBVIOUS
  <2>3. QED BY <2>1, <2>2, Zenon
<1>4. rank \in [I -> N] /\ \A i, k \in I : rank[i] = rank[k] => i = k
  BY <1>2, <1>3
<1>5. IsFiniteSet(N) /\ Cardinality(N) = Cardinality(I)
  <2>1. 1 \in Int /\ Cardinality(I) \in Int
    BY <1>1
  <2>2. /\ IsFiniteSet(1 .. Cardinality(I))
        /\ Cardinality(1 .. Cardinality(I)) = IF 1 > Cardinality(I) THEN 0 ELSE Cardinality(I) - 1 + 1
    BY <2>1, FS_Interval, Zenon
  <2>3. QED BY <1>1, <2>2
<1>6. \A m \in N : \E i \in I : rank[i] = m
  <2>. HIDE DEF rank, N
  <2>1. rank \in Injection(I, N)
    BY <1>4, Fun_IsInj, Zenon
  <2>2. rank \in Surjection(I, N)
    BY <1>5, <2>1, FS_Injection, Zenon
  <2>3. QED BY <2>2, Fun_SurjectionProperties, Zenon
<1>7. \A m \in N : Nth(I, m) \in I /\ Cardinality(UpTo(I, Nth(I, m))) = m
  BY <1>6 DEF Nth, UpTo
<1>8. \A i \in I : Nth(I, Cardinality(UpTo(I, i))) = i
  BY <1>2, <1>3, <1>7
<1>9. QED BY <1>1, <1>2, <1>7, <1>8

-----------------------------------------------------------------------------
\* The entries picked at positions of a sequence.

\* Pick gives one entry for each position, in their order.
LEMMA Picked ==
  ASSUME NEW S, NEW s \in Seq(S), NEW I, I \subseteq DOMAIN s
  PROVE  /\ Pick(s, I) \in Seq(S)
         /\ Len(Pick(s, I)) = Cardinality(I)
         /\ DOMAIN Pick(s, I) = 1 .. Cardinality(I)
         /\ \A n \in DOMAIN Pick(s, I) : Nth(I, n) \in I /\ Pick(s, I)[n] = s[Nth(I, n)]
         /\ \A m, n \in DOMAIN Pick(s, I) : m < n => Nth(I, m) < Nth(I, n)
         /\ \A i \in I : \E n \in DOMAIN Pick(s, I) : Nth(I, n) = i
<1>1. Len(s) \in Nat /\ DOMAIN s = 1 .. Len(s)
  OBVIOUS
<1>2. I \subseteq 1 .. Len(s)
  BY <1>1, Zenon
<1>3. /\ Cardinality(I) \in Nat
      /\ \A m \in 1 .. Cardinality(I) :
           Nth(I, m) \in I /\ Cardinality(UpTo(I, Nth(I, m))) = m
      /\ \A i \in I :
           /\ Cardinality(UpTo(I, i)) \in 1 .. Cardinality(I)
           /\ Nth(I, Cardinality(UpTo(I, i))) = i
  BY <1>1, <1>2, NthPosition, Zenon
<1>4. DOMAIN Pick(s, I) = 1 .. Cardinality(I)
  BY DEF Pick
<1>5. \A n \in 1 .. Cardinality(I) : Pick(s, I)[n] = s[Nth(I, n)]
  BY DEF Pick
<1>6. \A n \in 1 .. Cardinality(I) : s[Nth(I, n)] \in S
  BY <1>1, <1>2, <1>3
<1>7. Pick(s, I) \in Seq(S) /\ Len(Pick(s, I)) = Cardinality(I)
  <2>1. Pick(s, I) \in [1 .. Cardinality(I) -> S]
    BY <1>6 DEF Pick
  <2>2. QED BY <1>3, <2>1
<1>8. \A m, n \in 1 .. Cardinality(I) : m < n => Nth(I, m) < Nth(I, n)
  <2>1. SUFFICES ASSUME NEW m \in 1 .. Cardinality(I), NEW n \in 1 .. Cardinality(I), m < n
                 PROVE  Nth(I, m) < Nth(I, n)
    BY Zenon
  <2>2. Nth(I, m) \in I /\ Nth(I, n) \in I /\ Nth(I, m) \in Nat /\ Nth(I, n) \in Nat
    BY <1>2, <1>3
  <2>3. Cardinality(UpTo(I, Nth(I, m))) = m /\ Cardinality(UpTo(I, Nth(I, n))) = n
    BY <1>3, Zenon
  <2>4. Nth(I, m) # Nth(I, n)
    BY <2>1, <2>3, <1>3
  <2>5. ASSUME Nth(I, n) < Nth(I, m)
        PROVE  FALSE
    <3>1. Cardinality(UpTo(I, Nth(I, n))) < Cardinality(UpTo(I, Nth(I, m)))
      BY <1>1, <1>2, <2>2, <2>5, UpToGrows, Zenon
    <3>2. n < m
      BY <2>3, <3>1, Zenon
    <3>3. QED BY <2>1, <3>2, <1>3
  <2>6. QED BY <2>2, <2>4, <2>5
<1>9. \A i \in I : \E n \in 1 .. Cardinality(I) : Nth(I, n) = i
  BY <1>3, Zenon
<1>10. QED BY <1>3, <1>4, <1>5, <1>7, <1>8, <1>9, Zenon

LEMMA PickedKeys ==
  ASSUME NEW S, NEW s \in Seq(S), NEW I, I \subseteq DOMAIN s
  PROVE  KeysOf(Pick(s, I)) = {s[i].key : i \in I}
<1>1. /\ Pick(s, I) \in Seq(S)
      /\ Len(Pick(s, I)) = Cardinality(I)
      /\ DOMAIN Pick(s, I) = 1 .. Cardinality(I)
      /\ \A n \in DOMAIN Pick(s, I) : Nth(I, n) \in I /\ Pick(s, I)[n] = s[Nth(I, n)]
      /\ \A m, n \in DOMAIN Pick(s, I) : m < n => Nth(I, m) < Nth(I, n)
      /\ \A i \in I : \E n \in DOMAIN Pick(s, I) : Nth(I, n) = i
  BY Picked, Zenon
<1>2. \A n \in DOMAIN Pick(s, I) : Pick(s, I)[n].key \in {s[i].key : i \in I}
  BY <1>1
<1>3. \A i \in I : s[i].key \in KeysOf(Pick(s, I))
  BY <1>1 DEF KeysOf
<1>4. QED BY <1>2, <1>3 DEF KeysOf

\* Some positions: there is a first one, and a last one.
LEMMA FirstAndLast ==
  ASSUME NEW n \in Nat, NEW I, I \subseteq 1 .. n, I # {}
  PROVE  /\ \E i \in I : \A j \in I : j <= i
         /\ \E i \in I : \A j \in I : i <= j
<1>. DEFINE c == Cardinality(I)
<1>1. /\ c \in Nat
      /\ \A m \in 1 .. c : Nth(I, m) \in I /\ Cardinality(UpTo(I, Nth(I, m))) = m
      /\ \A i \in I : /\ Cardinality(UpTo(I, i)) \in 1 .. c
                      /\ Nth(I, Cardinality(UpTo(I, i))) = i
  BY NthPosition, Zenon
<1>2. PICK i \in I : TRUE
  OBVIOUS
<1>3. 1 \in 1 .. c /\ c \in 1 .. c
  BY <1>1, <1>2
<1>4. (\A j \in I : j \in Nat) /\ Nth(I, 1) \in I /\ Nth(I, c) \in I
  <2>. HIDE DEF c
  <2>1. Nth(I, 1) \in I /\ Nth(I, c) \in I
    BY <1>1, <1>3, Zenon
  <2>2. QED BY <2>1
<1>5. \A j, k \in I : j < k => Cardinality(UpTo(I, j)) < Cardinality(UpTo(I, k))
  BY UpToGrows, Zenon
<1>6. \A j \in I : j <= Nth(I, c)
  <2>1. SUFFICES ASSUME NEW j \in I, Nth(I, c) < j PROVE FALSE
    <3>1. \A j, k \in I : j <= k \/ k < j
      BY <1>4
    <3>2. QED BY <1>4, <3>1, Zenon
  <2>2. c < Cardinality(UpTo(I, j))
    BY <1>1, <1>3, <1>5, <2>1, Zenon
  <2>3. QED BY <1>1, <2>2
<1>7. \A j \in I : Nth(I, 1) <= j
  <2>1. SUFFICES ASSUME NEW j \in I, j < Nth(I, 1) PROVE FALSE
    <3>1. \A j, k \in I : j <= k \/ k < j
      BY <1>4
    <3>2. QED BY <1>4, <3>1, Zenon
  <2>2. Cardinality(UpTo(I, j)) < 1
    BY <1>1, <1>3, <1>5, <2>1, Zenon
  <2>3. QED BY <1>1, <2>2
<1>8. QED BY <1>1, <1>3, <1>6, <1>7, Zenon

-----------------------------------------------------------------------------
\* What a process sees of an environment.

LastOf(s, k, i) ==
  /\ i \in DOMAIN s
  /\ s[i].key = k
  /\ \A j \in DOMAIN s : s[j].key = k => j <= i

LEMMA LastIsSeen ==
  ASSUME NEW S, NEW s \in Seq(S), NEW k, NEW i, LastOf(s, k, i)
  PROVE  k \in KeysOf(s) /\ ValueOf(s, k) = s[i].value
<1>1. k \in KeysOf(s)
  BY DEF LastOf, KeysOf
<1>2. DOMAIN s \subseteq Nat
  OBVIOUS
<1>3. \A j \in DOMAIN s : LastOf(s, k, j) => j = i
  <2>1. SUFFICES ASSUME NEW j \in DOMAIN s, LastOf(s, k, j) PROVE j = i
    OBVIOUS
  <2>2. j \in Nat /\ i \in Nat /\ j <= i /\ i <= j
    BY <1>2, <2>1 DEF LastOf
  <2>3. QED BY <2>2
<1>4. i = CHOOSE j \in DOMAIN s : /\ s[j].key = k
                                  /\ \A l \in DOMAIN s : s[l].key = k => l <= j
  BY <1>3, Zenon DEF LastOf
<1>5. QED BY <1>1, <1>4, Zenon DEF ValueOf

LEMMA SomeLast ==
  ASSUME NEW S, NEW s \in Seq(S), NEW k \in KeysOf(s)
  PROVE  \E i : LastOf(s, k, i)
<1>. DEFINE I == {i \in DOMAIN s : s[i].key = k}
<1>1. I # {}
  BY DEF KeysOf
<1>2. Len(s) \in Nat /\ I \subseteq 1 .. Len(s)
  OBVIOUS
<1>3. \E i \in I : \A j \in I : j <= i
  <2>. HIDE DEF I
  <2>1. QED BY <1>1, <1>2, FirstAndLast, Zenon
<1>4. QED BY <1>3 DEF LastOf

\* Of picked entries, the last for a key is the last at a picked position.
LEMMA SeenOfPicked ==
  ASSUME NEW S, NEW s \in Seq(S), NEW I, I \subseteq DOMAIN s, NEW k, NEW i \in I,
         s[i].key = k, \A j \in I : s[j].key = k => j <= i
  PROVE  ValueOf(Pick(s, I), k) = s[i].value
<1>. DEFINE p == Pick(s, I)
<1>1. /\ p \in Seq(S)
      /\ Len(p) = Cardinality(I)
      /\ DOMAIN p = 1 .. Cardinality(I)
      /\ \A n \in DOMAIN p : Nth(I, n) \in I /\ p[n] = s[Nth(I, n)]
      /\ \A m, n \in DOMAIN p : m < n => Nth(I, m) < Nth(I, n)
      /\ \A j \in I : \E n \in DOMAIN p : Nth(I, n) = j
  BY Picked, Zenon
<1>2. PICK n \in DOMAIN p : Nth(I, n) = i
  BY <1>1, Zenon
<1>3. I \subseteq Nat /\ DOMAIN p \subseteq Nat
  BY <1>1
<1>. HIDE DEF p
<1>4. \A m \in DOMAIN p : p[m].key = k => m <= n
  <2>1. SUFFICES ASSUME NEW m \in DOMAIN p, p[m].key = k, ~(m <= n) PROVE FALSE
    BY Zenon
  <2>2. n < m
    BY <1>3, <2>1
  <2>3. i < Nth(I, m)
    BY <1>1, <1>2, <2>2, Zenon
  <2>4. Nth(I, m) \in I /\ Nth(I, m) <= i
    BY <1>1, <2>1, Zenon
  <2>5. QED BY <1>3, <2>3, <2>4
<1>5. LastOf(p, k, n)
  BY <1>1, <1>2, <1>4, Zenon DEF LastOf
<1>6. ValueOf(p, k) = p[n].value
  BY <1>1, <1>5, LastIsSeen, Zenon
<1>7. QED BY <1>1, <1>2, <1>6, Zenon DEF p

LEMMA SeenOfWithout ==
  ASSUME NEW S, NEW s \in Seq(S), NEW keys
  PROVE  /\ Without(s, keys) \in Seq(S)
         /\ KeysOf(Without(s, keys)) = KeysOf(s) \ keys
         /\ \A k : k \notin keys => ValueOf(Without(s, keys), k) = ValueOf(s, k)
<1>. DEFINE I == {i \in DOMAIN s : s[i].key \notin keys}
<1>1. Without(s, keys) = Pick(s, I) /\ I \subseteq DOMAIN s
  BY DEF Without
<1>2. \A i \in DOMAIN s : i \in I <=> s[i].key \notin keys
  OBVIOUS
<1>. HIDE DEF I
<1>3. Pick(s, I) \in Seq(S)
  BY <1>1, Picked, Zenon
<1>4. KeysOf(Pick(s, I)) = KeysOf(s) \ keys
  <2>1. KeysOf(Pick(s, I)) = {s[i].key : i \in I}
    BY <1>1, PickedKeys, Zenon
  <2>2. QED BY <1>1, <1>2, <2>1 DEF KeysOf
<1>5. ASSUME NEW k, k \notin keys
      PROVE  ValueOf(Pick(s, I), k) = ValueOf(s, k)
  <2>1. CASE k \in KeysOf(s)
    <3>1. PICK i : LastOf(s, k, i)
      BY <2>1, SomeLast, Zenon
    <3>2. i \in I /\ s[i].key = k /\ \A j \in I : s[j].key = k => j <= i
      BY <1>1, <1>2, <1>5, <3>1, Zenon DEF LastOf
    <3>3. ValueOf(Pick(s, I), k) = s[i].value
      BY <1>1, <3>2, SeenOfPicked, Zenon
    <3>4. ValueOf(s, k) = s[i].value
      BY <3>1, LastIsSeen, Zenon
    <3>5. QED BY <3>3, <3>4
  <2>2. CASE k \notin KeysOf(s)
    BY <1>4, <2>2, Zenon DEF ValueOf
  <2>3. QED BY <2>1, <2>2
<1>6. QED BY <1>1, <1>3, <1>4, <1>5, Zenon

\* Of two environments one after the other, the second wins.
LEMMA SeenOfBoth ==
  ASSUME NEW S, NEW a \in Seq(S), NEW b \in Seq(S)
  PROVE  /\ a \o b \in Seq(S)
         /\ KeysOf(a \o b) = KeysOf(a) \cup KeysOf(b)
         /\ \A k : ValueOf(a \o b, k) = IF k \in KeysOf(b) THEN ValueOf(b, k) ELSE ValueOf(a, k)
<1>. DEFINE c == a \o b
<1>1. /\ c \in Seq(S)
      /\ Len(a) \in Nat /\ Len(b) \in Nat
      /\ DOMAIN a = 1 .. Len(a) /\ DOMAIN b = 1 .. Len(b)
      /\ DOMAIN c = 1 .. Len(a) + Len(b)
  OBVIOUS
<1>2. /\ \A i \in DOMAIN a : i \in DOMAIN c /\ c[i] = a[i]
      /\ \A i \in DOMAIN b : Len(a) + i \in DOMAIN c /\ c[Len(a) + i] = b[i]
      /\ \A j \in DOMAIN c : j \in DOMAIN a \/ \E i \in DOMAIN b : j = Len(a) + i
  <2>1. \A i \in DOMAIN a : i \in DOMAIN c /\ c[i] = a[i]
    BY <1>1
  <2>2. \A i \in DOMAIN b : Len(a) + i \in DOMAIN c /\ c[Len(a) + i] = b[i]
    BY <1>1
  <2>3. ASSUME NEW j \in DOMAIN c, j \notin DOMAIN a
        PROVE  \E i \in DOMAIN b : j = Len(a) + i
    <3>1. j - Len(a) \in DOMAIN b /\ j = Len(a) + (j - Len(a))
      BY <1>1, <2>3
    <3>2. QED BY <3>1, Zenon
  <2>4. QED BY <2>1, <2>2, <2>3, Zenon
<1>. HIDE DEF c
<1>3. KeysOf(c) = KeysOf(a) \cup KeysOf(b)
  <2>1. \A k \in KeysOf(a) : k \in KeysOf(c)
    BY <1>2 DEF KeysOf
  <2>2. \A k \in KeysOf(b) : k \in KeysOf(c)
    BY <1>2 DEF KeysOf
  <2>3. \A k \in KeysOf(c) : k \in KeysOf(a) \/ k \in KeysOf(b)
    BY <1>2 DEF KeysOf
  <2>4. QED BY <2>1, <2>2, <2>3
<1>4. ASSUME NEW k \in KeysOf(b)
      PROVE  ValueOf(c, k) = ValueOf(b, k)
  <2>1. PICK i : LastOf(b, k, i)
    BY SomeLast, Zenon
  <2>2. i \in DOMAIN b /\ b[i].key = k /\ \A j \in DOMAIN b : b[j].key = k => j <= i
    BY <2>1, Zenon DEF LastOf
  <2>3. ASSUME NEW j \in DOMAIN c, c[j].key = k
        PROVE  j <= Len(a) + i
    <3>1. CASE j \in DOMAIN a
      BY <1>1, <2>2, <3>1
    <3>2. CASE \E l \in DOMAIN b : j = Len(a) + l
      <4>1. PICK l \in DOMAIN b : j = Len(a) + l
        BY <3>2
      <4>2. l <= i
        BY <1>2, <2>2, <2>3, <4>1
      <4>3. QED BY <1>1, <2>2, <4>1, <4>2
    <3>3. QED BY <1>2, <3>1, <3>2, Zenon
  <2>4. LastOf(c, k, Len(a) + i)
    BY <1>2, <2>2, <2>3, Zenon DEF LastOf
  <2>5. ValueOf(c, k) = c[Len(a) + i].value
    BY <1>1, <2>4, LastIsSeen, Zenon
  <2>6. ValueOf(b, k) = b[i].value
    BY <2>1, LastIsSeen, Zenon
  <2>7. QED BY <1>2, <2>2, <2>5, <2>6
<1>5. ASSUME NEW k, k \notin KeysOf(b)
      PROVE  ValueOf(c, k) = ValueOf(a, k)
  <2>1. CASE k \in KeysOf(a)
    <3>1. PICK i : LastOf(a, k, i)
      BY <2>1, SomeLast, Zenon
    <3>2. \A j \in DOMAIN b : b[j].key # k
      BY <1>5 DEF KeysOf
    <3>3. LastOf(c, k, i)
      <4>1. i \in DOMAIN c /\ c[i].key = k
        BY <1>2, <3>1 DEF LastOf
      <4>2. \A j \in DOMAIN c : c[j].key = k => j \in DOMAIN a /\ a[j].key = k
        BY <1>2, <3>2
      <4>3. QED BY <3>1, <4>1, <4>2, Zenon DEF LastOf
    <3>4. ValueOf(c, k) = c[i].value /\ ValueOf(a, k) = a[i].value
      BY <1>1, <3>1, <3>3, LastIsSeen, Zenon
    <3>5. QED BY <1>2, <3>1, <3>4 DEF LastOf
  <2>2. CASE k \notin KeysOf(a)
    BY <1>3, <1>5, <2>2, Zenon DEF ValueOf
  <2>3. QED BY <2>1, <2>2
<1>6. QED BY <1>1, <1>3, <1>4, <1>5, Zenon DEF c

\* The engine's merge: the configuration wins over the image.
LEMMA SeenOfMerge ==
  ASSUME NEW S, NEW config \in Seq(S), NEW img \in Seq(S)
  PROVE  /\ Merge(config, img) \in Seq(S)
         /\ KeysOf(Merge(config, img)) = KeysOf(config) \cup KeysOf(img)
         /\ \A k : ValueOf(Merge(config, img), k) =
                   IF k \in KeysOf(config) THEN ValueOf(config, k) ELSE ValueOf(img, k)
<1>. DEFINE w == Without(img, KeysOf(config))
<1>1. /\ w \in Seq(S)
      /\ KeysOf(w) = KeysOf(img) \ KeysOf(config)
      /\ \A k : k \notin KeysOf(config) => ValueOf(w, k) = ValueOf(img, k)
  BY SeenOfWithout
<1>2. Merge(config, img) = config \o w
  BY DEF Merge
<1>. HIDE DEF w
<1>3. /\ config \o w \in Seq(S)
      /\ KeysOf(config \o w) = KeysOf(config) \cup KeysOf(w)
      /\ \A k : ValueOf(config \o w, k) = IF k \in KeysOf(w) THEN ValueOf(w, k) ELSE ValueOf(config, k)
  BY <1>1, SeenOfBoth
<1>4. ASSUME NEW k
      PROVE  ValueOf(config \o w, k) = IF k \in KeysOf(config) THEN ValueOf(config, k) ELSE ValueOf(img, k)
  <2>1. ValueOf(config \o w, k) = IF k \in KeysOf(w) THEN ValueOf(w, k) ELSE ValueOf(config, k)
    BY <1>3, Zenon
  <2>2. CASE k \in KeysOf(config)
    BY <1>1, <2>1, <2>2
  <2>3. CASE k \notin KeysOf(config) /\ k \in KeysOf(img)
    BY <1>1, <2>1, <2>3
  <2>4. CASE k \notin KeysOf(config) /\ k \notin KeysOf(img)
    <3>1. k \notin KeysOf(w)
      BY <1>1, <2>4
    <3>2. ValueOf(config, k) = ValueOf(img, k)
      BY <2>4, Zenon DEF ValueOf
    <3>3. QED BY <2>1, <2>4, <3>1, <3>2
  <2>5. QED BY <2>2, <2>3, <2>4
<1>5. KeysOf(config \o w) = KeysOf(config) \cup KeysOf(img)
  BY <1>1, <1>3
<1>6. QED BY <1>2, <1>3, <1>4, <1>5, Zenon

\* Nothing to add: a merge over an image whose keys are all there.
LEMMA MergeAddsNothing ==
  ASSUME NEW S, NEW config \in Seq(S), NEW img \in Seq(S), KeysOf(img) \subseteq KeysOf(config)
  PROVE  Merge(config, img) = config
<1>1. {i \in DOMAIN img : img[i].key \notin KeysOf(config)} = {}
  BY DEF KeysOf
<1>2. Without(img, KeysOf(config)) = Pick(img, {})
  BY <1>1, Zenon DEF Without
<1>3. {} \subseteq DOMAIN img
  OBVIOUS
<1>4. /\ Pick(img, {}) \in Seq(S)
      /\ Len(Pick(img, {})) = Cardinality({})
  BY <1>3, Picked, Zenon
<1>5. Cardinality({}) = 0
  BY FS_EmptySet, Zenon
<1>6. Pick(img, {}) = << >>
  BY <1>4, <1>5
<1>7. QED BY <1>2, <1>6 DEF Merge

-----------------------------------------------------------------------------
\* reconcileEnv.

\* An entry of the new image, with the user's value for its key if there is one.
Overridden(mine, e) ==
  IF e.key \in KeysOf(mine) THEN [e EXCEPT !.value = ValueOf(mine, e.key)] ELSE e

WithOverrides(mine, s) == [i \in DOMAIN s |-> Overridden(mine, s[i])]

LEMMA SeenOfOverrides ==
  ASSUME NEW V, NEW s \in Seq(Entries(V)), NEW mine \in Seq(Entries(V))
  PROVE  /\ WithOverrides(mine, s) \in Seq(Entries(V))
         /\ KeysOf(WithOverrides(mine, s)) = KeysOf(s)
         /\ \A k \in KeysOf(s) : ValueOf(WithOverrides(mine, s), k) =
                                   IF k \in KeysOf(mine) THEN ValueOf(mine, k) ELSE ValueOf(s, k)
<1>. DEFINE o == WithOverrides(mine, s)
<1>0. o = [i \in DOMAIN s |-> Overridden(mine, s[i])]
  BY DEF WithOverrides
<1>. HIDE DEF o
<1>1. Len(s) \in Nat /\ DOMAIN s = 1 .. Len(s) /\ DOMAIN o = DOMAIN s
  BY <1>0
<1>2. \A k \in KeysOf(mine) : ValueOf(mine, k) \in V
  <2>1. SUFFICES ASSUME NEW k \in KeysOf(mine) PROVE ValueOf(mine, k) \in V
    BY Zenon
  <2>2. PICK i : LastOf(mine, k, i)
    BY SomeLast, Zenon
  <2>3. ValueOf(mine, k) = mine[i].value /\ i \in DOMAIN mine
    BY <2>2, LastIsSeen, Zenon DEF LastOf
  <2>4. mine[i] \in Entries(V)
    BY <2>3
  <2>5. QED BY <2>3, <2>4 DEF Entries
<1>3. \A i \in DOMAIN s :
        /\ s[i] \in Entries(V)
        /\ o[i] = Overridden(mine, s[i])
        /\ o[i] \in Entries(V)
        /\ o[i].key = s[i].key
        /\ o[i].value = IF s[i].key \in KeysOf(mine) THEN ValueOf(mine, s[i].key) ELSE s[i].value
  <2>1. SUFFICES ASSUME NEW i \in DOMAIN s
                 PROVE  /\ s[i] \in Entries(V)
                        /\ o[i] = Overridden(mine, s[i])
                        /\ o[i] \in Entries(V)
                        /\ o[i].key = s[i].key
                        /\ o[i].value = IF s[i].key \in KeysOf(mine) THEN ValueOf(mine, s[i].key) ELSE s[i].value
    BY Zenon
  <2>2. s[i] \in Entries(V) /\ o[i] = Overridden(mine, s[i])
    BY <1>0
  <2>3. CASE s[i].key \in KeysOf(mine)
    <3>1. o[i] = [s[i] EXCEPT !.value = ValueOf(mine, s[i].key)]
      BY <2>2, <2>3, Zenon DEF Overridden
    <3>2. ValueOf(mine, s[i].key) \in V
      BY <1>2, <2>3, Zenon
    <3>3. QED BY <2>2, <2>3, <3>1, <3>2 DEF Entries
  <2>4. CASE s[i].key \notin KeysOf(mine)
    BY <2>2, <2>4 DEF Overridden
  <2>5. QED BY <2>3, <2>4, Zenon
<1>4. o \in Seq(Entries(V))
  <2>1. o \in [1 .. Len(s) -> Entries(V)]
    <3>1. \A i \in 1 .. Len(s) : Overridden(mine, s[i]) \in Entries(V)
      BY <1>1, <1>3, Zenon
    <3>2. o = [i \in 1 .. Len(s) |-> Overridden(mine, s[i])]
      BY <1>0, <1>1, Zenon
    <3>3. QED BY <3>1, <3>2, Zenon
  <2>2. QED BY <1>1, <2>1
<1>5. KeysOf(o) = KeysOf(s)
  BY <1>1, <1>3 DEF KeysOf
<1>6. ASSUME NEW k \in KeysOf(s)
      PROVE  ValueOf(o, k) = IF k \in KeysOf(mine) THEN ValueOf(mine, k) ELSE ValueOf(s, k)
  <2>1. PICK i : LastOf(s, k, i)
    BY SomeLast, Zenon
  <2>2. i \in DOMAIN s /\ s[i].key = k /\ \A j \in DOMAIN s : s[j].key = k => j <= i
    BY <2>1, Zenon DEF LastOf
  <2>3. LastOf(o, k, i)
    BY <1>1, <1>3, <2>2 DEF LastOf
  <2>4. ValueOf(o, k) = o[i].value /\ ValueOf(s, k) = s[i].value
    BY <1>4, <2>1, <2>3, LastIsSeen, Zenon
  <2>5. QED BY <1>3, <2>2, <2>4, Zenon
<1>7. QED BY <1>4, <1>5, <1>6, Zenon DEF o

LEMMA FirstOfEachKeys ==
  ASSUME NEW S, NEW s \in Seq(S)
  PROVE  FirstOfEach(s) \in Seq(S) /\ KeysOf(FirstOfEach(s)) = KeysOf(s)
<1>. DEFINE I == {i \in DOMAIN s : \A j \in 1 .. i - 1 : s[j].key # s[i].key}
<1>1. FirstOfEach(s) = Pick(s, I) /\ I \subseteq DOMAIN s
  BY DEF FirstOfEach
<1>2. ASSUME NEW k \in KeysOf(s)
      PROVE  \E i \in I : s[i].key = k
  <2>. DEFINE K == {i \in DOMAIN s : s[i].key = k}
  <2>1. K # {} /\ Len(s) \in Nat /\ K \subseteq 1 .. Len(s)
    BY DEF KeysOf
  <2>2. PICK i \in K : \A j \in K : i <= j
    <3>. HIDE DEF K
    <3>1. QED BY <2>1, FirstAndLast, Zenon
  <2>3. \A j \in 1 .. i - 1 : s[j].key # s[i].key
    BY <2>2
  <2>4. QED BY <2>2, <2>3
<1>. HIDE DEF I
<1>3. KeysOf(Pick(s, I)) = {s[i].key : i \in I}
  BY <1>1, PickedKeys, Zenon
<1>4. Pick(s, I) \in Seq(S)
  BY <1>1, Picked, Zenon
<1>5. \A k \in KeysOf(s) : k \in {s[i].key : i \in I}
  BY <1>2
<1>6. \A i \in I : s[i].key \in KeysOf(s)
  BY <1>1 DEF KeysOf
<1>7. QED BY <1>1, <1>3, <1>4, <1>5, <1>6

\* What counts as the user's: a value that the old image does not have.
IsTheUsers(mine, container, old) ==
  /\ KeysOf(mine) \subseteq KeysOf(container)
  /\ \A k \in KeysOf(mine) : \E i \in DOMAIN container :
       /\ container[i].key = k
       /\ container[i].value = ValueOf(mine, k)
       /\ ValueOf(mine, k) \notin {Unset, ValueOf(old, k)}
  /\ \A k \in KeysOf(container) :
       ValueOf(container, k) \notin {Unset, ValueOf(old, k)} =>
         k \in KeysOf(mine) /\ ValueOf(mine, k) = ValueOf(container, k)

LEMMA SeenOfUserEntries ==
  ASSUME NEW S, NEW container \in Seq(S), NEW old,
         NEW mine, mine = UserEntries(container, old)
  PROVE  mine \in Seq(S) /\ IsTheUsers(mine, container, old)
<1>. DEFINE I == {i \in DOMAIN container :
                     /\ container[i].value # Unset
                     /\ ValueOf(old, container[i].key) # container[i].value}
<1>1. mine = Pick(container, I) /\ I \subseteq DOMAIN container
  BY DEF UserEntries
<1>2. \A i \in DOMAIN container :
        i \in I <=> container[i].value \notin {Unset, ValueOf(old, container[i].key)}
  OBVIOUS
<1>. HIDE DEF I
<1>3. /\ Pick(container, I) \in Seq(S)
      /\ Len(Pick(container, I)) = Cardinality(I)
      /\ DOMAIN Pick(container, I) = 1 .. Cardinality(I)
      /\ \A n \in DOMAIN Pick(container, I) :
           Nth(I, n) \in I /\ Pick(container, I)[n] = container[Nth(I, n)]
      /\ \A m, n \in DOMAIN Pick(container, I) : m < n => Nth(I, m) < Nth(I, n)
      /\ \A i \in I : \E n \in DOMAIN Pick(container, I) : Nth(I, n) = i
  BY <1>1, Picked, Zenon
<1>4. mine \in Seq(S) /\ \A n \in DOMAIN mine : Nth(I, n) \in I /\ mine[n] = container[Nth(I, n)]
  BY <1>1, <1>3, Zenon
<1>5. KeysOf(mine) = {container[i].key : i \in I}
  <2>1. KeysOf(Pick(container, I)) = {container[i].key : i \in I}
    BY <1>1, PickedKeys, Zenon
  <2>2. QED BY <1>1, <2>1, Zenon
<1>6. KeysOf(mine) \subseteq KeysOf(container)
  BY <1>1, <1>5 DEF KeysOf
<1>7. ASSUME NEW k \in KeysOf(mine)
      PROVE  \E i \in DOMAIN container :
               /\ container[i].key = k
               /\ container[i].value = ValueOf(mine, k)
               /\ ValueOf(mine, k) \notin {Unset, ValueOf(old, k)}
  <2>1. PICK n : LastOf(mine, k, n)
    BY <1>4, SomeLast, Zenon
  <2>2. n \in DOMAIN mine /\ mine[n].key = k
    BY <2>1, Zenon DEF LastOf
  <2>3. ValueOf(mine, k) = mine[n].value
    BY <1>4, <2>1, LastIsSeen, Zenon
  <2>4. Nth(I, n) \in I /\ Nth(I, n) \in DOMAIN container /\ mine[n] = container[Nth(I, n)]
    BY <1>1, <1>4, <2>2
  <2>5. container[Nth(I, n)].value \notin {Unset, ValueOf(old, container[Nth(I, n)].key)}
    BY <1>2, <2>4, Zenon
  <2>6. /\ container[Nth(I, n)].key = k
        /\ container[Nth(I, n)].value = ValueOf(mine, k)
        /\ ValueOf(mine, k) \notin {Unset, ValueOf(old, k)}
    BY <2>2, <2>3, <2>4, <2>5
  <2>7. QED BY <2>4, <2>6, Zenon
<1>8. ASSUME NEW k \in KeysOf(container), ValueOf(container, k) \notin {Unset, ValueOf(old, k)}
      PROVE  k \in KeysOf(mine) /\ ValueOf(mine, k) = ValueOf(container, k)
  <2>1. PICK i : LastOf(container, k, i)
    BY SomeLast, Zenon
  <2>2. ValueOf(container, k) = container[i].value
    BY <2>1, LastIsSeen, Zenon
  <2>3. i \in DOMAIN container /\ container[i].key = k
    BY <2>1, Zenon DEF LastOf
  <2>4. i \in I
    BY <1>2, <1>8, <2>2, <2>3
  <2>5. \A j \in I : container[j].key = k => j <= i
    BY <1>1, <2>1, Zenon DEF LastOf
  <2>6. ValueOf(Pick(container, I), k) = container[i].value
    BY <1>1, <2>3, <2>4, <2>5, SeenOfPicked, Zenon
  <2>7. k \in KeysOf(mine)
    BY <1>5, <2>3, <2>4
  <2>8. QED BY <1>1, <2>2, <2>6, <2>7
<1>9. QED BY <1>4, <1>6, <1>7, <1>8, Zenon DEF IsTheUsers

\* The entries of two environments one after the other.
LEMMA EntriesOfBoth ==
  ASSUME NEW S, NEW a \in Seq(S), NEW b \in Seq(S), NEW i \in DOMAIN (a \o b)
  PROVE  \/ \E j \in DOMAIN a : (a \o b)[i] = a[j]
         \/ \E j \in DOMAIN b : (a \o b)[i] = b[j]
<1>1. Len(a) \in Nat /\ Len(b) \in Nat /\ i \in 1 .. Len(a) + Len(b)
  OBVIOUS
<1>2. CASE i <= Len(a)
  <2>1. i \in DOMAIN a /\ (a \o b)[i] = a[i]
    BY <1>1, <1>2
  <2>2. QED BY <2>1, Zenon
<1>3. CASE ~(i <= Len(a))
  <2>1. i - Len(a) \in DOMAIN b /\ (a \o b)[i] = b[i - Len(a)]
    BY <1>1, <1>3
  <2>2. QED BY <2>1, Zenon
<1>4. QED BY <1>2, <1>3

LEMMA EntriesOfMerge ==
  ASSUME NEW S, NEW config \in Seq(S), NEW img \in Seq(S), NEW i \in DOMAIN Merge(config, img)
  PROVE  \/ \E j \in DOMAIN config : Merge(config, img)[i] = config[j]
         \/ \E j \in DOMAIN img : Merge(config, img)[i] = img[j]
<1>. DEFINE I == {j \in DOMAIN img : img[j].key \notin KeysOf(config)}
<1>1. Merge(config, img) = config \o Pick(img, I) /\ I \subseteq DOMAIN img
  BY DEF Merge, Without
<1>. HIDE DEF I
<1>2. /\ Pick(img, I) \in Seq(S)
      /\ Len(Pick(img, I)) = Cardinality(I)
      /\ DOMAIN Pick(img, I) = 1 .. Cardinality(I)
      /\ \A n \in DOMAIN Pick(img, I) : Nth(I, n) \in I /\ Pick(img, I)[n] = img[Nth(I, n)]
      /\ \A m, n \in DOMAIN Pick(img, I) : m < n => Nth(I, m) < Nth(I, n)
      /\ \A j \in I : \E n \in DOMAIN Pick(img, I) : Nth(I, n) = j
  BY <1>1, Picked, Zenon
<1>3. \A n \in DOMAIN Pick(img, I) : \E j \in DOMAIN img : Pick(img, I)[n] = img[j]
  BY <1>1, <1>2, Zenon
<1>4. \/ \E j \in DOMAIN config : (config \o Pick(img, I))[i] = config[j]
      \/ \E j \in DOMAIN Pick(img, I) : (config \o Pick(img, I))[i] = Pick(img, I)[j]
  <2>1. i \in DOMAIN (config \o Pick(img, I))
    BY <1>1, Zenon
  <2>2. QED BY <1>2, <2>1, EntriesOfBoth
<1>5. QED BY <1>1, <1>3, <1>4, Zenon

\* The reconciled environment: the new image's, with what is the user's.
LEMMA SeenOfReconciled ==
  ASSUME NEW V, NEW container \in Seq(Entries(V)), NEW old, NEW new \in Seq(Entries(V)),
         NEW mine, mine = UserEntries(container, old),
         NEW r, r = ReconcileEnv(container, old, new)
  PROVE  /\ r \in Seq(Entries(V))
         /\ KeysOf(r) = KeysOf(new) \cup KeysOf(mine)
         /\ \A k : ValueOf(r, k) = IF k \in KeysOf(mine) THEN ValueOf(mine, k) ELSE ValueOf(new, k)
         /\ \A i \in DOMAIN r :
              \/ r[i].key \in KeysOf(mine) /\ r[i].value = ValueOf(mine, r[i].key)
              \/ \E j \in DOMAIN new : r[i] = new[j]
<1>. DEFINE first == FirstOfEach(mine)
            added == Without(first, KeysOf(new))
            a == WithOverrides(mine, new)
            b == WithOverrides(mine, added)
<1>1. r = a \o b
  BY DEF ReconcileEnv, Overridden, WithOverrides
<1>2. mine \in Seq(Entries(V))
  BY SeenOfUserEntries, Zenon
<1>3. first \in Seq(Entries(V)) /\ KeysOf(first) = KeysOf(mine)
  BY <1>2, FirstOfEachKeys, Zenon
<1>4. added \in Seq(Entries(V)) /\ KeysOf(added) = KeysOf(mine) \ KeysOf(new)
  <2>. HIDE DEF first
  <2>1. Without(first, KeysOf(new)) \in Seq(Entries(V))
        /\ KeysOf(Without(first, KeysOf(new))) = KeysOf(first) \ KeysOf(new)
    BY <1>3, SeenOfWithout
  <2>2. QED BY <1>3, <2>1
<1>. HIDE DEF added, first
<1>5. /\ a \in Seq(Entries(V)) /\ KeysOf(a) = KeysOf(new)
      /\ \A k \in KeysOf(new) :
           ValueOf(a, k) = IF k \in KeysOf(mine) THEN ValueOf(mine, k) ELSE ValueOf(new, k)
  BY <1>2, SeenOfOverrides
<1>6. /\ b \in Seq(Entries(V)) /\ KeysOf(b) = KeysOf(added)
      /\ \A k \in KeysOf(added) :
           ValueOf(b, k) = IF k \in KeysOf(mine) THEN ValueOf(mine, k) ELSE ValueOf(added, k)
  BY <1>2, <1>4, SeenOfOverrides, Zenon
<1>7. /\ \A i \in DOMAIN a : a[i] = Overridden(mine, new[i]) /\ i \in DOMAIN new
      /\ \A i \in DOMAIN b : b[i] = Overridden(mine, added[i]) /\ i \in DOMAIN added
  BY DEF WithOverrides
<1>. HIDE DEF a, b
<1>8. /\ a \o b \in Seq(Entries(V))
      /\ KeysOf(a \o b) = KeysOf(a) \cup KeysOf(b)
      /\ \A k : ValueOf(a \o b, k) = IF k \in KeysOf(b) THEN ValueOf(b, k) ELSE ValueOf(a, k)
  BY <1>5, <1>6, SeenOfBoth
<1>9. KeysOf(r) = KeysOf(new) \cup KeysOf(mine)
  BY <1>1, <1>4, <1>5, <1>6, <1>8
<1>10. ASSUME NEW k
       PROVE  ValueOf(r, k) = IF k \in KeysOf(mine) THEN ValueOf(mine, k) ELSE ValueOf(new, k)
  <2>1. ValueOf(r, k) = IF k \in KeysOf(b) THEN ValueOf(b, k) ELSE ValueOf(a, k)
    BY <1>1, <1>8, Zenon
  <2>2. CASE k \in KeysOf(new)
    <3>1. k \notin KeysOf(b)
      BY <1>4, <1>6, <2>2
    <3>2. QED BY <1>5, <2>1, <2>2, <3>1
  <2>3. CASE k \notin KeysOf(new) /\ k \in KeysOf(mine)
    <3>1. k \in KeysOf(added)
      BY <1>4, <2>3
    <3>2. QED BY <1>6, <2>1, <2>3, <3>1
  <2>4. CASE k \notin KeysOf(new) /\ k \notin KeysOf(mine)
    <3>1. k \notin KeysOf(r)
      BY <1>9, <2>4
    <3>2. ValueOf(r, k) = ValueOf(new, k)
      BY <2>4, <3>1, Zenon DEF ValueOf
    <3>3. QED BY <2>4, <3>2
  <2>5. QED BY <2>2, <2>3, <2>4
<1>11. ASSUME NEW i \in DOMAIN r
       PROVE  \/ r[i].key \in KeysOf(mine) /\ r[i].value = ValueOf(mine, r[i].key)
              \/ \E j \in DOMAIN new : r[i] = new[j]
  <2>1. \/ \E j \in DOMAIN a : r[i] = a[j]
        \/ \E j \in DOMAIN b : r[i] = b[j]
    <3>1. i \in DOMAIN (a \o b)
      BY <1>1, Zenon
    <3>2. \/ \E j \in DOMAIN a : (a \o b)[i] = a[j]
          \/ \E j \in DOMAIN b : (a \o b)[i] = b[j]
      BY <1>5, <1>6, <3>1, EntriesOfBoth
    <3>3. QED BY <1>1, <3>2, Zenon
  <2>2. ASSUME NEW s \in Seq(Entries(V)), NEW j \in DOMAIN s, r[i] = Overridden(mine, s[j])
        PROVE  \/ r[i].key \in KeysOf(mine) /\ r[i].value = ValueOf(mine, r[i].key)
               \/ r[i] = s[j] /\ s[j].key \notin KeysOf(mine)
    <3>1. s[j] \in Entries(V)
      OBVIOUS
    <3>2. CASE s[j].key \in KeysOf(mine)
      <4>1. r[i] = [s[j] EXCEPT !.value = ValueOf(mine, s[j].key)]
        BY <2>2, <3>2, Zenon DEF Overridden
      <4>2. QED BY <3>1, <3>2, <4>1 DEF Entries
    <3>3. CASE s[j].key \notin KeysOf(mine)
      BY <2>2, <3>3, Zenon DEF Overridden
    <3>4. QED BY <3>2, <3>3
  <2>3. CASE \E j \in DOMAIN a : r[i] = a[j]
    <3>1. PICK j \in DOMAIN new : r[i] = Overridden(mine, new[j])
      BY <1>7, <2>3, Zenon
    <3>2. QED BY <2>2, <3>1, Zenon
  <2>4. CASE \E j \in DOMAIN b : r[i] = b[j]
    <3>1. PICK j \in DOMAIN added : r[i] = Overridden(mine, added[j])
      BY <1>7, <2>4, Zenon
    <3>2. added[j].key \in KeysOf(mine)
      BY <1>4 DEF KeysOf
    <3>3. QED BY <1>4, <2>2, <3>1, <3>2, Zenon
  <2>5. QED BY <2>1, <2>3, <2>4
<1>12. QED BY <1>1, <1>8, <1>9, <1>10, <1>11, Zenon

-----------------------------------------------------------------------------
\* The inductive invariant.

Values == Defaults \cup UserValues \cup {Unset}

Environments ==
  /\ user \in Seq(Entries(Values))
  /\ env \in Seq(Entries(Values))
  /\ image.env \in Seq(Entries(Values))
  /\ Distinct(image.env)

\* Also an entry that a later one of its key hides is the user's or the image's:
\* an update may remove the entry that hid it.
EntriesFresh ==
  ~blind =>
    /\ \A i \in DOMAIN env :
         env[i].value \in Given(env[i].key) \cup {ValueOf(image.env, env[i].key)}
    /\ cmd \in {userCmd, image.cmd}

ImageKeysThere == KeysOf(image.env) \subseteq KeysOf(env)

CarryInv == Environments /\ EntriesFresh /\ ImageKeysThere /\ OverridesKept

LEMMA ImageEnv ==
  ASSUME NEW new \in ImageConfigs
  PROVE  new.env \in Seq(Entries(Values)) /\ Distinct(new.env)
<1>1. /\ new.env \in BoundedSeq(Entries(Defaults), MaxEntries)
      /\ Distinct(new.env)
  BY DEF ImageConfigs
<1>2. PICK m \in 0 .. MaxEntries : new.env \in [1 .. m -> Entries(Defaults)]
  BY <1>1 DEF BoundedSeq, SeqOf
<1>3. Entries(Defaults) \subseteq Entries(Values)
  BY DEF Entries, Values
<1>4. new.env \in [1 .. m -> Entries(Values)]
  BY <1>2, <1>3
<1>5. m \in Nat
  BY <1>2, ConfigCarryAssumption
<1>6. QED BY <1>1, <1>4, <1>5

LEMMA DistinctSeen ==
  ASSUME NEW S, NEW s \in Seq(S), Distinct(s), NEW i \in DOMAIN s
  PROVE  ValueOf(s, s[i].key) = s[i].value
<1>1. i \in Nat
  OBVIOUS
<1>2. \A j \in DOMAIN s : s[j].key = s[i].key => j <= i
  BY <1>1 DEF Distinct
<1>3. LastOf(s, s[i].key, i)
  BY <1>2, Zenon DEF LastOf
<1>4. QED BY <1>3, LastIsSeen, Zenon

\* The merge adds no value but those of the image.
LEMMA MergeFresh ==
  ASSUME NEW S, NEW config \in Seq(S), NEW img \in Seq(S), Distinct(img),
         \A i \in DOMAIN config :
           config[i].value \in Given(config[i].key) \cup {ValueOf(img, config[i].key)}
  PROVE  \A i \in DOMAIN Merge(config, img) :
           Merge(config, img)[i].value \in
             Given(Merge(config, img)[i].key) \cup {ValueOf(img, Merge(config, img)[i].key)}
<1>. DEFINE m == Merge(config, img)
<1>1. SUFFICES ASSUME NEW i \in DOMAIN m
               PROVE  m[i].value \in Given(m[i].key) \cup {ValueOf(img, m[i].key)}
  BY Zenon
<1>2. (\E j \in DOMAIN config : m[i] = config[j]) \/ (\E j \in DOMAIN img : m[i] = img[j])
  BY EntriesOfMerge
<1>3. CASE \E j \in DOMAIN config : m[i] = config[j]
  BY <1>3, Zenon
<1>4. CASE \E j \in DOMAIN img : m[i] = img[j]
  <2>1. PICK j \in DOMAIN img : m[i] = img[j]
    BY <1>4
  <2>2. ValueOf(img, img[j].key) = img[j].value
    BY DistinctSeen, Zenon
  <2>. HIDE DEF m
  <2>3. QED BY <2>1, <2>2
<1>5. QED BY <1>2, <1>3, <1>4

LEMMA CarryInit ==
  Init => CarryInv
<1>. SUFFICES ASSUME Init PROVE CarryInv
  OBVIOUS
<1>1. user \in Seq(Entries(Values))
  <2>1. PICK m \in 0 .. MaxEntries : user \in [1 .. m -> Entries(UserValues)]
    BY DEF Init, BoundedSeq, SeqOf
  <2>2. Entries(UserValues) \subseteq Entries(Values)
    BY DEF Entries, Values
  <2>3. user \in [1 .. m -> Entries(Values)] /\ m \in Nat
    BY <2>1, <2>2, ConfigCarryAssumption
  <2>4. QED BY <2>3
<1>2. image.env \in Seq(Entries(Values)) /\ Distinct(image.env)
  BY ImageEnv, Zenon DEF Init
<1>3. env = Merge(user, image.env)
  BY DEF Init
<1>4. /\ env \in Seq(Entries(Values))
      /\ KeysOf(env) = KeysOf(user) \cup KeysOf(image.env)
      /\ \A k : ValueOf(env, k) = IF k \in KeysOf(user) THEN ValueOf(user, k) ELSE ValueOf(image.env, k)
  BY <1>1, <1>2, <1>3, SeenOfMerge
<1>5. \A i \in DOMAIN user : user[i].value \in Given(user[i].key) \cup {ValueOf(image.env, user[i].key)}
  BY DEF Given
<1>6. \A i \in DOMAIN env : env[i].value \in Given(env[i].key) \cup {ValueOf(image.env, env[i].key)}
  BY <1>1, <1>2, <1>3, <1>5, MergeFresh
<1>7. cmd \in {userCmd, image.cmd} /\ (userCmd # Unset => cmd = userCmd)
  BY DEF Init
<1>8. \A k \in KeysOf(user) \ met.keys : ValueOf(user, k) # Unset => ValueOf(env, k) = ValueOf(user, k)
  BY <1>4
<1>9. QED
  <2>1. Environments
    BY <1>1, <1>2, <1>4, Zenon DEF Environments
  <2>2. EntriesFresh
    BY <1>6, <1>7, Zenon DEF EntriesFresh
  <2>3. ImageKeysThere
    BY <1>4 DEF ImageKeysThere
  <2>4. OverridesKept
    BY <1>7, <1>8, Zenon DEF OverridesKept
  <2>5. QED BY <2>1, <2>2, <2>3, <2>4 DEF CarryInv

\* An update whose two inspects succeed.
LEMMA CarryUpdate ==
  ASSUME CarryInv, NEW new \in ImageConfigs, Recreate(new), Update(new)
  PROVE  CarryInv'
<1>. DEFINE mine == UserEntries(env, image.env)
            r == ReconcileEnv(env, image.env, new.env)
<1>1. /\ user \in Seq(Entries(Values)) /\ env \in Seq(Entries(Values))
      /\ image.env \in Seq(Entries(Values))
      /\ new.env \in Seq(Entries(Values)) /\ Distinct(new.env)
  BY ImageEnv, Zenon DEF CarryInv, Environments
<1>2. /\ env' = Merge(r, new.env)
      /\ cmd' = ReconcileValue(cmd, image.cmd, new.cmd)
      /\ met' = [keys |-> met.keys \cup {k \in KeysOf(user) : ValueOf(user, k) = ValueOf(image.env, k)},
                 cmd |-> met.cmd \/ userCmd = image.cmd]
      /\ image' = new /\ user' = user /\ userCmd' = userCmd /\ blind' = blind
  BY DEF Recreate, Update
<1>3. mine \in Seq(Entries(Values)) /\ IsTheUsers(mine, env, image.env)
  BY <1>1, SeenOfUserEntries, Zenon
<1>4. /\ r \in Seq(Entries(Values))
      /\ KeysOf(r) = KeysOf(new.env) \cup KeysOf(mine)
      /\ \A k : ValueOf(r, k) = IF k \in KeysOf(mine) THEN ValueOf(mine, k) ELSE ValueOf(new.env, k)
      /\ \A i \in DOMAIN r :
           \/ r[i].key \in KeysOf(mine) /\ r[i].value = ValueOf(mine, r[i].key)
           \/ \E j \in DOMAIN new.env : r[i] = new.env[j]
  BY <1>1, SeenOfReconciled
<1>. HIDE DEF mine, r
<1>5. /\ env' \in Seq(Entries(Values))
      /\ KeysOf(env') = KeysOf(r) \cup KeysOf(new.env)
      /\ \A k : ValueOf(env', k) = IF k \in KeysOf(r) THEN ValueOf(r, k) ELSE ValueOf(new.env, k)
  BY <1>1, <1>2, <1>4, SeenOfMerge
<1>6. \A k \in KeysOf(mine) : ValueOf(env', k) = ValueOf(mine, k)
  BY <1>4, <1>5
<1>7. Environments'
  BY <1>1, <1>2, <1>5 DEF Environments
<1>8. ImageKeysThere'
  BY <1>2, <1>5 DEF ImageKeysThere
<1>9. EntriesFresh'
  <2>1. SUFFICES ASSUME ~blind
                 PROVE  /\ \A i \in DOMAIN env' :
                             env'[i].value \in Given(env'[i].key) \cup {ValueOf(new.env, env'[i].key)}
                        /\ cmd' \in {userCmd, new.cmd}
    BY <1>2 DEF EntriesFresh, Given
  <2>2. /\ \A i \in DOMAIN env :
             env[i].value \in Given(env[i].key) \cup {ValueOf(image.env, env[i].key)}
        /\ cmd \in {userCmd, image.cmd}
    BY <2>1, Zenon DEF CarryInv, EntriesFresh
  <2>3. \A k \in KeysOf(mine) : ValueOf(mine, k) \in Given(k)
    BY <1>3, <2>2 DEF IsTheUsers
  <2>4. \A j \in DOMAIN new.env : ValueOf(new.env, new.env[j].key) = new.env[j].value
    BY <1>1, DistinctSeen, Zenon
  <2>5. \A i \in DOMAIN r : r[i].value \in Given(r[i].key) \cup {ValueOf(new.env, r[i].key)}
    BY <1>4, <2>3, <2>4
  <2>6. \A i \in DOMAIN env' : env'[i].value \in Given(env'[i].key) \cup {ValueOf(new.env, env'[i].key)}
    BY <1>1, <1>2, <1>4, <2>5, MergeFresh
  <2>7. cmd' \in {userCmd, new.cmd}
    BY <1>2, <2>2 DEF ReconcileValue
  <2>8. QED BY <2>6, <2>7, Zenon
<1>10. OverridesKept'
  <2>1. ASSUME NEW k \in KeysOf(user), k \notin met'.keys, ValueOf(user, k) # Unset
        PROVE  ValueOf(env', k) = ValueOf(user, k)
    <3>1. k \notin met.keys /\ ValueOf(user, k) # ValueOf(image.env, k)
      BY <1>2, <2>1
    <3>2. ValueOf(env, k) = ValueOf(user, k)
      BY <2>1, <3>1 DEF CarryInv, OverridesKept
    <3>3. k \in KeysOf(env)
      BY <2>1, <3>2, Zenon DEF ValueOf
    <3>4. k \in KeysOf(mine) /\ ValueOf(mine, k) = ValueOf(env, k)
      BY <1>3, <2>1, <3>1, <3>2, <3>3 DEF IsTheUsers
    <3>5. QED BY <1>6, <3>2, <3>4
  <2>2. ASSUME userCmd # Unset, ~met'.cmd
        PROVE  cmd' = userCmd
    <3>1. ~met.cmd /\ userCmd # image.cmd
      BY <1>2, <2>2
    <3>2. cmd = userCmd
      BY <2>2, <3>1, Zenon DEF CarryInv, OverridesKept
    <3>3. QED BY <1>2, <3>1, <3>2 DEF ReconcileValue
  <2>3. QED BY <1>2, <2>1, <2>2 DEF OverridesKept
<1>11. QED BY <1>7, <1>8, <1>9, <1>10 DEF CarryInv

\* An update that copies the configuration as it is.
LEMMA CarryBlind ==
  ASSUME CarryInv, NEW new \in ImageConfigs, Recreate(new), UpdateBlind(new)
  PROVE  CarryInv'
<1>1. /\ user \in Seq(Entries(Values)) /\ env \in Seq(Entries(Values))
      /\ new.env \in Seq(Entries(Values)) /\ Distinct(new.env)
  BY ImageEnv, Zenon DEF CarryInv, Environments
<1>2. /\ env' = Merge(env, new.env) /\ cmd' = cmd /\ met' = met
      /\ image' = new /\ user' = user /\ userCmd' = userCmd /\ blind' = TRUE
  BY DEF Recreate, UpdateBlind
<1>3. /\ env' \in Seq(Entries(Values))
      /\ KeysOf(env') = KeysOf(env) \cup KeysOf(new.env)
      /\ \A k : ValueOf(env', k) = IF k \in KeysOf(env) THEN ValueOf(env, k) ELSE ValueOf(new.env, k)
  BY <1>1, <1>2, SeenOfMerge
<1>4. Environments'
  BY <1>1, <1>2, <1>3 DEF Environments
<1>5. EntriesFresh'
  BY <1>2 DEF EntriesFresh
<1>6. ImageKeysThere'
  BY <1>2, <1>3 DEF ImageKeysThere
<1>7. OverridesKept'
  <2>1. ASSUME NEW k \in KeysOf(user), k \notin met.keys, ValueOf(user, k) # Unset
        PROVE  ValueOf(env', k) = ValueOf(user, k)
    <3>1. ValueOf(env, k) = ValueOf(user, k)
      BY <2>1 DEF CarryInv, OverridesKept
    <3>2. k \in KeysOf(env)
      BY <2>1, <3>1, Zenon DEF ValueOf
    <3>3. QED BY <1>3, <3>1, <3>2
  <2>2. userCmd # Unset /\ ~met.cmd => cmd = userCmd
    BY Zenon DEF CarryInv, OverridesKept
  <2>3. QED BY <1>2, <2>1, <2>2 DEF OverridesKept
<1>8. QED BY <1>4, <1>5, <1>6, <1>7 DEF CarryInv

\* A rollback gives back the environment entry by entry.
LEMMA CarryRollback ==
  ASSUME CarryInv, Rollback
  PROVE  UNCHANGED <<user, userCmd, image, env, cmd, blind, met>>
<1>1. /\ env \in Seq(Entries(Values)) /\ image.env \in Seq(Entries(Values))
      /\ KeysOf(image.env) \subseteq KeysOf(env)
  BY DEF CarryInv, Environments, ImageKeysThere
<1>2. Merge(env, image.env) = env
  BY <1>1, MergeAddsNothing, Zenon
<1>3. QED BY <1>2 DEF Rollback, Restored

LEMMA CarryStep ==
  ASSUME CarryInv, [Next]_vars
  PROVE  CarryInv'
<1>1. ASSUME UNCHANGED <<user, userCmd, image, env, cmd, blind, met>>
      PROVE  CarryInv'
  BY <1>1 DEF CarryInv, Environments, EntriesFresh, ImageKeysThere, OverridesKept, Given
<1>2. ASSUME NEW new \in ImageConfigs, Recreate(new)
      PROVE  CarryInv'
  BY <1>2, CarryUpdate, CarryBlind, Zenon DEF Recreate
<1>3. CASE Rollback
  BY <1>1, <1>3, CarryRollback, Zenon
<1>4. CASE UNCHANGED vars
  BY <1>1, <1>4 DEF vars
<1>5. CASE NeverUpdatedAgain
  BY <1>4, <1>5 DEF NeverUpdatedAgain
<1>6. QED BY <1>2, <1>3, <1>4, <1>5 DEF Next

LEMMA CarryInvariant == Spec => []CarryInv
<1>1. Init => CarryInv
  BY CarryInit
<1>2. CarryInv /\ [Next]_vars => CarryInv'
  BY CarryStep
<1>3. QED BY <1>1, <1>2, PTL DEF Spec

(***************************************************************************)
(* "User overrides (envs / cmds / etc. that differ from the old image's    *)
(* baseline) are still preserved" (container.go, Recreate): through any    *)
(* sequence of updates and a rollback, for environments of any length.     *)
(* An update keeps the entry that a process sees, because it is neither    *)
(* unset nor the old image's default, and its last value wins again.       *)
(***************************************************************************)
THEOREM OverridesAreKept == Spec => []OverridesKept
<1>1. CarryInv => OverridesKept
  BY DEF CarryInv
<1>2. QED BY <1>1, CarryInvariant, PTL

(***************************************************************************)
(* "Only the inherited values are refreshed" (container.go, Recreate):     *)
(* unless an inspect failed, a value that the container sees is the user's *)
(* or the running image's.  The invariant behind it is about every entry,  *)
(* hidden ones included (EntriesFresh), and says that the container has    *)
(* all keys of its image (ImageKeysThere).                                 *)
(***************************************************************************)
THEOREM NothingIsStale == Spec => []NothingStale
<1>1. ASSUME CarryInv PROVE NothingStale
  <2>1. ASSUME ~blind, NEW k \in Keys
        PROVE  ValueOf(env, k) \in Given(k) \cup {ValueOf(image.env, k)}
    <3>1. CASE k \in KeysOf(env)
      <4>1. env \in Seq(Entries(Values))
        BY <1>1 DEF CarryInv, Environments
      <4>2. PICK i : LastOf(env, k, i)
        BY <3>1, <4>1, SomeLast, Zenon
      <4>3. ValueOf(env, k) = env[i].value
        BY <4>1, <4>2, LastIsSeen, Zenon
      <4>4. i \in DOMAIN env /\ env[i].key = k
        BY <4>2, Zenon DEF LastOf
      <4>5. env[i].value \in Given(env[i].key) \cup {ValueOf(image.env, env[i].key)}
        BY <1>1, <2>1, <4>4, Zenon DEF CarryInv, EntriesFresh
      <4>6. QED BY <4>3, <4>4, <4>5
    <3>2. CASE k \notin KeysOf(env)
      <4>1. k \notin KeysOf(image.env)
        BY <1>1, <3>2 DEF CarryInv, ImageKeysThere
      <4>2. ValueOf(env, k) = ValueOf(image.env, k)
        BY <3>2, <4>1, Zenon DEF ValueOf
      <4>3. QED BY <4>2
    <3>3. QED BY <3>1, <3>2
  <2>2. ~blind => cmd \in {userCmd, image.cmd}
    BY <1>1, Zenon DEF CarryInv, EntriesFresh
  <2>3. QED BY <2>1, <2>2 DEF NothingStale
<1>2. QED BY <1>1, CarryInvariant, PTL

(***************************************************************************)
(* "A fresh container from the captured pre-update config" (rollback.go,   *)
(* performRollback): a rollback gives back the environment and the command *)
(* entry by entry, also after an update without inspects.  The engine's    *)
(* merge adds nothing, since the captured environment has all keys of the  *)
(* image that it goes back to.                                             *)
(***************************************************************************)
THEOREM RollbackIsExact == Spec => RollbackExact
<1>1. CarryInv => (Rollback => UNCHANGED <<env, cmd, image>>)
  BY CarryRollback
<1>2. CarryInv => [Rollback => UNCHANGED <<env, cmd, image>>]_vars
  BY <1>1
<1>3. QED BY <1>2, CarryInvariant, PTL DEF RollbackExact
=============================================================================
