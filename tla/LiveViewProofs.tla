----------------------------- MODULE LiveViewProofs -----------------------------
(***************************************************************************)
(* What the packet list of a tab promises for any packets, runs and loads: *)
(* no packet is listed twice, the list grows at its end or is emptied, and *)
(* once all is quiet it has every packet that the server would send for    *)
(* the selected run, unless a load met with a mishap.                      *)
(***************************************************************************)
EXTENDS LiveView, TLAPS, SequenceTheorems, FiniteSetTheorems

-----------------------------------------------------------------------------
(* Places in an order *)

IsOrder(I, R) ==
  /\ \A i \in I : <<i, i>> \notin R
  /\ \A i, j \in I : i # j => <<i, j>> \in R \/ <<j, i>> \in R
  /\ \A i, j, k \in I : <<i, j>> \in R /\ <<j, k>> \in R => <<i, k>> \in R

\* The ranks of a finite set are its first numbers, in its order.
LEMMA RankFacts ==
  ASSUME NEW I, IsFiniteSet(I), NEW R, IsOrder(I, R)
  PROVE  /\ Cardinality(I) \in Nat
         /\ \A i \in I : Rank(I, R, i) \in 0 .. Cardinality(I) - 1
         /\ \A i, j \in I : <<i, j>> \in R => Rank(I, R, i) < Rank(I, R, j)
         /\ \A n \in 0 .. Cardinality(I) - 1 : \E i \in I : Rank(I, R, i) = n
<1>. DEFINE Before(i) == {j \in I : <<j, i>> \in R}
            k == Cardinality(I)
            f == [i \in I |-> Rank(I, R, i)]
<1>1. k \in Nat
  BY FS_CardinalityType
<1>2. ASSUME NEW i \in I
      PROVE  IsFiniteSet(Before(i)) /\ Rank(I, R, i) \in 0 .. k - 1
  <2>1. Before(i) \subseteq I /\ i \notin Before(i) /\ Before(i) # I
    BY DEF IsOrder
  <2>. HIDE DEF Before
  <2>2. IsFiniteSet(Before(i)) /\ Cardinality(Before(i)) < k /\ Cardinality(Before(i)) \in Nat
    BY <2>1, FS_Subset, FS_CardinalityType
  <2>. QED
    BY <1>1, <2>2 DEF Rank, Before
<1>3. ASSUME NEW i \in I, NEW j \in I, <<i, j>> \in R
      PROVE  Rank(I, R, i) < Rank(I, R, j)
  <2>1. Before(i) \subseteq Before(j) /\ i \in Before(j) /\ i \notin Before(i)
    BY <1>3 DEF IsOrder
  <2>. HIDE DEF Before
  <2>2. Cardinality(Before(i)) < Cardinality(Before(j))
    BY <1>2, <2>1, FS_Subset, FS_CardinalityType
  <2>. QED
    BY <2>2 DEF Rank, Before
<1>4. ASSUME NEW n \in 0 .. k - 1 PROVE \E i \in I : Rank(I, R, i) = n
  <2>1. \A i, j \in I : i # j => f[i] # f[j]
    <3>. SUFFICES ASSUME NEW i \in I, NEW j \in I, i # j PROVE Rank(I, R, i) # Rank(I, R, j)
      OBVIOUS
    <3>1. Rank(I, R, i) < Rank(I, R, j) \/ Rank(I, R, j) < Rank(I, R, i)
      BY <1>3 DEF IsOrder
    <3>2. Rank(I, R, i) \in 0 .. k - 1 /\ Rank(I, R, j) \in 0 .. k - 1
      BY <1>2, Zenon
    <3>. HIDE DEF k
    <3>. QED
      BY <1>1, <3>1, <3>2
  <2>2. f \in Injection(I, 0 .. k - 1)
    BY <1>2, <2>1 DEF Injection, IsInjective
  <2>3. IsFiniteSet(0 .. k - 1) /\ Cardinality(0 .. k - 1) = k
    BY <1>1, FS_Interval
  <2>. HIDE DEF f
  <2>4. f \in Surjection(I, 0 .. k - 1)
    BY <2>2, <2>3, FS_Injection
  <2>. QED
    BY <2>4 DEF Surjection, f
<1>. QED
  BY <1>1, <1>2, <1>3, <1>4

\* The sequence a has the element of s at each place of I at its rank, and no
\* other element.
IsArrangement(a, s, I, R) ==
  /\ IsFiniteSet(I) /\ Cardinality(I) \in Nat /\ Len(a) = Cardinality(I)
  /\ \A i \in I : Rank(I, R, i) + 1 \in 1 .. Cardinality(I) /\ a[Rank(I, R, i) + 1] = s[i]
  /\ \A n \in 1 .. Cardinality(I) : \E i \in I : n = Rank(I, R, i) + 1 /\ a[n] = s[i]

LEMMA ArrangedFacts ==
  ASSUME NEW T, NEW s \in Seq(T), NEW I \in SUBSET (1 .. Len(s)), NEW R, IsOrder(I, R)
  PROVE  Arranged(s, I, R) \in Seq(T) /\ IsArrangement(Arranged(s, I, R), s, I, R)
<1>. DEFINE k == Cardinality(I)
            a == Arranged(s, I, R)
            At(n) == CHOOSE i \in I : Rank(I, R, i) = n - 1
<1>1. IsFiniteSet(I)
  <2>1. IsFiniteSet(1 .. Len(s))
    BY FS_Interval
  <2>. QED
    BY <2>1, FS_Subset
<1>2. /\ k \in Nat
      /\ \A i \in I : Rank(I, R, i) \in 0 .. k - 1
      /\ \A i, j \in I : <<i, j>> \in R => Rank(I, R, i) < Rank(I, R, j)
      /\ \A n \in 0 .. k - 1 : \E i \in I : Rank(I, R, i) = n
  BY <1>1, RankFacts
<1>3. \A i, j \in I : Rank(I, R, i) = Rank(I, R, j) => i = j
  <2>. SUFFICES ASSUME NEW i \in I, NEW j \in I, i # j PROVE Rank(I, R, i) # Rank(I, R, j)
    OBVIOUS
  <2>1. Rank(I, R, i) < Rank(I, R, j) \/ Rank(I, R, j) < Rank(I, R, i)
    BY <1>2 DEF IsOrder
  <2>. QED
    BY <1>2, <2>1
<1>4. a = [n \in 1 .. k |-> s[At(n)]]
  BY DEF Arranged
<1>5. ASSUME NEW n \in 1 .. k PROVE At(n) \in I /\ n = Rank(I, R, At(n)) + 1
  <2>1. n - 1 \in 0 .. k - 1
    BY <1>2
  <2>2. At(n) \in I /\ Rank(I, R, At(n)) = n - 1
    BY <1>2, <2>1
  <2>. HIDE DEF At
  <2>. QED
    BY <2>2
<1>. HIDE DEF a, k, At
<1>6. \A i \in I : s[i] \in T
  BY ElementOfSeq
<1>7. a \in Seq(T) /\ Len(a) = k /\ \A n \in 1 .. k : a[n] = s[At(n)]
  <2>1. \A n \in 1 .. k : s[At(n)] \in T
    BY <1>5, <1>6
  <2>. QED
    BY <1>2, <1>4, <2>1
<1>8. ASSUME NEW i \in I
      PROVE  Rank(I, R, i) + 1 \in 1 .. k /\ a[Rank(I, R, i) + 1] = s[i]
  <2>1. Rank(I, R, i) + 1 \in 1 .. k
    BY <1>2
  <2>2. At(Rank(I, R, i) + 1) \in I
        /\ Rank(I, R, i) + 1 = Rank(I, R, At(Rank(I, R, i) + 1)) + 1
    BY <1>5, <2>1
  <2>3. Rank(I, R, i) = Rank(I, R, At(Rank(I, R, i) + 1))
    <3>1. Rank(I, R, i) \in 0 .. k - 1 /\ Rank(I, R, At(Rank(I, R, i) + 1)) \in 0 .. k - 1
      BY <1>2, <2>2, Zenon
    <3>. QED
      BY <1>2, <2>2, <3>1
  <2>4. At(Rank(I, R, i) + 1) = i
    BY <1>3, <2>2, <2>3
  <2>. QED
    BY <1>7, <2>1, <2>4
<1>9. \A n \in 1 .. k : \E i \in I : n = Rank(I, R, i) + 1 /\ a[n] = s[i]
  BY <1>5, <1>7
<1>. QED
  BY <1>1, <1>2, <1>7, <1>8, <1>9 DEF a, k, IsArrangement

\* Lists that agree at the places arrange them alike, and one more place at
\* the end of the order is one more element at the end.
Agree(s, R, t, Q, I) ==
  /\ \A i \in I : s[i] = t[i]
  /\ \A i, j \in I : <<i, j>> \in R <=> <<i, j>> \in Q
IsAfter(m, I, Q) == m \notin I /\ \A i \in I : <<i, m>> \in Q /\ <<m, i>> \notin Q

LEMMA ArrangedSame ==
  ASSUME NEW T, NEW s \in Seq(T), NEW t \in Seq(T),
         NEW I \in SUBSET (1 .. Len(s)), I \subseteq 1 .. Len(t),
         NEW R, NEW Q, IsOrder(I, R), Agree(s, R, t, Q, I)
  PROVE  Arranged(t, I, Q) = Arranged(s, I, R)
<1>. DEFINE k == Cardinality(I)
            a == Arranged(s, I, R)
            b == Arranged(t, I, Q)
<1>1. IsOrder(I, Q)
  BY DEF IsOrder, Agree
<1>2. \A i \in I : Rank(I, Q, i) = Rank(I, R, i)
  <2>. SUFFICES ASSUME NEW i \in I PROVE Rank(I, Q, i) = Rank(I, R, i)
    OBVIOUS
  <2>1. {j \in I : <<j, i>> \in Q} = {j \in I : <<j, i>> \in R}
    BY DEF Agree
  <2>. QED
    BY <2>1 DEF Rank
<1>a. a \in Seq(T) /\ IsArrangement(a, s, I, R)
  BY ArrangedFacts
<1>b. b \in Seq(T) /\ IsArrangement(b, t, I, Q)
  BY <1>1, ArrangedFacts
<1>. HIDE DEF a, b
<1>3. /\ k \in Nat /\ Len(a) = k
      /\ \A n \in 1 .. k : \E i \in I : n = Rank(I, R, i) + 1 /\ a[n] = s[i]
  BY <1>a DEF IsArrangement
<1>4. Len(b) = k /\ \A i \in I : b[Rank(I, Q, i) + 1] = t[i]
  BY <1>b DEF IsArrangement
<1>. HIDE DEF k
<1>5. \A n \in 1 .. k : a[n] = b[n]
  <2>. SUFFICES ASSUME NEW n \in 1 .. k PROVE a[n] = b[n]
    OBVIOUS
  <2>1. PICK i \in I : n = Rank(I, R, i) + 1 /\ a[n] = s[i]
    BY <1>3
  <2>2. b[Rank(I, Q, i) + 1] = t[i] /\ Rank(I, Q, i) = Rank(I, R, i)
    BY <1>2, <1>4
  <2>. QED
    BY <2>1, <2>2 DEF Agree
<1>. QED
  BY <1>a, <1>b, <1>3, <1>4, <1>5 DEF a, b

Grows(T, s, R, t, Q, I, m) ==
  /\ s \in Seq(T) /\ t \in Seq(T) /\ I \in SUBSET (1 .. Len(s)) /\ I \subseteq 1 .. Len(t)
  /\ IsOrder(I, R) /\ Agree(s, R, t, Q, I)
  /\ m \in 1 .. Len(t) /\ IsOrder(I \cup {m}, Q) /\ IsAfter(m, I, Q)

LEMMA ArrangedMore ==
  ASSUME NEW T, NEW s, NEW R, NEW t, NEW Q, NEW I, NEW m, Grows(T, s, R, t, Q, I, m)
  PROVE  Arranged(t, I \cup {m}, Q) = Append(Arranged(s, I, R), t[m])
<1>. DEFINE k == Cardinality(I)
            J == I \cup {m}
            a == Arranged(s, I, R)
            b == Arranged(t, J, Q)
<1>0. /\ s \in Seq(T) /\ t \in Seq(T) /\ I \in SUBSET (1 .. Len(s)) /\ I \subseteq 1 .. Len(t)
      /\ IsOrder(I, R) /\ Agree(s, R, t, Q, I)
      /\ m \in 1 .. Len(t) /\ IsOrder(I \cup {m}, Q) /\ IsAfter(m, I, Q)
  BY DEF Grows
<1>a. a \in Seq(T) /\ IsArrangement(a, s, I, R)
  BY <1>0, ArrangedFacts
<1>. HIDE DEF a
<1>1. /\ IsFiniteSet(I) /\ k \in Nat /\ Len(a) = k
      /\ \A n \in 1 .. k : \E i \in I : n = Rank(I, R, i) + 1 /\ a[n] = s[i]
  BY <1>a DEF IsArrangement
<1>2. Cardinality(J) = k + 1
  BY <1>0, <1>1, FS_AddElement DEF IsAfter
<1>3. J \in SUBSET (1 .. Len(t)) /\ IsOrder(J, Q)
  BY <1>0
<1>4. \A i \in I : Rank(J, Q, i) = Rank(I, R, i)
  <2>. SUFFICES ASSUME NEW i \in I PROVE Rank(J, Q, i) = Rank(I, R, i)
    OBVIOUS
  <2>1. {j \in J : <<j, i>> \in Q} = {j \in I : <<j, i>> \in R}
    BY <1>0 DEF Agree, IsAfter
  <2>. QED
    BY <2>1 DEF Rank
<1>5. Rank(J, Q, m) = k
  <2>1. {j \in J : <<j, m>> \in Q} = I
    BY <1>0, <1>3 DEF IsOrder, IsAfter
  <2>. QED
    BY <2>1 DEF Rank
<1>. HIDE DEF k, J
<1>b. b \in Seq(T) /\ IsArrangement(b, t, J, Q)
  BY <1>0, <1>3, ArrangedFacts
<1>. HIDE DEF b
<1>6. Len(b) = Cardinality(J) /\ \A i \in J : b[Rank(J, Q, i) + 1] = t[i]
  BY <1>b DEF IsArrangement
<1>7. m \in J /\ \A i \in I : i \in J
  BY DEF J
<1>8. b[k + 1] = t[m]
  BY <1>5, <1>6, <1>7
<1>9. \A n \in 1 .. k : b[n] = a[n]
  <2>. SUFFICES ASSUME NEW n \in 1 .. k PROVE b[n] = a[n]
    OBVIOUS
  <2>1. PICK i \in I : n = Rank(I, R, i) + 1 /\ a[n] = s[i]
    BY <1>1
  <2>2. b[Rank(J, Q, i) + 1] = t[i] /\ Rank(J, Q, i) = Rank(I, R, i)
    BY <1>4, <1>6, <1>7
  <2>. QED
    BY <1>0, <2>1, <2>2 DEF Agree
<1>10. t[m] \in T
  BY <1>0, ElementOfSeq
<1>11. b = Append(a, t[m])
  <2>1. /\ Append(a, t[m]) \in Seq(T) /\ Len(Append(a, t[m])) = k + 1
        /\ \A n \in 1 .. k : Append(a, t[m])[n] = a[n]
        /\ Append(a, t[m])[k + 1] = t[m]
    BY <1>a, <1>1, <1>10
  <2>2. \A n \in 1 .. k + 1 : n \in 1 .. k \/ n = k + 1
    BY <1>1
  <2>3. Len(b) = k + 1 /\ k + 1 \in Nat
    BY <1>1, <1>2, <1>6
  <2>4. \A n \in 1 .. k + 1 : b[n] = Append(a, t[m])[n]
    BY <1>8, <1>9, <2>1, <2>2
  <2>. QED
    BY <1>b, <2>1, <2>3, <2>4
<1>. QED
  BY <1>11 DEF a, b, J

-----------------------------------------------------------------------------
(* Filters *)

LEMMA InPlaceIsOrder ==
  ASSUME NEW T, NEW s \in Seq(T), NEW I \in SUBSET (1 .. Len(s))
  PROVE  /\ IsOrder(I, InPlace(s))
         /\ \A i, j \in 1 .. Len(s) : <<i, j>> \in InPlace(s) <=> i < j
<1>1. \A i, j \in 1 .. Len(s) : <<i, j>> \in InPlace(s) <=> i < j
  BY DEF InPlace
<1>2. \A i, j, k \in 1 .. Len(s) :
        ~ (i < i) /\ (i # j => i < j \/ j < i) /\ (i < j /\ j < k => i < k)
  OBVIOUS
<1>. QED
  BY <1>1, <1>2 DEF IsOrder

\* A filter leaves what is in the set, and repeats nothing.
LEMMA OnlyFacts ==
  ASSUME NEW T, NEW s \in Seq(T), NEW S
  PROVE  /\ Only(s, S) \in Seq(T) /\ Range(Only(s, S)) = Range(s) \cap S
         /\ IsInjective(s) => IsInjective(Only(s, S))
<1>. DEFINE I == {i \in 1 .. Len(s) : s[i] \in S}
            R == InPlace(s)
            k == Cardinality(I)
            o == Only(s, S)
<1>1. I \in SUBSET (1 .. Len(s)) /\ DOMAIN s = 1 .. Len(s) /\ Len(s) \in Nat
  OBVIOUS
<1>2. IsOrder(I, R) /\ \A i, j \in I : <<i, j>> \in R <=> i < j
  BY <1>1, InPlaceIsOrder
<1>3. o = Arranged(s, I, R)
  BY DEF Only
<1>. HIDE DEF I, R, o
<1>a. o \in Seq(T) /\ IsArrangement(o, s, I, R)
  BY <1>1, <1>2, <1>3, ArrangedFacts
<1>4. /\ k \in Nat /\ o \in Seq(T) /\ Len(o) = k
      /\ \A i \in I : Rank(I, R, i) + 1 \in 1 .. k /\ o[Rank(I, R, i) + 1] = s[i]
      /\ \A n \in 1 .. k : \E i \in I : n = Rank(I, R, i) + 1 /\ o[n] = s[i]
  BY <1>a DEF IsArrangement
<1>5. Range(o) = Range(s) \cap S
  <2>1. DOMAIN o = 1 .. k
    BY <1>4
  <2>2. \A i : i \in I <=> i \in 1 .. Len(s) /\ s[i] \in S
    BY DEF I
  <2>3. Range(o) \subseteq Range(s) \cap S
    BY <1>1, <1>4, <2>1, <2>2 DEF Range
  <2>4. Range(s) \cap S \subseteq Range(o)
    BY <1>1, <1>4, <2>1, <2>2 DEF Range
  <2>. QED
    BY <2>3, <2>4
<1>6. IsInjective(s) => IsInjective(o)
  <2>. SUFFICES ASSUME IsInjective(s), NEW a \in 1 .. k, NEW b \in 1 .. k, o[a] = o[b]
                PROVE  a = b
    BY <1>4 DEF IsInjective
  <2>1. PICK x \in I : a = Rank(I, R, x) + 1 /\ o[a] = s[x]
    BY <1>4
  <2>2. PICK y \in I : b = Rank(I, R, y) + 1 /\ o[b] = s[y]
    BY <1>4
  <2>. QED
    BY <1>1, <2>1, <2>2 DEF IsInjective
<1>. QED
  BY <1>4, <1>5, <1>6 DEF o

LEMMA OnlyAppend ==
  ASSUME NEW T, NEW s \in Seq(T), NEW e \in T, NEW S
  PROVE  Only(Append(s, e), S) = IF e \in S THEN Append(Only(s, S), e) ELSE Only(s, S)
<1>. DEFINE t == Append(s, e)
            m == Len(s) + 1
            I == {i \in 1 .. Len(s) : s[i] \in S}
            J == {i \in 1 .. Len(t) : t[i] \in S}
<1>1. /\ t \in Seq(T) /\ Len(t) = m /\ Len(s) \in Nat /\ t[m] = e /\ m \in 1 .. Len(t)
      /\ \A i \in 1 .. Len(s) : t[i] = s[i] /\ i \in 1 .. Len(t) /\ i # m /\ i < m /\ ~ (m < i)
      /\ \A i \in 1 .. Len(t) : i \in 1 .. Len(s) \/ i = m
  OBVIOUS
<1>. HIDE DEF t, m
<1>2. J = IF e \in S THEN I \cup {m} ELSE I
  BY <1>1
<1>3. /\ I \in SUBSET (1 .. Len(s)) /\ I \subseteq 1 .. Len(t) /\ m \notin I
      /\ I \cup {m} \in SUBSET (1 .. Len(t)) /\ \A i \in I : s[i] = t[i]
  BY <1>1
<1>4. Only(s, S) = Arranged(s, I, InPlace(s)) /\ Only(t, S) = Arranged(t, J, InPlace(t))
  BY DEF Only
<1>. HIDE DEF I, J
<1>5. /\ IsOrder(I, InPlace(s)) /\ IsOrder(I \cup {m}, InPlace(t))
      /\ \A i, j \in 1 .. Len(s) : <<i, j>> \in InPlace(s) <=> i < j
      /\ \A i, j \in 1 .. Len(t) : <<i, j>> \in InPlace(t) <=> i < j
  BY <1>1, <1>3, InPlaceIsOrder
<1>6. Agree(s, InPlace(s), t, InPlace(t), I)
  BY <1>3, <1>5 DEF Agree
<1>7. IsAfter(m, I, InPlace(t))
  BY <1>1, <1>3, <1>5 DEF IsAfter
<1>8. Arranged(t, I, InPlace(t)) = Arranged(s, I, InPlace(s))
  BY <1>1, <1>3, <1>5, <1>6, ArrangedSame
<1>9. Arranged(t, I \cup {m}, InPlace(t)) = Append(Arranged(s, I, InPlace(s)), t[m])
  <2>1. Grows(T, s, InPlace(s), t, InPlace(t), I, m)
    BY <1>1, <1>3, <1>5, <1>6, <1>7 DEF Grows
  <2>. QED
    BY <2>1, ArrangedMore
<1>. QED
  BY <1>1, <1>2, <1>4, <1>8, <1>9 DEF t

LEMMA OnlyEmpty == \A S : Only(<<>>, S) = <<>>
<1>. SUFFICES ASSUME NEW S PROVE Only(<<>>, S) = <<>>
  OBVIOUS
<1>1. <<>> \in Seq({})
  OBVIOUS
<1>2. Only(<<>>, S) \in Seq({})
  BY <1>1, OnlyFacts
<1>. QED
  BY <1>2

LEMMA Appended ==
  ASSUME NEW T, NEW s \in Seq(T), NEW e \in T
  PROVE  /\ Append(s, e) \in Seq(T) /\ Range(Append(s, e)) = Range(s) \cup {e}
         /\ IsInjective(s) /\ e \notin Range(s) => IsInjective(Append(s, e))
<1>1. /\ Append(s, e) \in Seq(T) /\ Len(s) \in Nat /\ DOMAIN s = 1 .. Len(s)
      /\ DOMAIN Append(s, e) = 1 .. Len(s) + 1
      /\ \A n \in 1 .. Len(s) : Append(s, e)[n] = s[n]
      /\ Append(s, e)[Len(s) + 1] = e
  OBVIOUS
<1>2. \A n : n \in 1 .. Len(s) + 1 <=> n \in 1 .. Len(s) \/ n = Len(s) + 1
  BY <1>1
<1>3. Range(Append(s, e)) = Range(s) \cup {e}
  BY <1>1, <1>2 DEF Range
<1>4. IsInjective(s) /\ e \notin Range(s) => IsInjective(Append(s, e))
  BY <1>1, <1>2 DEF Range, IsInjective
<1>. QED
  BY <1>1, <1>3, <1>4

LEMMA NothingListed == <<>> \in Seq({}) /\ Range(<<>>) = {} /\ IsInjective(<<>>)
BY DEF Range, IsInjective

-----------------------------------------------------------------------------
(* Lists that are joined, and the latest of a list *)

LEMMA Joined ==
  ASSUME NEW T, NEW s \in Seq(T), NEW t \in Seq(T)
  PROVE  /\ s \o t \in Seq(T) /\ Range(s \o t) = Range(s) \cup Range(t)
         /\ IsInjective(s) /\ IsInjective(t) /\ Range(s) \cap Range(t) = {}
              => IsInjective(s \o t)
<1>. DEFINE k == Len(s)
            n == Len(t)
<1>1. /\ s \o t \in Seq(T) /\ k \in Nat /\ n \in Nat
      /\ DOMAIN s = 1 .. k /\ DOMAIN t = 1 .. n /\ DOMAIN (s \o t) = 1 .. k + n
      /\ \A i \in 1 .. k : (s \o t)[i] = s[i]
      /\ \A i \in k + 1 .. k + n : (s \o t)[i] = t[i - k]
  OBVIOUS
<1>. HIDE DEF k, n
<1>2. \A i \in 1 .. k + n : i \in 1 .. k \/ (i \in k + 1 .. k + n /\ i - k \in 1 .. n)
  BY <1>1
<1>3. Range(s \o t) \subseteq Range(s) \cup Range(t)
  BY <1>1, <1>2 DEF Range
<1>4. Range(s) \subseteq Range(s \o t)
  <2>1. \A i \in 1 .. k : i \in 1 .. k + n
    BY <1>1
  <2>. QED
    BY <1>1, <2>1 DEF Range
<1>5. Range(t) \subseteq Range(s \o t)
  <2>1. \A i \in 1 .. n : i + k \in k + 1 .. k + n /\ i + k \in 1 .. k + n /\ (i + k) - k = i
    BY <1>1
  <2>2. \A i \in 1 .. n : (s \o t)[i + k] = t[i]
    BY <1>1, <2>1
  <2>. SUFFICES ASSUME NEW i \in 1 .. n PROVE t[i] \in Range(s \o t)
    BY <1>1 DEF Range
  <2>. QED
    BY <1>1, <2>1, <2>2 DEF Range
<1>6. ASSUME IsInjective(s), IsInjective(t), Range(s) \cap Range(t) = {}
      PROVE  IsInjective(s \o t)
  <2>. SUFFICES ASSUME NEW i \in 1 .. k + n, NEW j \in 1 .. k + n, (s \o t)[i] = (s \o t)[j]
                PROVE  i = j
    BY <1>1 DEF IsInjective
  <2>1. CASE i \in 1 .. k /\ j \in 1 .. k
    BY <1>1, <1>6, <2>1 DEF IsInjective
  <2>2. CASE i \in k + 1 .. k + n /\ j \in k + 1 .. k + n
    <3>1. i - k \in 1 .. n /\ j - k \in 1 .. n /\ t[i - k] = t[j - k]
      BY <1>1, <2>2
    <3>2. i - k = j - k
      BY <1>1, <1>6, <3>1 DEF IsInjective
    <3>. QED
      BY <1>1, <3>2
  <2>3. \A a \in 1 .. k, b \in k + 1 .. k + n : (s \o t)[a] # (s \o t)[b]
    <3>. SUFFICES ASSUME NEW a \in 1 .. k, NEW b \in k + 1 .. k + n
                  PROVE  (s \o t)[a] # (s \o t)[b]
      OBVIOUS
    <3>1. b - k \in 1 .. n
      BY <1>1
    <3>2. (s \o t)[a] \in Range(s) /\ (s \o t)[b] \in Range(t)
      BY <1>1, <3>1 DEF Range
    <3>. QED
      BY <1>6, <3>2
  <2>. QED
    BY <1>2, <2>1, <2>2, <2>3
<1>. QED
  BY <1>1, <1>3, <1>4, <1>5, <1>6

LEMMA HeadAndTail ==
  ASSUME NEW T, NEW s \in Seq(T), s # <<>>
  PROVE  /\ Head(s) \in T /\ Tail(s) \in Seq(T)
         /\ Range(s) = {Head(s)} \cup Range(Tail(s))
<1>1. /\ Head(s) = s[1] /\ Tail(s) \in Seq(T) /\ Len(s) \in Nat \ {0}
      /\ DOMAIN s = 1 .. Len(s) /\ DOMAIN Tail(s) = 1 .. Len(s) - 1
      /\ \A i \in 1 .. Len(s) - 1 : Tail(s)[i] = s[i + 1]
  OBVIOUS
<1>2. \A i \in 1 .. Len(s) : i = 1 \/ (i - 1 \in 1 .. Len(s) - 1 /\ (i - 1) + 1 = i)
  BY <1>1
<1>3. 1 \in 1 .. Len(s) /\ \A i \in 1 .. Len(s) - 1 : i + 1 \in 1 .. Len(s)
  BY <1>1
<1>4. Range(s) \subseteq {Head(s)} \cup Range(Tail(s))
  <2>. SUFFICES ASSUME NEW i \in 1 .. Len(s) PROVE s[i] \in {Head(s)} \cup Range(Tail(s))
    BY <1>1 DEF Range
  <2>1. CASE i = 1
    BY <1>1, <2>1
  <2>2. CASE i - 1 \in 1 .. Len(s) - 1
    <3>1. s[i] = Tail(s)[i - 1]
      BY <1>1, <2>2
    <3>. QED
      BY <1>1, <2>2, <3>1 DEF Range
  <2>. QED
    BY <1>2, <2>1, <2>2
<1>5. {Head(s)} \cup Range(Tail(s)) \subseteq Range(s)
  BY <1>1, <1>3 DEF Range
<1>6. s[1] \in T
  BY <1>1, <1>3, ElementOfSeq
<1>. QED
  BY <1>1, <1>4, <1>5, <1>6

LEMMA Just == ASSUME NEW T, NEW e \in T
              PROVE  <<e>> \in Seq(T) /\ Range(<<e>>) = {e} /\ IsInjective(<<e>>)
BY DEF Range, IsInjective

\* The latest elements of v, at most limit of them.
Latest(v, limit) == SubSeq(v, IF Len(v) > limit THEN Len(v) - limit + 1 ELSE 1, Len(v))

\* The elements of v after its k-th one.
After(v, k) == {v[i] : i \in {j \in 1 .. Len(v) : j > k}}

LEMMA LatestIs ==
  ASSUME NEW T, NEW v \in Seq(T), NEW limit \in Nat \ {0}
  PROVE  /\ Latest(v, limit) \in Seq(T)
         /\ Range(Latest(v, limit)) = After(v, Len(v) - limit)
         /\ IsInjective(v) => IsInjective(Latest(v, limit))
<1>. DEFINE n == Len(v)
            f == IF n > limit THEN n - limit + 1 ELSE 1
            u == SubSeq(v, f, n)
<1>1. n \in Nat /\ f \in 1 .. n + 1 /\ DOMAIN v = 1 .. n
  OBVIOUS
<1>2. /\ u \in Seq(T) /\ DOMAIN u = 1 .. n - f + 1
      /\ \A i \in 1 .. n - f + 1 : u[i] = v[f + i - 1]
  <2>1. \A i \in f .. n : v[i] \in T
    BY <1>1, ElementOfSeq
  <2>. HIDE DEF f, n
  <2>2. u = [i \in 1 .. n - f + 1 |-> v[f + i - 1]]
    BY <1>1
  <2>3. \A i \in 1 .. n - f + 1 : f + i - 1 \in f .. n
    BY <1>1
  <2>4. n - f + 1 \in Nat
    BY <1>1
  <2>. QED
    BY <2>1, <2>2, <2>3, <2>4
<1>3. \A i \in 1 .. n - f + 1 : f + i - 1 \in 1 .. n /\ f + i - 1 > n - limit
  BY <1>1
<1>4. \A j \in 1 .. n : j > n - limit => j - f + 1 \in 1 .. n - f + 1 /\ f + (j - f + 1) - 1 = j
  BY <1>1
<1>5. Latest(v, limit) = u
  BY DEF Latest
<1>. HIDE DEF n, f, u
<1>6. Range(u) = {v[i] : i \in {j \in 1 .. n : j > n - limit}}
  BY <1>2, <1>3, <1>4 DEF Range
<1>7. IsInjective(v) => IsInjective(u)
  <2>1. \A i, j \in 1 .. n - f + 1 : f + i - 1 = f + j - 1 => i = j
    BY <1>1
  <2>. QED
    BY <1>1, <1>2, <1>3, <2>1 DEF IsInjective
<1>. QED
  BY <1>2, <1>5, <1>6, <1>7 DEF n, After

LEMMA LatestFacts ==
  ASSUME NEW T, NEW v \in Seq(T), NEW limit \in Nat \ {0}
  PROVE  /\ Latest(v, limit) \in Seq(T) /\ Range(Latest(v, limit)) \subseteq Range(v)
         /\ IsInjective(v) => IsInjective(Latest(v, limit))
<1>1. After(v, Len(v) - limit) \subseteq Range(v)
  BY DEF After, Range
<1>. QED
  BY <1>1, LatestIs

\* One more element at the end is the only one that can be new among the latest.
LEMMA LatestOfAppend ==
  ASSUME NEW T, NEW v \in Seq(T), NEW e \in T, NEW limit \in Nat \ {0}
  PROVE  Range(Latest(Append(v, e), limit)) \subseteq Range(Latest(v, limit)) \cup {e}
<1>. DEFINE w == Append(v, e)
            n == Len(v)
<1>1. /\ w \in Seq(T) /\ Len(w) = n + 1 /\ n \in Nat /\ w[n + 1] = e
      /\ \A i \in 1 .. n : w[i] = v[i]
  OBVIOUS
<1>. HIDE DEF w, n
<1>2. \A i \in 1 .. n + 1 : i > n + 1 - limit => i = n + 1 \/ (i \in 1 .. n /\ i > n - limit)
  BY <1>1
<1>3. Range(Latest(w, limit)) = After(w, n + 1 - limit)
  <2>1. Range(Latest(w, limit)) = After(w, Len(w) - limit)
    BY <1>1, LatestIs
  <2>. QED
    BY <1>1, <2>1
<1>4. Range(Latest(v, limit)) = After(v, n - limit)
  BY LatestIs DEF n
<1>5. After(w, n + 1 - limit) \subseteq After(v, n - limit) \cup {e}
  <2>. SUFFICES ASSUME NEW i \in 1 .. n + 1, i > n + 1 - limit
                PROVE  w[i] \in After(v, n - limit) \cup {e}
    BY <1>1 DEF After
  <2>1. CASE i = n + 1
    BY <1>1, <2>1
  <2>2. CASE i \in 1 .. n /\ i > n - limit
    BY <1>1, <2>2 DEF After, n
  <2>. QED
    BY <1>2, <2>1, <2>2
<1>. QED
  BY <1>3, <1>4, <1>5 DEF w

LEMMA RecentIsLatest ==
  ASSUME NEW s, NEW r, NEW limit
  PROVE  Recent(s, r, limit) = Latest(Visible(s, r), limit)
BY DEF Recent, Latest

\* What the server answers is of its packets, without a repetition if they have none.
LEMMA RecentFacts ==
  ASSUME NEW s \in Seq(Packet), NEW r
  PROVE  /\ Recent(s, r, Limit) \in Seq(Packet)
         /\ Range(Recent(s, r, Limit)) \subseteq Range(s)
         /\ IsInjective(s) => IsInjective(Recent(s, r, Limit))
<1>. DEFINE v == Visible(s, r)
<1>1. v \in Seq(Packet) /\ Range(v) \subseteq Range(s) /\ (IsInjective(s) => IsInjective(v))
  BY OnlyFacts DEF Visible
<1>. HIDE DEF v
<1>2. Limit \in Nat \ {0}
  BY LiveViewAssumption
<1>3. Recent(s, r, Limit) = Latest(v, Limit)
  BY RecentIsLatest DEF v
<1>. QED
  BY <1>1, <1>2, <1>3, LatestFacts

\* A packet that is stored is the only one that can be new in the answer.
LEMMA RecentOfAppend ==
  ASSUME NEW s \in Seq(Packet), NEW p \in Packet, NEW r
  PROVE  Range(Recent(Append(s, p), r, Limit)) \subseteq Range(Recent(s, r, Limit)) \cup {p}
<1>. DEFINE v == Visible(s, r)
            w == Visible(Append(s, p), r)
<1>1. v \in Seq(Packet)
  BY OnlyFacts DEF Visible
<1>2. w = v \/ w = Append(v, p)
  BY OnlyAppend DEF Visible
<1>. HIDE DEF v, w
<1>3. Limit \in Nat \ {0}
  BY LiveViewAssumption
<1>4. Range(Latest(Append(v, p), Limit)) \subseteq Range(Latest(v, Limit)) \cup {p}
  BY <1>1, <1>3, LatestOfAppend
<1>5. Recent(s, r, Limit) = Latest(v, Limit) /\ Recent(Append(s, p), r, Limit) = Latest(w, Limit)
  BY RecentIsLatest DEF v, w
<1>. QED
  BY <1>2, <1>4, <1>5

LEMMA RecentOfNothing == \A r : Range(Recent(<<>>, r, Limit)) = {}
<1>. SUFFICES ASSUME NEW r PROVE Range(Recent(<<>>, r, Limit)) = {}
  OBVIOUS
<1>1. <<>> \in Seq(Packet)
  OBVIOUS
<1>. QED
  BY <1>1, RecentFacts, NothingListed

-----------------------------------------------------------------------------
(* Every variable has its type, and nothing is listed twice *)

\* What addPacket() makes of a list ks that has no repetition.
LEMMA NewsJoined ==
  ASSUME NEW ks \in Seq(Packet), IsInjective(ks), NEW ps \in Seq(Packet), IsInjective(ps)
  PROVE  /\ ks \o Only(ps, Packet \ Range(ks)) \in Seq(Packet)
         /\ IsInjective(ks \o Only(ps, Packet \ Range(ks)))
         /\ Range(ks \o Only(ps, Packet \ Range(ks))) = Range(ks) \cup Range(ps)
<1>. DEFINE ns == Only(ps, Packet \ Range(ks))
<1>1. ns \in Seq(Packet) /\ Range(ns) = Range(ps) \cap (Packet \ Range(ks)) /\ IsInjective(ns)
  BY OnlyFacts
<1>2. Range(ps) \subseteq Packet
  BY DEF Range
<1>. HIDE DEF ns
<1>3. /\ ks \o ns \in Seq(Packet) /\ Range(ks \o ns) = Range(ks) \cup Range(ns)
      /\ IsInjective(ks) /\ IsInjective(ns) /\ Range(ks) \cap Range(ns) = {}
           => IsInjective(ks \o ns)
  BY <1>1, Joined
<1>. QED
  BY <1>1, <1>2, <1>3 DEF ns

LEMMA RangeIn == ASSUME NEW T, NEW s \in Seq(T) PROVE Range(s) \subseteq T
BY DEF Range

\* No list has a packet twice: the server's has none as a packet is captured
\* once, so the answers have none, so the page's own has none as it adds what
\* it has not seen.
NoneTwice ==
  /\ IsInjective(stored) /\ Range(stored) \subseteq minted
  /\ \A l \in Load : IsInjective(answer[l])
  /\ ListedOnce

LEMMA BeginningOf ==
  ASSUME NEW T, NEW s \in Seq(T), IsInjective(s), NEW k \in 1 .. Len(s)
  PROVE  /\ SubSeq(s, 1, k) \in Seq(T) /\ IsInjective(SubSeq(s, 1, k))
         /\ Range(SubSeq(s, 1, k)) \subseteq Range(s)
<1>. DEFINE ps == SubSeq(s, 1, k)
<1>1. ps \in Seq(T) /\ Len(ps) = k /\ \A i \in 1 .. k : ps[i] = s[i]
  OBVIOUS
<1>2. DOMAIN ps = 1 .. k /\ \A i \in 1 .. k : i \in DOMAIN s
  BY <1>1
<1>. HIDE DEF ps
<1>3. IsInjective(ps) /\ Range(ps) \subseteq Range(s)
  BY <1>1, <1>2 DEF IsInjective, Range
<1>. QED
  BY <1>1, <1>3 DEF ps

\* What a load has added when a packet that cannot be drawn stops it.
LEMMA StopsAdds ==
  ASSUME TypeOK, NoneTwice, NEW l \in Load, FillStops(l)
  PROVE  \E ps \in Seq(Packet) :
           /\ IsInjective(ps) /\ Range(ps) \subseteq Range(answer[l])
           /\ AddPackets(ps)
<1>1. answer[l] \in Seq(Packet) /\ IsInjective(answer[l])
  BY DEF TypeOK, NoneTwice
<1>2. PICK k \in 1 .. Len(answer[l]) : AddPackets(SubSeq(answer[l], 1, k))
  BY <1>1 DEF FillStops
<1>. QED
  BY <1>1, <1>2, BeginningOf

LEMMA InitTypeOK == Init => TypeOK
<1>1. <<>> \in Seq(Packet)
  OBVIOUS
<1>. QED
  BY <1>1 DEF Init, TypeOK

LEMMA InitNoneTwice == Init => NoneTwice
BY NothingListed DEF Init, NoneTwice, ListedOnce

LEMMA StepTypeOK == TypeOK /\ NoneTwice /\ [Next]_vars => TypeOK'
<1>. SUFFICES ASSUME TypeOK, NoneTwice, [Next]_vars PROVE TypeOK'
  OBVIOUS
<1>. USE DEF TypeOK
<1>1. ASSUME NEW p \in Packet, Capture(p) PROVE TypeOK'
  <2>1. Append(stored, p) \in Seq(Packet)
    BY Appended
  <2>. QED
    BY <1>1, <2>1 DEF Capture, listVars, loadVars
<1>2. ASSUME NEW p \in Packet, Emit(p) PROVE TypeOK'
  <2>1. Append(wire, p) \in Seq(Packet)
    BY Appended
  <2>. QED
    BY <1>2, <2>1 DEF Emit, listVars, loadVars
<1>3. ASSUME ServerClears PROVE TypeOK'
  <2>1. <<>> \in Seq(Packet)
    OBVIOUS
  <2>. QED
    BY <1>3, <2>1 DEF ServerClears, listVars, loadVars
<1>4. ASSUME Live PROVE TypeOK'
  <2>. DEFINE ps == <<Head(wire)>>
  <2>1. Head(wire) \in Packet /\ Tail(wire) \in Seq(Packet)
    BY <1>4, HeadAndTail DEF Live
  <2>2. ps \in Seq(Packet) /\ Range(ps) \subseteq Packet /\ IsInjective(ps)
    BY <2>1, Just, RangeIn
  <2>. HIDE DEF ps
  <2>3. packets' = packets \o Only(ps, Packet \ Range(packets)) /\ seen' = seen \cup Range(ps)
    BY <1>4 DEF Live, AddPackets, News, NoneTwice, ListedOnce, ps
  <2>4. packets' \in Seq(Packet)
    BY <2>2, <2>3, NewsJoined DEF NoneTwice, ListedOnce
  <2>. QED
    BY <1>4, <2>1, <2>2, <2>3, <2>4 DEF Live, Note, Mishap, loadVars
<1>5. ASSUME Clear PROVE TypeOK'
  <2>1. <<>> \in Seq(Packet)
    OBVIOUS
  <2>. QED
    BY <1>5, <2>1 DEF Clear, Note, Mishap, serverVars, loadVars
<1>6. ASSUME NEW l \in Load, Answer(l) PROVE TypeOK'
  <2>1. Recent(stored, wanted[l], Limit) \in Seq(Packet)
    BY RecentFacts
  <2>. QED
    BY <1>6, <2>1 DEF Answer, serverVars, listVars
<1>7. ASSUME NEW l \in Load, Reset(l) PROVE TypeOK'
  <2>1. <<>> \in Seq(Packet)
    OBVIOUS
  <2>. QED
    BY <1>7, <2>1 DEF Reset, serverVars
<1>8. ASSUME NEW l \in Load, Fill(l) PROVE TypeOK'
  <2>. DEFINE ps == answer[l]
  <2>1. ps \in Seq(Packet) /\ Range(ps) \subseteq Packet /\ IsInjective(ps)
    BY RangeIn DEF NoneTwice
  <2>2. <<>> \in Seq(Packet)
    OBVIOUS
  <2>3. packets' = packets \o Only(ps, Packet \ Range(packets)) /\ seen' = seen \cup Range(ps)
    BY <1>8 DEF Fill, AddPackets, News, NoneTwice, ListedOnce
  <2>. HIDE DEF ps
  <2>4. packets' \in Seq(Packet)
    BY <2>1, <2>3, NewsJoined DEF NoneTwice, ListedOnce
  <2>. QED
    BY <1>8, <2>1, <2>2, <2>3, <2>4 DEF Fill, serverVars
<1>9. ASSUME NEW l \in Load, Fail(l) PROVE TypeOK'
  BY <1>9 DEF Fail, Note, Mishap, serverVars, listVars
<1>10. ASSUME NEW l \in Load, NEW r \in Run \cup {All}, Ask(l, r) PROVE TypeOK'
  BY <1>10 DEF Ask, Note, Mishap, serverVars, listVars
<1>12. ASSUME NEW l \in Load, FillStops(l) PROVE TypeOK'
  <2>1. PICK ps \in Seq(Packet) : IsInjective(ps) /\ AddPackets(ps)
    BY <1>12, StopsAdds
  <2>2. Range(ps) \subseteq Packet /\ <<>> \in Seq(Packet)
    BY RangeIn
  <2>3. packets' = packets \o Only(ps, Packet \ Range(packets)) /\ seen' = seen \cup Range(ps)
    BY <2>1 DEF AddPackets, News, NoneTwice, ListedOnce
  <2>4. packets' \in Seq(Packet)
    BY <2>1, <2>3, NewsJoined DEF NoneTwice, ListedOnce
  <2>. QED
    BY <1>12, <2>2, <2>3, <2>4 DEF FillStops, Note, Mishap, serverVars
<1>11. CASE UNCHANGED vars
  BY <1>11 DEF vars, serverVars, listVars, loadVars
<1>. QED
  BY <1>1, <1>2, <1>3, <1>4, <1>5, <1>6, <1>7, <1>8, <1>9, <1>10, <1>11, <1>12 DEF Next, Answers

LEMMA StepNoneTwice == TypeOK /\ NoneTwice /\ [Next]_vars => NoneTwice'
<1>. SUFFICES ASSUME TypeOK, NoneTwice, [Next]_vars PROVE NoneTwice'
  OBVIOUS
<1>. USE DEF TypeOK, NoneTwice
<1>1. ASSUME NEW p \in Packet, Capture(p) PROVE NoneTwice'
  <2>1. /\ Range(Append(stored, p)) = Range(stored) \cup {p}
        /\ p \notin Range(stored) => IsInjective(Append(stored, p))
    BY Appended
  <2>. QED
    BY <1>1, <2>1 DEF Capture, listVars, loadVars, ListedOnce
<1>2. ASSUME NEW p \in Packet, Emit(p) PROVE NoneTwice'
  BY <1>2 DEF Emit, listVars, loadVars, ListedOnce
<1>3. ASSUME ServerClears PROVE NoneTwice'
  BY <1>3, NothingListed DEF ServerClears, listVars, loadVars, ListedOnce
<1>4. ASSUME Live PROVE NoneTwice'
  <2>. DEFINE ps == <<Head(wire)>>
  <2>1. Head(wire) \in Packet
    BY <1>4, HeadAndTail DEF Live
  <2>2. ps \in Seq(Packet) /\ IsInjective(ps)
    BY <2>1, Just
  <2>. HIDE DEF ps
  <2>3. packets' = packets \o Only(ps, Packet \ Range(packets))
        /\ seen' = Range(packets) \cup Range(ps)
    BY <1>4 DEF Live, AddPackets, News, ListedOnce, ps
  <2>4. IsInjective(packets') /\ Range(packets') = Range(packets) \cup Range(ps)
    BY <2>2, <2>3, NewsJoined DEF ListedOnce
  <2>. QED
    BY <1>4, <2>3, <2>4 DEF Live, loadVars, ListedOnce
<1>5. ASSUME Clear PROVE NoneTwice'
  BY <1>5, NothingListed DEF Clear, serverVars, loadVars, ListedOnce
<1>6. ASSUME NEW l \in Load, Answer(l) PROVE NoneTwice'
  <2>1. IsInjective(Recent(stored, wanted[l], Limit))
    BY RecentFacts
  <2>. QED
    BY <1>6, <2>1 DEF Answer, serverVars, listVars, ListedOnce
<1>7. ASSUME NEW l \in Load, Reset(l) PROVE NoneTwice'
  BY <1>7, NothingListed DEF Reset, serverVars, ListedOnce
<1>8. ASSUME NEW l \in Load, Fill(l) PROVE NoneTwice'
  <2>. DEFINE ps == answer[l]
  <2>1. ps \in Seq(Packet) /\ IsInjective(ps)
    OBVIOUS
  <2>2. packets' = packets \o Only(ps, Packet \ Range(packets))
        /\ seen' = Range(packets) \cup Range(ps)
    BY <1>8 DEF Fill, AddPackets, News, ListedOnce
  <2>. HIDE DEF ps
  <2>3. IsInjective(packets') /\ Range(packets') = Range(packets) \cup Range(ps)
    BY <2>1, <2>2, NewsJoined DEF ListedOnce
  <2>. QED
    BY <1>8, <2>2, <2>3, NothingListed DEF Fill, serverVars, ListedOnce
<1>9. ASSUME NEW l \in Load, Fail(l) PROVE NoneTwice'
  BY <1>9 DEF Fail, serverVars, listVars, ListedOnce
<1>10. ASSUME NEW l \in Load, NEW r \in Run \cup {All}, Ask(l, r) PROVE NoneTwice'
  BY <1>10 DEF Ask, serverVars, listVars, ListedOnce
<1>12. ASSUME NEW l \in Load, FillStops(l) PROVE NoneTwice'
  <2>1. PICK ps \in Seq(Packet) : IsInjective(ps) /\ AddPackets(ps)
    BY <1>12, StopsAdds
  <2>2. packets' = packets \o Only(ps, Packet \ Range(packets))
        /\ seen' = Range(packets) \cup Range(ps)
    BY <2>1 DEF AddPackets, News, ListedOnce
  <2>3. IsInjective(packets') /\ Range(packets') = Range(packets) \cup Range(ps)
    BY <2>1, <2>2, NewsJoined DEF ListedOnce
  <2>. QED
    BY <1>12, <2>2, <2>3, NothingListed DEF FillStops, serverVars, ListedOnce
<1>11. CASE UNCHANGED vars
  BY <1>11 DEF vars, serverVars, listVars, loadVars, ListedOnce
<1>. QED
  BY <1>1, <1>2, <1>3, <1>4, <1>5, <1>6, <1>7, <1>8, <1>9, <1>10, <1>11, <1>12 DEF Next, Answers

LEMMA ListsKept == Spec => [](TypeOK /\ NoneTwice)
<1>1. TypeOK /\ NoneTwice /\ [Next]_vars => (TypeOK /\ NoneTwice)'
  BY StepTypeOK, StepNoneTwice
<1>. QED
  BY InitTypeOK, InitNoneTwice, <1>1, PTL DEF Spec

\* However live packets, loads and clears interleave, no packet is listed
\* twice, and one is taken for seen exactly when it is listed.
THEOREM NoPacketTwice == Spec => []ListedOnce
<1>1. NoneTwice => ListedOnce
  BY DEF NoneTwice
<1>. QED
  BY ListsKept, <1>1, PTL

-----------------------------------------------------------------------------
(* The list is one that grows at its end *)

\* What is under way to the page, and what it shows, has been captured.
FromCaptured ==
  /\ unsent \cup Range(wire) \subseteq minted
  /\ \A l \in Load : Range(answer[l]) \subseteq minted
  /\ Range(packets) \subseteq minted

LEMMA InitFromCaptured == Init => FromCaptured
BY NothingListed DEF Init, FromCaptured

LEMMA StepFromCaptured == TypeOK /\ NoneTwice /\ FromCaptured /\ [Next]_vars => FromCaptured'
<1>. SUFFICES ASSUME TypeOK, NoneTwice, FromCaptured, [Next]_vars PROVE FromCaptured'
  OBVIOUS
<1>. USE DEF TypeOK, FromCaptured
<1>1. ASSUME NEW p \in Packet, Capture(p) PROVE FromCaptured'
  BY <1>1 DEF Capture, listVars, loadVars
<1>2. ASSUME NEW p \in Packet, Emit(p) PROVE FromCaptured'
  <2>1. Range(Append(wire, p)) = Range(wire) \cup {p}
    BY Appended
  <2>. QED
    BY <1>2, <2>1 DEF Emit, listVars, loadVars
<1>3. ASSUME ServerClears PROVE FromCaptured'
  BY <1>3 DEF ServerClears, listVars, loadVars
<1>4. ASSUME Live PROVE FromCaptured'
  <2>. DEFINE ps == <<Head(wire)>>
  <2>1. Head(wire) \in Packet /\ Range(wire) = {Head(wire)} \cup Range(Tail(wire))
    BY <1>4, HeadAndTail DEF Live
  <2>2. ps \in Seq(Packet) /\ IsInjective(ps) /\ Range(ps) = {Head(wire)}
    BY <2>1, Just
  <2>. HIDE DEF ps
  <2>3. packets' = packets \o Only(ps, Packet \ Range(packets))
    BY <1>4 DEF Live, AddPackets, News, NoneTwice, ListedOnce, ps
  <2>4. Range(packets') = Range(packets) \cup Range(ps)
    BY <2>2, <2>3, NewsJoined DEF NoneTwice, ListedOnce
  <2>. QED
    BY <1>4, <2>1, <2>2, <2>4 DEF Live, loadVars
<1>5. ASSUME Clear PROVE FromCaptured'
  BY <1>5, NothingListed DEF Clear, serverVars, loadVars
<1>6. ASSUME NEW l \in Load, Answer(l) PROVE FromCaptured'
  <2>1. Range(Recent(stored, wanted[l], Limit)) \subseteq minted
    BY RecentFacts DEF NoneTwice
  <2>. QED
    BY <1>6, <2>1 DEF Answer, serverVars, listVars
<1>7. ASSUME NEW l \in Load, Reset(l) PROVE FromCaptured'
  BY <1>7, NothingListed DEF Reset, serverVars
<1>8. ASSUME NEW l \in Load, Fill(l) PROVE FromCaptured'
  <2>. DEFINE ps == answer[l]
  <2>1. ps \in Seq(Packet) /\ IsInjective(ps) /\ Range(ps) \subseteq minted
    BY DEF NoneTwice
  <2>2. packets' = packets \o Only(ps, Packet \ Range(packets))
    BY <1>8 DEF Fill, AddPackets, News, NoneTwice, ListedOnce
  <2>. HIDE DEF ps
  <2>3. Range(packets') = Range(packets) \cup Range(ps)
    BY <2>1, <2>2, NewsJoined DEF NoneTwice, ListedOnce
  <2>. QED
    BY <1>8, <2>1, <2>3, NothingListed DEF Fill, serverVars
<1>9. ASSUME NEW l \in Load, Fail(l) PROVE FromCaptured'
  BY <1>9 DEF Fail, serverVars, listVars
<1>10. ASSUME NEW l \in Load, NEW r \in Run \cup {All}, Ask(l, r) PROVE FromCaptured'
  BY <1>10 DEF Ask, serverVars, listVars
<1>12. ASSUME NEW l \in Load, FillStops(l) PROVE FromCaptured'
  <2>1. PICK ps \in Seq(Packet) :
          IsInjective(ps) /\ Range(ps) \subseteq Range(answer[l]) /\ AddPackets(ps)
    BY <1>12, StopsAdds
  <2>2. packets' = packets \o Only(ps, Packet \ Range(packets))
    BY <2>1 DEF AddPackets, News, NoneTwice, ListedOnce
  <2>3. Range(packets') = Range(packets) \cup Range(ps)
    BY <2>1, <2>2, NewsJoined DEF NoneTwice, ListedOnce
  <2>. QED
    BY <1>12, <2>1, <2>3, NothingListed DEF FillStops, serverVars
<1>11. CASE UNCHANGED vars
  BY <1>11 DEF vars, serverVars, listVars, loadVars
<1>. QED
  BY <1>1, <1>2, <1>3, <1>4, <1>5, <1>6, <1>7, <1>8, <1>9, <1>10, <1>11, <1>12 DEF Next, Answers

\* What packets are added behind stays as it is.
LEMMA Prefixed ==
  ASSUME NEW T, NEW s \in Seq(T), NEW t \in Seq(T)
  PROVE  List!IsPrefix(s, s \o t)
<1>. DEFINE u == s \o t
            k == Len(s)
<1>1. /\ u \in Seq(T) /\ Len(u) = k + Len(t)
      /\ \A i \in 1 .. k + Len(t) : u[i] = IF i <= k THEN s[i] ELSE t[i - k]
  BY ConcatProperties
<1>2. k \in Nat /\ Len(t) \in Nat
  OBVIOUS
<1>. HIDE DEF u
<1>3. \A i \in 1 .. k : u[i] = s[i] /\ s[i] \in T
  BY <1>1, <1>2
<1>. HIDE DEF k
<1>4. /\ SubSeq(s, 1, k) = [i \in 1 .. k |-> s[i]] /\ SubSeq(u, 1, k) = [i \in 1 .. k |-> u[i]]
  BY <1>2 DEF SubSeq
<1>5. SubSeq(s, 1, k) = SubSeq(u, 1, k) /\ k <= Len(u)
  BY <1>1, <1>2, <1>3, <1>4
<1>. QED
  BY <1>5 DEF List!IsPrefix, k, u

\* Adding packets, by the stream or by a load, is a join of the abstract list.
LEMMA AddingJoins ==
  ASSUME TypeOK, NoneTwice, FromCaptured, NEW ps \in Seq(Packet), IsInjective(ps),
         Range(ps) \subseteq minted, AddPackets(ps), UNCHANGED minted
  PROVE  List!Join
<1>1. packets' = packets \o Only(ps, Packet \ Range(packets)) /\ packets \in Seq(Packet)
  BY DEF AddPackets, News, NoneTwice, ListedOnce, TypeOK
<1>2. Only(ps, Packet \ Range(packets)) \in Seq(Packet)
  BY OnlyFacts
<1>3. IsInjective(packets') /\ Range(packets') = Range(packets) \cup Range(ps)
  BY <1>1, NewsJoined DEF NoneTwice, ListedOnce
<1>4. List!IsPrefix(packets, packets')
  BY <1>1, <1>2, Prefixed
<1>. QED
  BY <1>3, <1>4 DEF List!Join, List!IsInjective, List!Range, IsInjective, Range, FromCaptured

LEMMA StepOfList ==
  TypeOK /\ NoneTwice /\ FromCaptured /\ [Next]_vars => [List!Next]_<<packets, minted>>
<1>. SUFFICES ASSUME TypeOK, NoneTwice, FromCaptured, [Next]_vars
              PROVE  List!Next \/ UNCHANGED <<packets, minted>>
  OBVIOUS
<1>1. ASSUME NEW p \in Packet, Capture(p) PROVE List!Capture
  BY <1>1 DEF Capture, listVars, List!Capture
<1>2. ASSUME NEW p \in Packet, Emit(p) PROVE UNCHANGED <<packets, minted>>
  BY <1>2 DEF Emit, listVars
<1>3. ASSUME ServerClears PROVE UNCHANGED <<packets, minted>>
  BY <1>3 DEF ServerClears, listVars
<1>4. ASSUME Live PROVE List!Join
  <2>. DEFINE ps == <<Head(wire)>>
  <2>1. Head(wire) \in Packet /\ Range(wire) = {Head(wire)} \cup Range(Tail(wire))
    BY <1>4, HeadAndTail DEF Live, TypeOK
  <2>2. ps \in Seq(Packet) /\ IsInjective(ps) /\ Range(ps) \subseteq minted
    BY <2>1, Just DEF FromCaptured
  <2>3. AddPackets(ps) /\ UNCHANGED minted
    BY <1>4 DEF Live
  <2>. HIDE DEF ps
  <2>. QED
    BY <2>2, <2>3, AddingJoins
<1>5. ASSUME Clear PROVE List!Empty
  BY <1>5 DEF Clear, serverVars, List!Empty
<1>6. ASSUME NEW l \in Load, Answer(l) PROVE UNCHANGED <<packets, minted>>
  BY <1>6 DEF Answer, serverVars, listVars
<1>7. ASSUME NEW l \in Load, Reset(l) PROVE List!Empty
  BY <1>7 DEF Reset, serverVars, List!Empty
<1>8. ASSUME NEW l \in Load, Fill(l) PROVE List!Join
  <2>. DEFINE ps == answer[l]
  <2>1. ps \in Seq(Packet) /\ IsInjective(ps) /\ Range(ps) \subseteq minted
    BY DEF NoneTwice, FromCaptured, TypeOK
  <2>2. AddPackets(ps) /\ UNCHANGED minted
    BY <1>8 DEF Fill, serverVars
  <2>. HIDE DEF ps
  <2>. QED
    BY <2>1, <2>2, AddingJoins
<1>9. ASSUME NEW l \in Load, Fail(l) PROVE UNCHANGED <<packets, minted>>
  BY <1>9 DEF Fail, serverVars, listVars
<1>10. ASSUME NEW l \in Load, NEW r \in Run \cup {All}, Ask(l, r)
       PROVE  UNCHANGED <<packets, minted>>
  BY <1>10 DEF Ask, serverVars, listVars
<1>12. ASSUME NEW l \in Load, FillStops(l) PROVE List!Join
  <2>1. PICK ps \in Seq(Packet) :
          IsInjective(ps) /\ Range(ps) \subseteq Range(answer[l]) /\ AddPackets(ps)
    BY <1>12, StopsAdds
  <2>2. Range(ps) \subseteq minted /\ UNCHANGED minted
    BY <1>12, <2>1 DEF FillStops, serverVars, FromCaptured
  <2>. QED
    BY <2>1, <2>2, AddingJoins
<1>11. CASE UNCHANGED vars
  BY <1>11 DEF vars, serverVars, listVars
<1>. QED
  BY <1>1, <1>2, <1>3, <1>4, <1>5, <1>6, <1>7, <1>8, <1>9, <1>10, <1>11, <1>12
  DEF Next, Answers, List!Next

\* The page keeps what its reader is promised, however live packets, loads
\* and clears interleave: one list that grows at its end by packets that were
\* captured and are not listed, or is emptied.
THEOREM TabShowsAPacketList == Spec => IsAPacketList
<1>1. Init => List!Init
  BY DEF Init, List!Init
<1>2. TypeOK /\ NoneTwice /\ FromCaptured /\ [Next]_vars
        => (TypeOK /\ NoneTwice /\ FromCaptured)'
  BY StepTypeOK, StepNoneTwice, StepFromCaptured
<1>3. Init => TypeOK /\ NoneTwice /\ FromCaptured
  BY InitTypeOK, InitNoneTwice, InitFromCaptured
<1>. QED
  BY <1>1, <1>2, <1>3, StepOfList, PTL DEF Spec, IsAPacketList, List!Spec

\* The state of the page, of its requests and of the stream has its type.
THEOREM TypeCorrect == Spec => []TypeOK
BY ListsKept, PTL

-----------------------------------------------------------------------------
(* Once all is quiet, the list is complete *)

\* What a load would bring now, and what the stream will bring.
Due == Range(Recent(stored, selected, Limit))
Coming == unsent \cup Range(wire)

\* At most one load is under way, and it asks for the selected run.
OneLoad == \A l \in UnderWay : wanted[l] = selected /\ \A m \in UnderWay : l = m

\* What is due is on its way or listed: by the page, or by the answer that the
\* page has not added yet.  Between Ask and Answer nothing is promised, as the
\* list is still that of the last run.
QuietHasAll == UnderWay = {} /\ ~clearing => Due \subseteq Coming \cup Range(packets)
AnsweredHasAll ==
  \A l \in Load : stage[l] = "answered" => Due \subseteq Coming \cup Range(answer[l])
BodyHasAll ==
  \A l \in Load : stage[l] = "body" =>
    Due \subseteq Coming \cup Range(packets) \cup Range(answer[l])

HasAll == OneLoad /\ QuietHasAll /\ AnsweredHasAll /\ BodyHasAll
Complete == mishaps = {} => HasAll

LEMMA InitComplete == Init => Complete
<1>. SUFFICES ASSUME Init PROVE HasAll
  BY DEF Complete
<1>1. UnderWay = {} /\ \A l \in Load : stage[l] = "new"
  BY DEF Init, UnderWay
<1>2. Due = {}
  BY RecentOfNothing DEF Due, Init
<1>. QED
  BY <1>1, <1>2 DEF HasAll, OneLoad, QuietHasAll, AnsweredHasAll, BodyHasAll

\* A step that leaves the lists of the page and its loads alone, and after
\* which nothing is due that was not due or is coming.
LEMMA ServerStep ==
  ASSUME HasAll, Due' \subseteq Due \cup Coming', Coming \subseteq Coming',
         UNCHANGED <<listVars, selected, loadVars, clearing>>
  PROVE  HasAll'
BY DEF HasAll, OneLoad, QuietHasAll, AnsweredHasAll, BodyHasAll, UnderWay, listVars, loadVars

LEMMA StepComplete == TypeOK /\ NoneTwice /\ Complete /\ [Next]_vars => Complete'
<1>. SUFFICES ASSUME TypeOK, NoneTwice, Complete, [Next]_vars, mishaps' = {} PROVE HasAll'
  BY DEF Complete
<1>0. mishaps = {}
  BY DEF Next, Answers, Capture, Emit, ServerClears, Live, Clear, Answer, Reset, Fill,
         FillStops, Fail, Ask, Note, vars
<1>h. HasAll
  BY <1>0 DEF Complete
<1>. USE DEF TypeOK
<1>1. ASSUME NEW p \in Packet, Capture(p) PROVE HasAll'
  <2>1. Due' \subseteq Due \cup {p}
    BY <1>1, RecentOfAppend DEF Capture, Due
  <2>. QED
    BY <1>1, <1>h, <2>1, ServerStep DEF Capture, Coming
<1>2. ASSUME NEW p \in Packet, Emit(p) PROVE HasAll'
  <2>1. Range(Append(wire, p)) = Range(wire) \cup {p}
    BY Appended
  <2>2. Coming' = Coming
    BY <1>2, <2>1 DEF Emit, Coming
  <2>3. Due' = Due
    BY <1>2 DEF Emit, Due
  <2>. QED
    BY <1>2, <1>h, <2>2, <2>3, ServerStep DEF Emit
<1>3. ASSUME ServerClears PROVE HasAll'
  <2>1. Due' = {}
    BY <1>3, RecentOfNothing DEF ServerClears, Due
  <2>. QED
    BY <1>3, <1>h, <2>1
       DEF ServerClears, HasAll, OneLoad, QuietHasAll, AnsweredHasAll, BodyHasAll, UnderWay,
           listVars, loadVars
<1>4. ASSUME Live PROVE HasAll'
  <2>. DEFINE h == Head(wire)
              ps == <<h>>
  <2>1. h \in Packet /\ Range(wire) = {h} \cup Range(Tail(wire))
    BY <1>4, HeadAndTail DEF Live
  <2>2. Due' = Due /\ Coming \subseteq Coming' \cup {h}
    BY <1>4, <2>1 DEF Live, Due, Coming
  <2>3. ps \in Seq(Packet) /\ IsInjective(ps) /\ Range(ps) = {h}
    BY <2>1, Just
  <2>. HIDE DEF ps
  <2>4. packets' = packets \o Only(ps, Packet \ Range(packets))
    BY <1>4 DEF Live, AddPackets, News, NoneTwice, ListedOnce, ps
  <2>5. Range(packets') = Range(packets) \cup {h}
    <3>1. packets \in Seq(Packet) /\ IsInjective(packets)
      BY DEF NoneTwice, ListedOnce
    <3>. QED
      BY <2>3, <2>4, <3>1, NewsJoined
  <2>6. ~ Overtakes(h)
    BY <1>4 DEF Live, Note
  <2>7. \A l \in Load : stage[l] = "answered" => h \in Range(answer[l])
    BY <2>6 DEF Overtakes
  <2>. HIDE DEF h
  <2>8. UNCHANGED <<selected, loadVars, clearing>>
    BY <1>4 DEF Live
  <2>9. OneLoad' /\ QuietHasAll'
    BY <1>h, <2>2, <2>5, <2>8 DEF HasAll, OneLoad, QuietHasAll, UnderWay, loadVars
  <2>10. AnsweredHasAll'
    BY <1>h, <2>2, <2>7, <2>8 DEF HasAll, AnsweredHasAll, loadVars
  <2>11. BodyHasAll'
    BY <1>h, <2>2, <2>5, <2>8 DEF HasAll, BodyHasAll, loadVars
  <2>. QED
    BY <2>9, <2>10, <2>11 DEF HasAll
<1>5. ASSUME Clear PROVE HasAll'
  <2>1. UnderWay = {}
    BY <1>5 DEF Clear, Note
  <2>2. UnderWay' = {} /\ clearing' /\ \A l \in Load : stage'[l] \notin {"answered", "body"}
    BY <1>5, <2>1 DEF Clear, UnderWay, loadVars
  <2>. QED
    BY <2>2 DEF HasAll, OneLoad, QuietHasAll, AnsweredHasAll, BodyHasAll
<1>6. ASSUME NEW l \in Load, Answer(l) PROVE HasAll'
  <2>1. UnderWay' = UnderWay /\ l \in UnderWay
    BY <1>6 DEF Answer, UnderWay
  <2>2. wanted[l] = selected /\ \A m \in UnderWay : m = l
    BY <1>h, <2>1 DEF HasAll, OneLoad
  <2>3. \A m \in Load : stage'[m] \in {"answered", "body"} => m = l
    BY <2>1, <2>2 DEF UnderWay
  <2>4. Range(answer'[l]) = Due' /\ stage'[l] = "answered"
    BY <1>6, <2>2 DEF Answer, Due, serverVars
  <2>5. OneLoad'
    BY <1>6, <1>h, <2>1 DEF Answer, HasAll, OneLoad
  <2>. QED
    BY <2>1, <2>3, <2>4, <2>5 DEF HasAll, QuietHasAll, AnsweredHasAll, BodyHasAll
<1>7. ASSUME NEW l \in Load, Reset(l) PROVE HasAll'
  <2>1. UnderWay' = UnderWay /\ l \in UnderWay
    BY <1>7 DEF Reset, UnderWay
  <2>2. \A m \in UnderWay : m = l
    BY <1>h, <2>1 DEF HasAll, OneLoad
  <2>3. \A m \in Load : stage'[m] \in {"answered", "body"} => m = l
    BY <2>1, <2>2 DEF UnderWay
  <2>4. Due' = Due /\ Coming' = Coming /\ answer' = answer /\ stage'[l] = "body"
    BY <1>7 DEF Reset, Due, Coming, serverVars
  <2>5. Due \subseteq Coming \cup Range(answer[l])
    BY <1>7, <1>h DEF Reset, HasAll, AnsweredHasAll
  <2>6. OneLoad'
    BY <1>7, <1>h, <2>1 DEF Reset, HasAll, OneLoad
  <2>. QED
    BY <2>1, <2>3, <2>4, <2>5, <2>6 DEF HasAll, QuietHasAll, AnsweredHasAll, BodyHasAll
<1>8. ASSUME NEW l \in Load, Fill(l) PROVE HasAll'
  <2>. DEFINE ps == answer[l]
  <2>1. l \in UnderWay /\ stage[l] = "body"
    BY <1>8 DEF Fill, UnderWay
  <2>2. \A m \in UnderWay : m = l
    BY <1>h, <2>1 DEF HasAll, OneLoad
  <2>3. UnderWay' = {}
    BY <1>8, <2>2 DEF Fill, UnderWay
  <2>4. \A m \in Load : stage'[m] \notin {"answered", "body"}
    BY <2>3 DEF UnderWay
  <2>5. Due \subseteq Coming \cup Range(packets) \cup Range(ps)
    BY <1>h, <2>1 DEF HasAll, BodyHasAll
  <2>6. ps \in Seq(Packet) /\ IsInjective(ps)
    BY DEF NoneTwice
  <2>7. packets' = packets \o Only(ps, Packet \ Range(packets))
    BY <1>8 DEF Fill, AddPackets, News, NoneTwice, ListedOnce
  <2>. HIDE DEF ps
  <2>8. Range(packets') = Range(packets) \cup Range(ps)
    BY <2>6, <2>7, NewsJoined DEF NoneTwice, ListedOnce
  <2>9. Due' = Due /\ Coming' = Coming
    BY <1>8 DEF Fill, Due, Coming, serverVars
  <2>. QED
    BY <2>3, <2>4, <2>5, <2>8, <2>9 DEF HasAll, OneLoad, QuietHasAll, AnsweredHasAll, BodyHasAll
<1>9. ASSUME NEW l \in Load, Fail(l) PROVE HasAll'
  BY <1>9 DEF Fail, Note
<1>10. ASSUME NEW l \in Load, NEW r \in Run \cup {All}, Ask(l, r) PROVE HasAll'
  <2>1. UnderWay = {}
    BY <1>10 DEF Ask, Note
  <2>2. UnderWay' = {l} /\ wanted'[l] = selected' /\ stage'[l] = "asked"
    BY <1>10, <2>1 DEF Ask, UnderWay
  <2>3. \A m \in Load : stage'[m] \notin {"answered", "body"}
    BY <2>2 DEF UnderWay
  <2>. QED
    BY <2>2, <2>3 DEF HasAll, OneLoad, QuietHasAll, AnsweredHasAll, BodyHasAll
<1>12. ASSUME NEW l \in Load, FillStops(l) PROVE HasAll'
  BY <1>12 DEF FillStops, Note
<1>11. CASE UNCHANGED vars
  <2>1. Due' = Due /\ Coming' = Coming
    BY <1>11 DEF vars, serverVars, Due, Coming
  <2>. QED
    BY <1>11, <1>h, <2>1, ServerStep DEF vars
<1>. QED
  BY <1>1, <1>2, <1>3, <1>4, <1>5, <1>6, <1>7, <1>8, <1>9, <1>10, <1>11, <1>12 DEF Next, Answers

\* Once all is quiet, the list shows the packets a load would bring for the
\* selected run, as long as no load failed, overlapped another one, was
\* overtaken by a live packet or a clear, or was cut short by a packet that
\* cannot be drawn: whether a packet came by the stream, by a load or by both,
\* before or after a clear, it is there.
THEOREM QuietListIsComplete == Spec => []SettledListIsComplete
<1>1. Complete => SettledListIsComplete
  <2>. SUFFICES ASSUME Complete, Settled, mishaps = {}
                PROVE  Range(Recent(stored, selected, Limit)) \subseteq Range(packets)
    BY DEF SettledListIsComplete
  <2>1. Due \subseteq Coming \cup Range(packets)
    BY DEF Complete, HasAll, QuietHasAll, Settled
  <2>2. Coming = {}
    BY NothingListed DEF Coming, Settled
  <2>. QED
    BY <2>1, <2>2 DEF Due
<1>2. (TypeOK /\ NoneTwice) /\ Complete /\ [Next]_vars => Complete'
  BY StepComplete
<1>. QED
  BY ListsKept, InitComplete, <1>1, <1>2, PTL DEF Spec

==============================================================================
