----------------------- MODULE PacketRepositoryProofs -----------------------
(***************************************************************************)
(* The packet store, for every ring size and every set of packets and      *)
(* files: ring and index describe the same packets, none twice and never   *)
(* more than the capacity; loading a file adds what is new in it; and the  *)
(* readers see the history that PacketHistory promises.                    *)
(*                                                                         *)
(* IInv adds to what is promised that a packet that is kept is a known     *)
(* one, so that a fresh packet is not in the ring.  LoadIsAppended,        *)
(* LoadSoFar, LastIsKept and LoadedIsKept say what importAll() has done    *)
(* when it has looked at the first entries of its file.                    *)
(***************************************************************************)
EXTENDS PacketRepository, SequenceTheorems, FiniteSetTheorems, TLAPS

\* The inductive invariant.
IInv ==
  /\ TypeOK
  /\ IndexMatchesRing
  /\ RingIsASetOfRecentPackets
  /\ index \subseteq known
  /\ importing => Range(file) \ {NoPacket} \subseteq known

-----------------------------------------------------------------------------
\* The capacity is a positive number, whatever is configured.
LEMMA CapacityType == Capacity \in Nat \ {0}
  BY RingAssumption, SMT DEF Capacity

\* What is left of a sequence without its first k elements.
LEMMA Suffix ==
  ASSUME NEW S, NEW s \in Seq(S), NEW k \in 0 .. Len(s)
  PROVE  LET t == SubSeq(s, k + 1, Len(s))
         IN  /\ t \in Seq(S) /\ Len(t) = Len(s) - k
             /\ \A i \in 1 .. Len(t) : t[i] = s[i + k]
<1> DEFINE t == SubSeq(s, k + 1, Len(s))
<1>0. Len(s) \in Nat /\ DOMAIN s = 1 .. Len(s)
  OBVIOUS
<1>1. /\ t \in Seq(S) /\ Len(t) = Len(s) - k
      /\ \A i \in 1 .. Len(t) : t[i] = s[i + k]
  <2>1. k + 1 \in Int /\ Len(s) \in Int
    BY <1>0, SMT
  <2>2. \A i \in (k + 1) .. Len(s) : s[i] \in S
    <3>1. \A i \in (k + 1) .. Len(s) : i \in 1 .. Len(s)
      BY <1>0, SMT
    <3> QED
      BY <3>1, ElementOfSeq, Zenon
  <2>3. /\ t \in Seq(S)
        /\ Len(t) = IF k + 1 <= Len(s) THEN Len(s) - (k + 1) + 1 ELSE 0
        /\ \A i \in 1 .. Len(s) - (k + 1) + 1 : t[i] = s[(k + 1) + i - 1]
    BY <2>1, <2>2, SubSeqProperties
  <2> HIDE DEF t
  <2>4. Len(t) = Len(s) - k
    BY <1>0, <2>3, SMT
  <2>5. ASSUME NEW i \in 1 .. Len(t) PROVE t[i] = s[i + k]
    <3>1. i \in 1 .. Len(s) - (k + 1) + 1
      BY <1>0, <2>4, SMT
    <3>2. (k + 1) + i - 1 = i + k
      BY <1>0, <2>4, SMT
    <3> QED
      BY <2>3, <3>1, <3>2, Zenon
  <2> QED
    BY <2>3, <2>4, <2>5
<1> QED
  BY <1>1 DEF t

\* Dropping at most one element from the front of an injective sequence
\* leaves an injective one over the other elements.
LEMMA DropFront ==
  ASSUME NEW S, NEW s \in Seq(S), IsInjective(s),
         NEW k \in 0 .. Len(s)
  PROVE  LET t == SubSeq(s, k + 1, Len(s))
             d == SubSeq(s, 1, k)
         IN  /\ t \in Seq(S)
             /\ Len(t) = Len(s) - k
             /\ IsInjective(t)
             /\ Range(t) = Range(s) \ Range(d)
<1> DEFINE t == SubSeq(s, k + 1, Len(s))
           d == SubSeq(s, 1, k)
<1>0. Len(s) \in Nat /\ DOMAIN s = 1 .. Len(s)
  OBVIOUS
<1>1. /\ t \in Seq(S) /\ Len(t) = Len(s) - k
      /\ \A i \in 1 .. Len(t) : t[i] = s[i + k]
  BY Suffix
<1>2. /\ d \in Seq(S) /\ Len(d) = k
      /\ \A i \in 1 .. Len(d) : d[i] = s[i]
  BY <1>0, SubSeqProperties, SMT
<1> HIDE DEF t, d
<1>3. DOMAIN t = 1 .. (Len(s) - k) /\ DOMAIN d = 1 .. k
  BY <1>1, <1>2, SMT
<1>4. \A i, j \in 1 .. Len(s) : s[i] = s[j] => i = j
  BY <1>0 DEF IsInjective
<1>5. IsInjective(t)
  <2> SUFFICES ASSUME NEW i \in 1 .. (Len(s) - k), NEW j \in 1 .. (Len(s) - k),
                      t[i] = t[j]
               PROVE  i = j
    BY <1>3, Zenon DEF IsInjective
  <2>1. i + k \in 1 .. Len(s) /\ j + k \in 1 .. Len(s) /\ s[i + k] = s[j + k]
    BY <1>0, <1>1, SMT
  <2> QED
    BY <1>0, <1>4, <2>1, SMT
<1>6. Range(t) \subseteq Range(s) \ Range(d)
  <2> SUFFICES ASSUME NEW i \in 1 .. (Len(s) - k)
               PROVE  t[i] \in Range(s) /\ t[i] \notin Range(d)
    BY <1>3 DEF Range
  <2>1. i + k \in 1 .. Len(s) /\ t[i] = s[i + k]
    BY <1>0, <1>1, SMT
  <2>2. \A j \in 1 .. k : d[j] # t[i]
    BY <1>0, <1>2, <1>4, <2>1, SMT
  <2> QED
    BY <1>0, <1>3, <2>1, <2>2 DEF Range
<1>7. Range(s) \ Range(d) \subseteq Range(t)
  <2> SUFFICES ASSUME NEW i \in 1 .. Len(s), s[i] \notin Range(d)
               PROVE  s[i] \in Range(t)
    BY <1>0 DEF Range
  <2>1. i > k
    <3>1. SUFFICES ASSUME i <= k PROVE FALSE
      BY <1>0, SMT
    <3>2. i \in DOMAIN d /\ d[i] = s[i]
      BY <1>0, <1>2, <1>3, <3>1, SMT
    <3> QED
      BY <3>2 DEF Range
  <2>2. i - k \in DOMAIN t /\ t[i - k] = s[i]
    BY <1>0, <1>1, <1>3, <2>1, SMT
  <2> QED
    BY <2>2 DEF Range
<1> QED
  BY <1>1, <1>5, <1>6, <1>7 DEF t, d

\* Appending a new element keeps a sequence injective.
LEMMA AppendFresh ==
  ASSUME NEW S, NEW s \in Seq(S), IsInjective(s),
         NEW p \in S, p \notin Range(s)
  PROVE  /\ Append(s, p) \in Seq(S)
         /\ Len(Append(s, p)) = Len(s) + 1
         /\ IsInjective(Append(s, p))
         /\ Range(Append(s, p)) = Range(s) \cup {p}
<1> DEFINE g == Append(s, p)
<1>1. Len(s) \in Nat /\ DOMAIN s = 1 .. Len(s)
  OBVIOUS
<1>2. /\ g \in Seq(S) /\ Len(g) = Len(s) + 1
      /\ DOMAIN g = 1 .. (Len(s) + 1)
      /\ \A i \in 1 .. Len(s) : g[i] = s[i]
      /\ g[Len(s) + 1] = p
  BY <1>1, SMT
<1> HIDE DEF g
<1>3. \A i \in 1 .. Len(s) : s[i] # p
  BY <1>1 DEF Range
<1>4. \A i, j \in 1 .. Len(s) : s[i] = s[j] => i = j
  BY <1>1 DEF IsInjective
<1>5. IsInjective(g)
  <2> SUFFICES ASSUME NEW i \in 1 .. (Len(s) + 1), NEW j \in 1 .. (Len(s) + 1),
                      g[i] = g[j]
               PROVE  i = j
    BY <1>2, Zenon DEF IsInjective
  <2> QED
    BY <1>1, <1>2, <1>3, <1>4, SMT
<1>6. Range(g) \subseteq Range(s) \cup {p}
  BY <1>1, <1>2, SMT DEF Range
<1>7. Range(s) \cup {p} \subseteq Range(g)
  BY <1>1, <1>2, SMT DEF Range
<1>8. Range(g) = Range(s) \cup {p}
  BY <1>6, <1>7
<1> QED
  BY <1>2, <1>5, <1>8 DEF g

\* Inserting a packet that is not in the ring keeps the two representations
\* equal and the ring within its capacity.
LEMMA InsertKeeps ==
  ASSUME ring \in Seq(Packet), index \subseteq Packet,
         IndexMatchesRing, RingIsASetOfRecentPackets,
         NEW p \in Packet, p \notin index, Insert(p)
  PROVE  /\ ring' \in Seq(Packet)
         /\ index' \subseteq index \cup {p}
         /\ IndexMatchesRing'
         /\ RingIsASetOfRecentPackets'
<1> DEFINE g == Append(ring, p)
           k == Overflow(g)
<1>1. /\ g \in Seq(Packet) /\ Len(g) = Len(ring) + 1
      /\ IsInjective(g) /\ Range(g) = index \cup {p}
  <2>1. IsInjective(ring) /\ p \notin Range(ring) /\ index = Range(ring)
    BY DEF IndexMatchesRing, RingIsASetOfRecentPackets
  <2> QED
    BY <2>1, AppendFresh
<1>2. /\ ring' = SubSeq(g, k + 1, Len(g))
      /\ index' = (index \cup {p}) \ Range(SubSeq(g, 1, k))
  BY DEF Insert
<1>3. Len(g) \in Nat /\ Capacity \in Nat \ {0}
  BY <1>1, CapacityType
<1>4. k \in 0 .. Len(g) /\ Len(g) - k <= Capacity
  <2> HIDE DEF g
  <2> QED BY <1>3, SMT DEF Overflow
<1> HIDE DEF g, k
<1>5. /\ ring' \in Seq(Packet) /\ Len(ring') = Len(g) - k
      /\ IsInjective(ring')
      /\ Range(ring') = Range(g) \ Range(SubSeq(g, 1, k))
  BY <1>1, <1>2, <1>4, DropFront
<1>6. index' = Range(ring')
  BY <1>1, <1>2, <1>5
<1>7. Len(ring') <= Capacity
  BY <1>4, <1>5
<1> QED
  BY <1>2, <1>5, <1>6, <1>7 DEF IndexMatchesRing, RingIsASetOfRecentPackets, Capacity

-----------------------------------------------------------------------------
LEMMA InitIInv == Init => IInv
<1> SUFFICES ASSUME Init PROVE IInv
  OBVIOUS
<1>1. TypeOK
  <2>1. <<>> \in Seq(Packet) /\ <<>> \in Seq(Packet \cup {NoPacket}) /\ Len(<<>>) = 0
    BY EmptySeq
  <2>2. 1 \in 1 .. (0 + 1) /\ 0 \in Nat
    BY SMT
  <2> QED
    BY <2>1, <2>2, Zenon DEF Init, TypeOK
<1>2. IndexMatchesRing
  BY DEF Init, IndexMatchesRing, Range
<1>3. RingIsASetOfRecentPackets
  BY CapacityType, SMT DEF Init, RingIsASetOfRecentPackets, IsInjective
<1> QED
  BY <1>1, <1>2, <1>3 DEF Init, IInv

LEMMA NextIInv == IInv /\ [Next]_vars => IInv'
<1> SUFFICES ASSUME IInv, [Next]_vars PROVE IInv'
  OBVIOUS
<1> USE DEF IInv
<1>1. ASSUME NEW p \in Packet, Add(p) PROVE IInv'
  <2>1. p \notin index /\ Insert(p)
    BY <1>1 DEF Add
  <2>2. /\ ring' \in Seq(Packet) /\ index' \subseteq index \cup {p}
        /\ IndexMatchesRing' /\ RingIsASetOfRecentPackets'
    BY <2>1, InsertKeeps DEF TypeOK
  <2>3. TypeOK'
    BY <1>1, <2>2, SMT DEF Add, TypeOK
  <2> QED
    BY <1>1, <2>2, <2>3 DEF Add
<1>2. ASSUME NEW f \in File, BeginImport(f) PROVE IInv'
  <2>1. f \in Seq(Packet \cup {NoPacket}) /\ Range(f) \subseteq Packet \cup {NoPacket}
    BY RangeOfSeq DEF File, BoundedSeq, SeqOf, Range
  <2>2. TypeOK'
    BY <1>2, <2>1, SMT DEF BeginImport, TypeOK
  <2>3. IndexMatchesRing' /\ RingIsASetOfRecentPackets'
    BY <1>2 DEF BeginImport, IndexMatchesRing, RingIsASetOfRecentPackets, Capacity
  <2> QED
    BY <1>2, <2>2, <2>3 DEF BeginImport
<1>3. CASE ImportNext
  <2>1. CASE Skipped(file[pos])
    <3>1. UNCHANGED <<ring, index, importing, file, known, before, again, added>>
      BY <1>3, <2>1 DEF ImportNext
    <3>2. TypeOK'
      BY <1>3, <3>1, SMT DEF ImportNext, TypeOK
    <3>3. IndexMatchesRing' /\ RingIsASetOfRecentPackets'
      BY <3>1 DEF IndexMatchesRing, RingIsASetOfRecentPackets, Capacity
    <3> QED
      BY <3>1, <3>2, <3>3
  <2>2. CASE ~Skipped(file[pos])
    <3> DEFINE p == file[pos]
    <3>1. pos \in DOMAIN file
      BY <1>3, SMT DEF ImportNext, TypeOK
    <3>2. p \in Packet /\ p \in Range(file) /\ p \notin index
      BY <2>2, <3>1, ElementOfSeq DEF Skipped, TypeOK, Range
    <3>3. Insert(p) /\ added' = added + 1
      BY <1>3, <2>2 DEF ImportNext
    <3>4. /\ ring' \in Seq(Packet) /\ index' \subseteq index \cup {p}
          /\ IndexMatchesRing' /\ RingIsASetOfRecentPackets'
      BY <3>2, <3>3, InsertKeeps DEF TypeOK
    <3>5. p \in known
      BY <1>3, <2>2, <3>2 DEF ImportNext, Skipped
    <3>6. TypeOK'
      BY <1>3, <3>2, <3>3, <3>4, SMT DEF ImportNext, TypeOK
    <3> QED
      BY <1>3, <3>4, <3>5, <3>6 DEF ImportNext
  <2> QED
    BY <2>1, <2>2
<1>4. CASE EndImport
  <2>1. TypeOK'
    <3>1. <<>> \in Seq(Packet) /\ 0 \in Nat
      BY EmptySeq
    <3> QED
      BY <1>4, <3>1, Zenon DEF EndImport, TypeOK
  <2>2. IndexMatchesRing' /\ RingIsASetOfRecentPackets'
    BY <1>4 DEF EndImport, IndexMatchesRing, RingIsASetOfRecentPackets, Capacity
  <2> QED
    BY <1>4, <2>1, <2>2 DEF EndImport
<1>5. CASE Clear
  <2>1. TypeOK'
    BY <1>5, EmptySeq, SMT DEF Clear, TypeOK
  <2>2. IndexMatchesRing'
    BY <1>5 DEF Clear, IndexMatchesRing, Range
  <2>3. RingIsASetOfRecentPackets'
    BY <1>5, CapacityType, SMT DEF Clear, RingIsASetOfRecentPackets, IsInjective
  <2> QED
    BY <1>5, <2>1, <2>2, <2>3 DEF Clear
<1>6. CASE UNCHANGED vars
  BY <1>6 DEF vars, TypeOK, IndexMatchesRing, RingIsASetOfRecentPackets, Capacity
<1> QED
  BY <1>1, <1>2, <1>3, <1>4, <1>5, <1>6 DEF Next

-----------------------------------------------------------------------------
\* The strengthened invariant holds of every behaviour of the store.
THEOREM StoreInvariant == Spec => []IInv
  BY InitIInv, NextIInv, PTL DEF Spec

\* Every variable of the store keeps its type.
THEOREM TypeCorrect == Spec => []TypeOK
<1>1. IInv => TypeOK
  BY DEF IInv
<1> QED
  BY <1>1, StoreInvariant, PTL

\* get(id) and the snapshots of the ring always agree.
THEOREM IndexAgrees == Spec => []IndexMatchesRing
<1>1. IInv => IndexMatchesRing
  BY DEF IInv
<1> QED
  BY <1>1, StoreInvariant, PTL

\* The ring never lists a packet twice nor exceeds its capacity, whatever
\* size is configured and whatever files are loaded.
THEOREM RingSound == Spec => []RingIsASetOfRecentPackets
<1>1. IInv => RingIsASetOfRecentPackets
  BY DEF IInv
<1> QED
  BY <1>1, StoreInvariant, PTL
-----------------------------------------------------------------------------
(* Readers see a packet history. *)

\* The newest packets of a sequence: all of it but what overflows.
LEMMA NewestFacts ==
  ASSUME NEW x \in Seq(Packet)
  PROVE  LET n == History!Newest(x)
         IN  /\ n \in Seq(Packet) /\ Len(n) = Len(x) - Overflow(x)
             /\ \A i \in 1 .. Len(n) : n[i] = x[i + Overflow(x)]
             /\ Overflow(x) \in 0 .. Len(x)
<1>. DEFINE k == Overflow(x)
<1>1. Len(x) \in Nat /\ Capacity \in Nat \ {0}
  BY CapacityType
<1>2. k \in 0 .. Len(x)
  BY <1>1 DEF Overflow
<1>3. History!Newest(x) = SubSeq(x, k + 1, Len(x))
  BY <1>1 DEF History!Newest, Overflow
<1>. HIDE DEF k
<1>4. QED
  BY <1>2, <1>3, Suffix DEF k

\* What fits is kept whole.
LEMMA NewestWhole ==
  ASSUME NEW x \in Seq(Packet), Len(x) <= Capacity
  PROVE  History!Newest(x) = x
<1>1. Overflow(x) = 0 /\ Len(x) \in Nat
  BY CapacityType DEF Overflow
<1>. DEFINE n == History!Newest(x)
<1>2. n \in Seq(Packet) /\ Len(n) = Len(x) /\ \A i \in 1 .. Len(n) : n[i] = x[i]
  BY <1>1, NewestFacts
<1>. HIDE DEF n
<1>3. n = x
  BY <1>1, <1>2, SeqEqual
<1>. QED
  BY <1>3 DEF n

\* Insertion appends and keeps the newest.
LEMMA InsertKeepsNewest ==
  ASSUME ring \in Seq(Packet), NEW p \in Packet, Insert(p)
  PROVE  ring' = History!Newest(Append(ring, p))
<1>. DEFINE g == Append(ring, p)
<1>1. g \in Seq(Packet) /\ Len(g) \in Nat /\ Capacity \in Nat \ {0}
  BY CapacityType
<1>2. ring' = SubSeq(g, Overflow(g) + 1, Len(g))
  BY DEF Insert
<1>. HIDE DEF g
<1>3. History!Newest(g) = SubSeq(g, Overflow(g) + 1, Len(g))
  BY <1>1 DEF History!Newest, Overflow
<1>. QED
  BY <1>2, <1>3 DEF g

\* Whether the packets are evicted one by one or at the end is the same.
LEMMA NewestAppend ==
  ASSUME NEW x \in Seq(Packet), NEW p \in Packet
  PROVE  History!Newest(Append(History!Newest(x), p)) = History!Newest(Append(x, p))
<1>. DEFINE n == History!Newest(x)
            a == Append(n, p)
            b == Append(x, p)
            u == History!Newest(a)
            v == History!Newest(b)
<1>1. /\ n \in Seq(Packet) /\ Len(n) = Len(x) - Overflow(x) /\ Len(x) \in Nat
      /\ \A i \in 1 .. Len(n) : n[i] = x[i + Overflow(x)]
      /\ Capacity \in Nat \ {0}
  BY NewestFacts, CapacityType
<1>. HIDE DEF n
<1>2. /\ a \in Seq(Packet) /\ Len(a) = Len(n) + 1 /\ a[Len(n) + 1] = p
      /\ \A i \in 1 .. Len(n) : a[i] = n[i]
      /\ b \in Seq(Packet) /\ Len(b) = Len(x) + 1 /\ b[Len(x) + 1] = p
      /\ \A i \in 1 .. Len(x) : b[i] = x[i]
  BY <1>1
<1>. HIDE DEF a, b
<1>3. /\ u \in Seq(Packet) /\ Len(u) = Len(a) - Overflow(a)
      /\ \A i \in 1 .. Len(u) : u[i] = a[i + Overflow(a)]
      /\ v \in Seq(Packet) /\ Len(v) = Len(b) - Overflow(b)
      /\ \A i \in 1 .. Len(v) : v[i] = b[i + Overflow(b)]
  BY <1>2, NewestFacts
<1>. HIDE DEF u, v
<1>4. /\ Overflow(a) \in Nat /\ Overflow(x) \in Nat
      /\ Overflow(b) = Overflow(x) + Overflow(a)
      /\ Overflow(x) <= Len(x) /\ Overflow(a) <= Len(a)
  <2>. DEFINE c == Capacity
  <2>1. c \in Nat /\ c >= 1 /\ Len(a) = Len(n) + 1 /\ Len(b) = Len(x) + 1 /\ Len(x) \in Nat
    BY <1>1, <1>2
  <2>2. /\ Overflow(x) = IF Len(x) > c THEN Len(x) - c ELSE 0
        /\ Overflow(a) = IF Len(n) + 1 > c THEN Len(n) + 1 - c ELSE 0
        /\ Overflow(b) = IF Len(x) + 1 > c THEN Len(x) + 1 - c ELSE 0
    BY <2>1 DEF Overflow
  <2>. HIDE DEF c
  <2>3. CASE Len(x) > c
    BY <1>1, <2>1, <2>2, <2>3
  <2>4. CASE ~(Len(x) > c)
    BY <1>1, <2>1, <2>2, <2>4
  <2>. QED
    BY <2>3, <2>4
<1>5. Len(u) = Len(v) /\ Len(u) \in Nat
  <2>1. Len(a) = Len(n) + 1 /\ Len(n) = Len(x) - Overflow(x) /\ Len(b) = Len(x) + 1
    BY <1>1, <1>2
  <2>2. Len(x) \in Nat /\ Len(u) \in Nat
    BY <1>1, <1>3
  <2>. QED
    BY <1>3, <1>4, <2>1, <2>2
<1>6. ASSUME NEW i \in 1 .. Len(u) PROVE u[i] = v[i]
  <2>1. u[i] = a[i + Overflow(a)] /\ v[i] = b[i + Overflow(x) + Overflow(a)]
    BY <1>3, <1>4, <1>5
  <2>2. CASE i + Overflow(a) <= Len(n)
    <3>1. i + Overflow(a) \in 1 .. Len(n) /\ i + Overflow(x) + Overflow(a) \in 1 .. Len(x)
      BY <1>1, <1>4, <2>2
    <3>2. u[i] = x[i + Overflow(a) + Overflow(x)]
      BY <1>1, <1>2, <2>1, <3>1
    <3>3. v[i] = x[i + Overflow(x) + Overflow(a)]
      BY <1>2, <2>1, <3>1
    <3>4. i + Overflow(a) + Overflow(x) = i + Overflow(x) + Overflow(a)
      BY <1>4
    <3>. QED
      BY <3>2, <3>3, <3>4
  <2>3. CASE ~(i + Overflow(a) <= Len(n))
    <3>1. i + Overflow(a) = Len(n) + 1 /\ i + Overflow(x) + Overflow(a) = Len(x) + 1
      <4>1. i \in Nat /\ i <= Len(n) + 1 - Overflow(a) /\ Len(n) \in Nat
        BY <1>1, <1>2, <1>3, <1>4, <1>5
      <4>. QED
        BY <1>1, <1>4, <2>3, <4>1
    <3>. QED
      BY <1>2, <2>1, <3>1
  <2>. QED
    BY <2>2, <2>3
<1>7. u = v
  BY <1>3, <1>5, <1>6, SeqEqual
<1>. QED
  BY <1>7 DEF u, v, a, b, n

\* One packet more is appended to what there was.
LEMMA NewestOfLoad ==
  ASSUME NEW b \in Seq(Packet), NEW s \in Seq(Packet), NEW p \in Packet
  PROVE  History!Newest(Append(History!Newest(b \o s), p)) = History!Newest(b \o Append(s, p))
<1>. DEFINE x == b \o s
            y == Append(s, p)
            l == Append(x, p)
            r == b \o y
<1>1. /\ Len(b) \in Nat /\ Len(s) \in Nat
      /\ x \in Seq(Packet) /\ Len(x) = Len(b) + Len(s)
      /\ \A i \in 1 .. (Len(b) + Len(s)) : x[i] = IF i <= Len(b) THEN b[i] ELSE s[i - Len(b)]
  BY ConcatProperties
<1>2. /\ y \in Seq(Packet) /\ Len(y) = Len(s) + 1 /\ y[Len(s) + 1] = p
      /\ \A i \in 1 .. Len(s) : y[i] = s[i]
  BY AppendProperties
<1>. HIDE DEF x, y
<1>3. /\ l \in Seq(Packet) /\ Len(l) = Len(x) + 1 /\ l[Len(x) + 1] = p
      /\ \A i \in 1 .. Len(x) : l[i] = x[i]
  <2>1. x \in Seq(Packet)
    BY <1>1
  <2>. QED
    BY <2>1, AppendProperties
<1>4. /\ r \in Seq(Packet) /\ Len(r) = Len(b) + Len(y)
      /\ \A i \in 1 .. (Len(b) + Len(y)) : r[i] = IF i <= Len(b) THEN b[i] ELSE y[i - Len(b)]
  BY <1>2, ConcatProperties
<1>. HIDE DEF l, r
<1>5. ASSUME NEW i \in 1 .. Len(l) PROVE l[i] = r[i]
  <2>1. /\ i \in 1 .. (Len(b) + Len(s) + 1) /\ i \in 1 .. (Len(b) + Len(y))
        /\ Len(x) = Len(b) + Len(s) /\ Len(y) = Len(s) + 1
    BY <1>1, <1>2, <1>3
  <2>2. CASE i <= Len(b)
    <3>1. i \in 1 .. Len(x) /\ i \in 1 .. (Len(b) + Len(s))
      BY <1>1, <2>1, <2>2
    <3>. QED
      BY <1>1, <1>3, <1>4, <2>1, <2>2, <3>1
  <2>3. CASE i > Len(b) /\ i <= Len(b) + Len(s)
    <3>1. i \in 1 .. Len(x) /\ i - Len(b) \in 1 .. Len(s) /\ i \in 1 .. (Len(b) + Len(s)) /\ ~(i <= Len(b))
      BY <1>1, <2>1, <2>3
    <3>2. l[i] = s[i - Len(b)]
      BY <1>1, <1>3, <3>1
    <3>3. r[i] = s[i - Len(b)]
      BY <1>2, <1>4, <2>1, <3>1
    <3>. QED
      BY <3>2, <3>3
  <2>4. CASE i = Len(b) + Len(s) + 1
    <3>1. i = Len(x) + 1 /\ i - Len(b) = Len(s) + 1 /\ ~(i <= Len(b))
      BY <1>1, <2>1, <2>4
    <3>. QED
      BY <1>2, <1>3, <1>4, <2>1, <3>1
  <2>. QED
    BY <1>1, <2>1, <2>2, <2>3, <2>4
<1>6. l = r
  BY <1>1, <1>2, <1>3, <1>4, <1>5, SeqEqual
<1>7. History!Newest(Append(History!Newest(x), p)) = History!Newest(l)
  BY <1>1, NewestAppend DEF l
<1>. QED
  BY <1>6, <1>7 DEF r, x, y

\* While a file is loaded, the ring has the newest of what there was and what
\* was added; no more is added than the file has.
LoadIsAppended ==
  /\ Len(file) <= MaxFile
  /\ importing =>
       /\ IsInjective(before) /\ Len(before) <= Capacity
       /\ \E s \in Seq(Packet) :
            Len(s) = added /\ added < pos /\ ring = History!Newest(before \o s)

LEMMA LoadIsAppendedStep == IInv /\ LoadIsAppended /\ [Next]_vars => LoadIsAppended'
<1>. SUFFICES ASSUME IInv, LoadIsAppended, [Next]_vars PROVE LoadIsAppended'
  OBVIOUS
<1>. USE DEF IInv, TypeOK, LoadIsAppended
<1>1. ASSUME NEW p \in Packet, Add(p) PROVE LoadIsAppended'
  BY <1>1, RingAssumption DEF Add
<1>2. ASSUME NEW f \in File, BeginImport(f) PROVE LoadIsAppended'
  <2>1. Len(f) <= MaxFile
    BY RingAssumption DEF File, BoundedSeq, SeqOf
  <2>2. /\ ring \in Seq(Packet) /\ IsInjective(ring) /\ Len(ring) <= Capacity
        /\ ring \o <<>> = ring /\ History!Newest(ring) = ring
    BY NewestWhole DEF RingIsASetOfRecentPackets
  <2>3. /\ ring' = ring /\ before' = ring /\ file' = f /\ added' = 0 /\ pos' = 1
    BY <1>2 DEF BeginImport
  <2>4. /\ <<>> \in Seq(Packet) /\ Len(<<>>) = added' /\ added' < pos'
        /\ ring' = History!Newest(before' \o <<>>)
    BY <2>2, <2>3
  <2>5. IsInjective(before') /\ Len(before') <= Capacity
    BY <2>2, <2>3
  <2>. QED
    BY <2>1, <2>3, <2>4, <2>5
<1>3. CASE ImportNext
  <2>. USE <1>3 DEF ImportNext
  <2>1. PICK s \in Seq(Packet) :
               Len(s) = added /\ added < pos /\ ring = History!Newest(before \o s)
    OBVIOUS
  <2>2. CASE Skipped(file[pos])
    BY <2>1, <2>2
  <2>3. CASE ~Skipped(file[pos])
    <3>. DEFINE p == file[pos]
                z == Append(s, p)
    <3>1. p \in Packet /\ Insert(p) /\ added' = added + 1 /\ before' = before
      <4>1. pos \in DOMAIN file
        OBVIOUS
      <4>. QED
        BY <2>3, <4>1, ElementOfSeq DEF Skipped
    <3>2. z \in Seq(Packet) /\ Len(z) = added' /\ added' < pos'
      BY <2>1, <3>1
    <3>3. ring' = History!Newest(Append(ring, p))
      BY <3>1, InsertKeepsNewest
    <3>. HIDE DEF p
    <3>4. ring' = History!Newest(before \o Append(s, p))
      BY <2>1, <3>1, <3>3, NewestOfLoad
    <3>5. ring' = History!Newest(before' \o z)
      BY <3>1, <3>4
    <3>. HIDE DEF z
    <3>. QED
      BY <3>1, <3>2, <3>5
  <2>. QED
    BY <2>2, <2>3
<1>4. CASE EndImport
  BY <1>4 DEF EndImport
<1>5. CASE Clear
  BY <1>5, RingAssumption DEF Clear
<1>6. CASE UNCHANGED vars
  BY <1>6 DEF vars
<1>. QED
  BY <1>1, <1>2, <1>3, <1>4, <1>5, <1>6 DEF Next

\* A packet that is published is new to the readers, and a load, however many
\* of its packets were evicted meanwhile, appends some and keeps the newest.
LEMMA HistoryStep ==
  IInv /\ LoadIsAppended /\ [Next]_vars =>
    [History!Next]_(IF importing THEN before ELSE ring)
<1>. DEFINE kept == IF importing THEN before ELSE ring
<1>. SUFFICES ASSUME IInv, LoadIsAppended, [Next]_vars PROVE History!Next \/ UNCHANGED kept
  OBVIOUS
<1>. USE DEF IInv, TypeOK, LoadIsAppended
<1>1. ASSUME NEW p \in Packet, Add(p) PROVE History!Arrive
  <2>1. p \notin Range(ring) /\ kept = ring /\ kept' = ring'
    BY <1>1 DEF Add, IndexMatchesRing
  <2>2. ring' = History!Newest(Append(ring, p))
    BY <1>1, InsertKeepsNewest DEF Add
  <2>. QED
    BY <2>1, <2>2 DEF History!Arrive, History!Range, Range
<1>2. ASSUME NEW f \in File, BeginImport(f) PROVE kept' = kept
  BY <1>2 DEF BeginImport
<1>3. CASE ImportNext
  BY <1>3 DEF ImportNext
<1>4. ASSUME EndImport PROVE History!Load
  <2>1. importing /\ pos = Len(file) + 1 /\ kept = before /\ kept' = ring' /\ ring' = ring
    BY <1>4 DEF EndImport
  <2>2. PICK s \in Seq(Packet) :
               Len(s) = added /\ added < pos /\ ring = History!Newest(before \o s)
    BY <2>1
  <2>3. s \in BoundedSeq(Packet, MaxFile)
    <3>1. Len(s) \in 0 .. MaxFile
      BY <2>1, <2>2, RingAssumption
    <3>2. s \in [1 .. Len(s) -> Packet]
      OBVIOUS
    <3>. QED
      BY <3>1, <3>2 DEF BoundedSeq, SeqOf
  <2>4. IsInjective(kept') /\ kept' = History!Newest(kept \o s)
    BY <2>1, <2>2 DEF RingIsASetOfRecentPackets
  <2>. QED
    BY <2>3, <2>4
    DEF History!Load, History!BoundedSeq, History!SeqOf, BoundedSeq, SeqOf,
        History!IsInjective, IsInjective
<1>5. ASSUME Clear PROVE History!Forget
  BY <1>5 DEF Clear, History!Forget
<1>6. CASE UNCHANGED vars
  BY <1>6 DEF vars
<1>. QED
  BY <1>1, <1>2, <1>3, <1>4, <1>5, <1>6 DEF Next, History!Next

\* The store implements what its readers are promised: one history that grows
\* at its end, loses its oldest packets, holds none twice, and is forgotten as
\* a whole, in which each load counts as one step.
THEOREM StoreIsAPacketHistory == Spec => IsAPacketHistory
<1>1. Init => History!Init /\ LoadIsAppended
  BY RingAssumption DEF Init, History!Init, LoadIsAppended
<1>2. IInv /\ LoadIsAppended /\ [Next]_vars => (IInv /\ LoadIsAppended)'
  BY NextIInv, LoadIsAppendedStep
<1>3. Spec => [](IInv /\ LoadIsAppended)
  BY <1>1, <1>2, InitIInv, PTL DEF Spec
<1>. QED
  BY <1>1, <1>3, HistoryStep, PTL DEF Spec, IsAPacketHistory, History!Spec
-----------------------------------------------------------------------------
(* What a load adds. *)

\* What add() does to a ring that is not full and to one that is.
LEMMA InsertFacts ==
  ASSUME ring \in Seq(Packet), Len(ring) <= Capacity, NEW p \in Packet, Insert(p)
  PROVE  /\ Len(ring) < Capacity => ring' = Append(ring, p)
         /\ Len(ring) = Capacity => Len(ring') = Capacity
         /\ p \in Range(ring')
<1>. DEFINE g == Append(ring, p)
            k == Overflow(g)
<1>1. /\ g \in Seq(Packet) /\ Len(g) = Len(ring) + 1 /\ g[Len(ring) + 1] = p
      /\ Len(ring) \in Nat /\ Capacity \in Nat \ {0}
  BY CapacityType
<1>2. ring' = History!Newest(g)
  BY InsertKeepsNewest
<1>. HIDE DEF g
<1>3. /\ ring' \in Seq(Packet) /\ Len(ring') = Len(g) - k
      /\ \A i \in 1 .. Len(ring') : ring'[i] = g[i + k]
  BY <1>1, <1>2, NewestFacts
<1>4. Len(ring) < Capacity => ring' = g
  BY <1>1, <1>2, NewestWhole
<1>5. k = IF Len(ring) + 1 > Capacity THEN Len(ring) + 1 - Capacity ELSE 0
  BY <1>1 DEF Overflow
<1>. HIDE DEF k
<1>6. Len(ring) = Capacity => Len(ring') = Capacity
  BY <1>1, <1>3, <1>5
<1>7. p \in Range(ring')
  <2>1. Len(ring') \in 1 .. Len(ring') /\ Len(ring') + k = Len(ring) + 1
    BY <1>1, <1>3, <1>5
  <2>2. ring'[Len(ring')] = p
    BY <1>1, <1>3, <2>1
  <2>3. Len(ring') \in DOMAIN ring'
    BY <1>3, <2>1
  <2>. QED
    BY <2>2, <2>3 DEF Range
<1>. QED
  BY <1>4, <1>6, <1>7 DEF g

\* While the packets that are new so far fit, the load has appended exactly
\* them; from the first that does not fit on, the ring is full.
LoadSoFar ==
  importing =>
    LET news == News(pos - 1)
    IN  /\ IsFiniteSet(news)
        /\ IF Len(before) + Cardinality(news) <= Capacity
             THEN \E s \in Seq(Packet) :
                    /\ ring = before \o s /\ Range(s) = news
                    /\ Len(s) = Cardinality(news) /\ added = Cardinality(news)
                    /\ \A k, m \in 1 .. Len(s) : k < m => Precedes(s[k], s[m])
             ELSE Len(ring) = Capacity

\* The packet looked at last is in the ring.
LastIsKept ==
  importing /\ pos > 1 /\ file[pos - 1] # NoPacket => file[pos - 1] \in index

\* One more entry of the file is one more new packet, unless it is null, was
\* there before, or is a repetition.
LEMMA NewsOfNext ==
  ASSUME IInv, ImportNext
  PROVE  /\ News(pos - 1)' = News(pos)
         /\ News(pos) = News(pos - 1) \cup ({file[pos]} \ ({NoPacket} \cup Range(before)))
         /\ \A x \in News(pos - 1) : \E i \in 1 .. (pos - 1) : file[i] = x
         /\ \A i \in 1 .. (pos - 1) : file[i] \in News(pos - 1) \cup {NoPacket} \cup Range(before)
         /\ pos \in 1 .. Len(file) /\ file[pos] \in Packet \cup {NoPacket}
<1>1. /\ pos' - 1 = pos /\ file' = file /\ before' = before /\ pos \in 1 .. Len(file)
      /\ file \in Seq(Packet \cup {NoPacket})
  BY DEF ImportNext, IInv, TypeOK
<1>2. News(pos - 1)' = News(pos)
  BY <1>1 DEF News
<1>3. 1 .. pos = (1 .. (pos - 1)) \cup {pos}
  BY <1>1
<1>4. News(pos) = News(pos - 1) \cup ({file[pos]} \ ({NoPacket} \cup Range(before)))
  BY <1>3 DEF News
<1>5. /\ \A x \in News(pos - 1) : \E i \in 1 .. (pos - 1) : file[i] = x
      /\ \A i \in 1 .. (pos - 1) : file[i] \in News(pos - 1) \cup {NoPacket} \cup Range(before)
  BY DEF News
<1>6. file[pos] \in Packet \cup {NoPacket}
  BY <1>1
<1>. QED
  BY <1>1, <1>2, <1>4, <1>5, <1>6

LEMMA LastIsKeptStep == IInv /\ LastIsKept /\ [Next]_vars => LastIsKept'
<1>. SUFFICES ASSUME IInv, LastIsKept, [Next]_vars PROVE LastIsKept'
  OBVIOUS
<1>. USE DEF LastIsKept
<1>1. ASSUME ImportNext PROVE LastIsKept'
  <2>1. pos' - 1 = pos /\ file' = file /\ file[pos] \in Packet \cup {NoPacket}
    BY <1>1, NewsOfNext DEF ImportNext, IInv, TypeOK
  <2>2. file[pos] # NoPacket => file[pos] \in index'
    <3>1. CASE Skipped(file[pos])
      BY <1>1, <3>1 DEF ImportNext, Skipped
    <3>2. CASE ~Skipped(file[pos])
      <4>1. Insert(file[pos]) /\ file[pos] \in Packet /\ file[pos] \notin index
        BY <1>1, <2>1, <3>2 DEF ImportNext, Skipped
      <4>2. file[pos] \in Range(ring')
        BY <4>1, InsertFacts DEF IInv, TypeOK, RingIsASetOfRecentPackets
      <4>3. index' = Range(ring')
        BY <4>1, InsertKeeps DEF IInv, TypeOK, IndexMatchesRing
      <4>. QED
        BY <4>2, <4>3
    <3>. QED
      BY <3>1, <3>2
  <2>. QED
    BY <2>1, <2>2
<1>2. ASSUME NEW f \in File, BeginImport(f) PROVE LastIsKept'
  BY <1>2 DEF BeginImport
<1>3. ASSUME NEW p \in Packet, Add(p) PROVE LastIsKept'
  BY <1>3 DEF Add
<1>4. CASE EndImport \/ Clear
  BY <1>4 DEF EndImport, Clear
<1>5. CASE UNCHANGED vars
  BY <1>5 DEF vars
<1>. QED
  BY <1>1, <1>2, <1>3, <1>4, <1>5 DEF Next

\* What a load has appended, with one packet more.
LEMMA AppendLoaded ==
  ASSUME before \in Seq(Packet), NEW s \in Seq(Packet), NEW p \in Packet,
         ring = before \o s, ring' = Append(ring, p)
  PROVE  \E z \in Seq(Packet) :
           /\ ring' = before \o z /\ Len(z) = Len(s) + 1
           /\ Range(z) = Range(s) \cup {p} /\ z[Len(s) + 1] = p
           /\ \A i \in 1 .. Len(s) : z[i] = s[i]
<1>. DEFINE b == before
            x == ring
            r == ring'
            z == Append(s, p)
            y == b \o z
<1>1. /\ Len(b) \in Nat /\ Len(s) \in Nat
      /\ x \in Seq(Packet) /\ Len(x) = Len(b) + Len(s)
      /\ \A i \in 1 .. (Len(b) + Len(s)) : x[i] = IF i <= Len(b) THEN b[i] ELSE s[i - Len(b)]
  BY ConcatProperties DEF b, x
<1>2. /\ z \in Seq(Packet) /\ Len(z) = Len(s) + 1 /\ z[Len(s) + 1] = p
      /\ \A i \in 1 .. Len(s) : z[i] = s[i]
  BY AppendProperties DEF z
<1>3. /\ r \in Seq(Packet) /\ Len(r) = Len(x) + 1 /\ r[Len(x) + 1] = p
      /\ \A i \in 1 .. Len(x) : r[i] = x[i]
  BY <1>1, AppendProperties DEF r, x
<1>4. /\ y \in Seq(Packet) /\ Len(y) = Len(b) + Len(z)
      /\ \A i \in 1 .. (Len(b) + Len(z)) : y[i] = IF i <= Len(b) THEN b[i] ELSE z[i - Len(b)]
  <2>1. b \in Seq(Packet) /\ z \in Seq(Packet)
    BY <1>2 DEF b
  <2>2. /\ b \o z \in Seq(Packet) /\ Len(b \o z) = Len(b) + Len(z)
        /\ \A i \in 1 .. (Len(b) + Len(z)) :
             (b \o z)[i] = IF i <= Len(b) THEN b[i] ELSE z[i - Len(b)]
    BY <2>1, ConcatProperties
  <2>. QED
    BY <2>2 DEF y
<1>. HIDE DEF b, x, r, z, y
<1>5. ASSUME NEW i \in 1 .. Len(r) PROVE r[i] = y[i]
  <2>1. /\ i \in 1 .. (Len(b) + Len(s) + 1) /\ i \in 1 .. (Len(b) + Len(z))
        /\ Len(x) = Len(b) + Len(s) /\ Len(z) = Len(s) + 1
    BY <1>1, <1>2, <1>3
  <2>2. CASE i <= Len(b)
    <3>1. i \in 1 .. Len(x) /\ i \in 1 .. (Len(b) + Len(s))
      BY <1>1, <2>1, <2>2
    <3>. QED
      BY <1>1, <1>3, <1>4, <2>1, <2>2, <3>1
  <2>3. CASE i > Len(b) /\ i <= Len(b) + Len(s)
    <3>1. /\ i \in 1 .. Len(x) /\ i - Len(b) \in 1 .. Len(s)
          /\ i \in 1 .. (Len(b) + Len(s)) /\ ~(i <= Len(b))
      BY <1>1, <2>1, <2>3
    <3>2. r[i] = s[i - Len(b)]
      BY <1>1, <1>3, <3>1
    <3>3. y[i] = s[i - Len(b)]
      BY <1>2, <1>4, <2>1, <3>1
    <3>. QED
      BY <3>2, <3>3
  <2>4. CASE i = Len(b) + Len(s) + 1
    <3>1. i = Len(x) + 1 /\ i - Len(b) = Len(s) + 1 /\ ~(i <= Len(b))
      BY <1>1, <2>1, <2>4
    <3>. QED
      BY <1>2, <1>3, <1>4, <2>1, <3>1
  <2>. QED
    <3>1. i <= Len(b) \/ (i > Len(b) /\ i <= Len(b) + Len(s)) \/ i = Len(b) + Len(s) + 1
      BY <1>1, <2>1
    <3>. QED
      BY <2>2, <2>3, <2>4, <3>1
<1>6. r = y
  <2>1. r \in Seq(Packet) /\ y \in Seq(Packet) /\ Len(r) = Len(y)
    BY <1>1, <1>2, <1>3, <1>4
  <2>2. \A i \in 1 .. Len(r) : r[i] = y[i]
    BY <1>5
  <2>. QED
    BY <2>1, <2>2, SeqEqual
<1>7. DOMAIN z = 1 .. (Len(s) + 1) /\ DOMAIN s = 1 .. Len(s)
  BY <1>2
<1>8. Range(z) = Range(s) \cup {p}
  <2>1. /\ \A i \in 1 .. Len(s) : s[i] = z[i] /\ i \in 1 .. (Len(s) + 1)
        /\ \A i \in 1 .. (Len(s) + 1) : i \in 1 .. Len(s) \/ i = Len(s) + 1
        /\ Len(s) + 1 \in 1 .. (Len(s) + 1)
    BY <1>1, <1>2
  <2>2. /\ Range(z) = {z[i] : i \in 1 .. (Len(s) + 1)}
        /\ Range(s) = {s[i] : i \in 1 .. Len(s)}
    BY <1>7 DEF Range
  <2>. QED
    BY <1>2, <2>1, <2>2
<1>. QED
  BY <1>2, <1>6, <1>8 DEF y, r, b

\* What is there is what there was and what the load has appended.
LEMMA LoadedFacts ==
  ASSUME before \in Seq(Packet), NEW s \in Seq(Packet), ring = before \o s
  PROVE  Len(ring) = Len(before) + Len(s) /\ Range(ring) = Range(before) \cup Range(s)
<1>1. /\ Len(before) \in Nat /\ Len(s) \in Nat
      /\ ring \in Seq(Packet) /\ Len(ring) = Len(before) + Len(s)
      /\ \A i \in 1 .. (Len(before) + Len(s)) :
           ring[i] = IF i <= Len(before) THEN before[i] ELSE s[i - Len(before)]
  BY ConcatProperties
<1>2. /\ DOMAIN ring = 1 .. (Len(before) + Len(s))
      /\ DOMAIN before = 1 .. Len(before) /\ DOMAIN s = 1 .. Len(s)
  BY <1>1
<1>3. \A v \in Range(ring) : v \in Range(before) \cup Range(s)
  BY <1>1, <1>2 DEF Range
<1>4. \A v \in Range(before) : v \in Range(ring)
  BY <1>1, <1>2 DEF Range
<1>5. ASSUME NEW i \in 1 .. Len(s) PROVE s[i] \in Range(ring)
  <2>1. Len(before) + i \in DOMAIN ring /\ ring[Len(before) + i] = s[i]
    BY <1>1, <1>2
  <2>. QED
    BY <2>1 DEF Range
<1>6. \A v \in Range(s) : v \in Range(ring)
  BY <1>2, <1>5 DEF Range
<1>. QED
  BY <1>1, <1>3, <1>4, <1>6

\* While it fits, what was added before is known exactly, so the lookup tells
\* the new packets from the others; a full ring stays full.
LEMMA LoadSoFarNext ==
  ASSUME IInv, LoadIsAppended, LoadSoFar, ImportNext
  PROVE  LoadSoFar'
<1>. DEFINE p == file[pos]
            old == News(pos - 1)
            new == News(pos)
<1>1. /\ importing /\ importing' = importing /\ before' = before /\ file' = file
      /\ before \in Seq(Packet) /\ ring \in Seq(Packet) /\ Len(ring) <= Capacity
      /\ Capacity \in Nat /\ Len(before) \in Nat /\ Len(ring) \in Nat /\ index = Range(ring)
      /\ Capacity' = Capacity /\ file \in Seq(Packet \cup {NoPacket})
  BY CapacityType
  DEF ImportNext, IInv, TypeOK, RingIsASetOfRecentPackets, IndexMatchesRing, Capacity
<1>2. /\ News(pos - 1)' = new
      /\ new = old \cup ({p} \ ({NoPacket} \cup Range(before)))
      /\ \A x \in old : \E i \in 1 .. (pos - 1) : file[i] = x
      /\ \A i \in 1 .. (pos - 1) : file[i] \in old \cup {NoPacket} \cup Range(before)
      /\ pos \in 1 .. Len(file) /\ p \in Packet \cup {NoPacket}
  BY NewsOfNext
<1>3. /\ IsFiniteSet(old)
      /\ Len(before) + Cardinality(old) <= Capacity =>
           \E s \in Seq(Packet) :
                    /\ ring = before \o s /\ Range(s) = old
                    /\ Len(s) = Cardinality(old) /\ added = Cardinality(old)
                    /\ \A k, m \in 1 .. Len(s) : k < m => Precedes(s[k], s[m])
      /\ ~(Len(before) + Cardinality(old) <= Capacity) => Len(ring) = Capacity
  BY <1>1 DEF LoadSoFar
<1>4. \/ Skipped(p) /\ ring' = ring /\ added' = added
      \/ ~Skipped(p) /\ Insert(p) /\ added' = added + 1
  BY DEF ImportNext
<1>. HIDE DEF p, old, new
<1>5. /\ IsFiniteSet(new) /\ Cardinality(old) \in Nat /\ Cardinality(new) \in Nat
      /\ new = old \/ (p \notin old /\ new = old \cup {p} /\ Cardinality(new) = Cardinality(old) + 1)
  <2>1. new = old \/ (p \notin old /\ new = old \cup {p})
    BY <1>2
  <2>. QED
    BY <1>3, <2>1, FS_AddElement, FS_CardinalityType
<1>6. ASSUME ~(Len(before) + Cardinality(new) <= Capacity) PROVE Len(ring') = Capacity
  <2>1. CASE ~(Len(before) + Cardinality(old) <= Capacity)
    BY <1>1, <1>2, <1>3, <1>4, <2>1, InsertFacts DEF Skipped
  <2>2. CASE Len(before) + Cardinality(old) <= Capacity
    <3>1. PICK s \in Seq(Packet) : ring = before \o s /\ Len(s) = Cardinality(old) /\ Range(s) = old
      BY <1>3, <2>2
    <3>2. Len(ring) = Len(before) + Cardinality(old) /\ Range(ring) = Range(before) \cup old
      BY <1>1, <3>1, LoadedFacts
    <3>3. new # old /\ Len(before) + Cardinality(old) + 1 > Capacity
      BY <1>1, <1>5, <1>6, <2>2
    <3>4. ~Skipped(p)
      BY <1>1, <1>2, <3>2, <3>3 DEF Skipped
    <3>5. Len(ring) = Capacity /\ p \in Packet
      BY <1>1, <1>2, <1>5, <2>2, <3>2, <3>3, <3>4 DEF Skipped
    <3>. QED
      BY <1>1, <1>4, <3>4, <3>5, InsertFacts
  <2>. QED
    BY <2>1, <2>2
<1>7. ASSUME Len(before) + Cardinality(new) <= Capacity
      PROVE  \E s \in Seq(Packet) :
                    /\ ring' = before \o s /\ Range(s) = new
                    /\ Len(s) = Cardinality(new) /\ added' = Cardinality(new)
                    /\ \A k, m \in 1 .. Len(s) : k < m => Precedes(s[k], s[m])
  <2>1. Len(before) + Cardinality(old) <= Capacity
    BY <1>1, <1>5, <1>7
  <2>2. PICK s \in Seq(Packet) :
                    /\ ring = before \o s /\ Range(s) = old
                    /\ Len(s) = Cardinality(old) /\ added = Cardinality(old)
                    /\ \A k, m \in 1 .. Len(s) : k < m => Precedes(s[k], s[m])
    BY <1>3, <2>1
  <2>3. Len(ring) = Len(before) + Cardinality(old) /\ Range(ring) = Range(before) \cup old
    BY <1>1, <2>2, LoadedFacts
  <2>4. CASE Skipped(p)
    <3>1. new = old
      BY <1>1, <1>2, <2>3, <2>4 DEF Skipped
    <3>. QED
      BY <1>4, <2>2, <2>4, <3>1
  <2>5. CASE ~Skipped(p)
    <3>1. p \in Packet /\ p \notin old /\ new # old /\ Cardinality(new) = Cardinality(old) + 1
      BY <1>1, <1>2, <1>5, <2>3, <2>5 DEF Skipped
    <3>2. ring' = Append(ring, p) /\ added' = added + 1
      BY <1>1, <1>4, <1>5, <1>7, <2>3, <2>5, <3>1, InsertFacts
    <3>3. PICK z \in Seq(Packet) :
             /\ ring' = before \o z /\ Len(z) = Len(s) + 1
             /\ Range(z) = Range(s) \cup {p} /\ z[Len(s) + 1] = p
             /\ \A i \in 1 .. Len(s) : z[i] = s[i]
      BY <1>1, <2>2, <3>1, <3>2, AppendLoaded
    <3>4. ASSUME NEW k \in 1 .. Len(z), NEW m \in 1 .. Len(z), k < m
          PROVE  Precedes(z[k], z[m])
      <4>1. Len(s) \in Nat /\ k \in 1 .. Len(s) /\ z[k] = s[k] /\ s[k] \in old
        <5>1. Len(s) \in Nat /\ DOMAIN s = 1 .. Len(s)
          OBVIOUS
        <5>2. k \in 1 .. Len(s)
          BY <3>3, <3>4, <5>1
        <5>. QED
          BY <2>2, <3>3, <5>1, <5>2 DEF Range
      <4>2. CASE m \in 1 .. Len(s)
        BY <2>2, <3>3, <3>4, <4>1, <4>2
      <4>3. CASE m = Len(s) + 1
        <5>1. z[m] = p
          BY <3>3, <4>3
        <5>2. PICK i \in 1 .. (pos - 1) : file[i] = z[k]
          BY <1>2, <4>1
        <5>3. \A j \in 1 .. i : file[j] # p
          <6>1. p \notin old \cup {NoPacket} \cup Range(before)
            BY <1>1, <2>3, <2>5, <3>1 DEF Skipped
          <6>2. \A j \in 1 .. i : j \in 1 .. (pos - 1)
            BY <1>2
          <6>. QED
            BY <1>2, <6>1, <6>2
        <5>4. i \in DOMAIN file
          BY <1>1, <1>2
        <5>. QED
          BY <5>1, <5>2, <5>3, <5>4 DEF Precedes
      <4>. QED
        BY <3>3, <4>1, <4>2, <4>3
    <3>5. Range(z) = new /\ Len(z) = Cardinality(new) /\ added' = Cardinality(new)
      BY <1>5, <2>2, <3>1, <3>2, <3>3
    <3>. QED
      BY <3>3, <3>4, <3>5
  <2>. QED
    BY <2>4, <2>5
<1>. QED
  <2>1. LoadSoFar' <=>
          /\ IsFiniteSet(News(pos - 1)')
          /\ IF Len(before) + Cardinality(News(pos - 1)') <= Capacity
               THEN \E s \in Seq(Packet) :
                      /\ ring' = before \o s /\ Range(s) = News(pos - 1)'
                      /\ Len(s) = Cardinality(News(pos - 1)') /\ added' = Cardinality(News(pos - 1)')
                      /\ \A k, m \in 1 .. Len(s) : k < m => Precedes(s[k], s[m])
               ELSE Len(ring') = Capacity
    BY <1>1 DEF LoadSoFar, Precedes
  <2>. QED
    BY <1>2, <1>5, <1>6, <1>7, <2>1

LEMMA LoadSoFarStep == IInv /\ LoadIsAppended /\ LoadSoFar /\ [Next]_vars => LoadSoFar'
<1>. SUFFICES ASSUME IInv, LoadIsAppended, LoadSoFar, [Next]_vars PROVE LoadSoFar'
  OBVIOUS
<1>1. ASSUME NEW p \in Packet, Add(p) PROVE LoadSoFar'
  BY <1>1 DEF Add, LoadSoFar
<1>2. ASSUME NEW f \in File, BeginImport(f) PROVE LoadSoFar'
  <2>1. /\ ring' = ring /\ before' = ring /\ pos' = 1 /\ added' = 0
        /\ ring \in Seq(Packet) /\ Len(ring) \in Nat /\ Len(ring) <= Capacity /\ Capacity' = Capacity
    BY <1>2 DEF BeginImport, IInv, TypeOK, RingIsASetOfRecentPackets, Capacity
  <2>2. News(pos - 1)' = {}
    BY <2>1 DEF News
  <2>. DEFINE none == <<>>
  <2>3. /\ none \in Seq(Packet) /\ ring = ring \o none /\ Range(none) = {} /\ Len(none) = 0
    BY <2>1 DEF Range
  <2>4. IsFiniteSet({}) /\ Cardinality({}) = 0
    BY FS_EmptySet
  <2>. HIDE DEF none
  <2>5. /\ ring' = before' \o none /\ Range(none) = {} /\ Len(none) = Cardinality({})
        /\ added' = Cardinality({})
    BY <2>1, <2>3, <2>4
  <2>6. \A k, m \in 1 .. Len(none) : k < m => Precedes(none[k], none[m])'
    BY <2>3
  <2>7. /\ IsFiniteSet(News(pos - 1)')
        /\ Len(before') + Cardinality(News(pos - 1)') <= Capacity'
    <3>1. IsFiniteSet(News(pos - 1)') /\ Cardinality(News(pos - 1)') = 0
      BY <2>2, <2>4
    <3>2. Len(before') \in Nat /\ Len(before') <= Capacity'
      BY <2>1
    <3>3. Capacity' \in Nat
      BY <2>1, CapacityType
    <3>. QED
      BY <3>1, <3>2, <3>3
  <2>. QED
    BY <2>2, <2>3, <2>5, <2>6, <2>7 DEF LoadSoFar
<1>3. CASE ImportNext
  BY <1>3, LoadSoFarNext
<1>4. CASE EndImport
  BY <1>4 DEF EndImport, LoadSoFar
<1>5. CASE Clear
  BY <1>5 DEF Clear, LoadSoFar
<1>6. CASE UNCHANGED vars
  BY <1>6, SMTT(30) DEF vars, LoadSoFar, News, Precedes, Capacity
<1>. QED
  BY <1>1, <1>2, <1>3, <1>4, <1>5, <1>6 DEF Next

\* At the end of the loop the whole file was looked at.
LEMMA LoadAddsNewsAtEnd ==
  IInv /\ LoadIsAppended /\ LoadSoFar /\ LastIsKept => LoadAddsNews
<1>. SUFFICES ASSUME IInv, LoadIsAppended, LoadSoFar, LastIsKept, importing, pos > Len(file)
              PROVE  LET news     == News(Len(file))
                         appended == SubSeq(ring, Len(before) + 1, Len(ring))
                     IN  IF Len(before) + Cardinality(news) <= Capacity
                           THEN /\ ring = before \o appended /\ Range(appended) = news
                                /\ Len(appended) = Cardinality(news) /\ added = Cardinality(news)
                                /\ \A k, m \in DOMAIN appended :
                                      k < m => Precedes(appended[k], appended[m])
                           ELSE /\ Len(ring) = Capacity
                                /\ file[Len(file)] # NoPacket => file[Len(file)] \in Range(ring)
  BY DEF LoadAddsNews
<1>. DEFINE news == News(Len(file))
            appended == SubSeq(ring, Len(before) + 1, Len(ring))
<1>1. /\ pos = Len(file) + 1 /\ pos - 1 = Len(file) /\ Len(file) \in Nat
      /\ ring \in Seq(Packet) /\ before \in Seq(Packet) /\ Len(before) \in Nat
      /\ Len(before) <= Capacity /\ index = Range(ring) /\ Capacity \in Nat
  BY CapacityType DEF IInv, TypeOK, LoadIsAppended, IndexMatchesRing
<1>. HIDE DEF news
<1>2. IF Len(before) + Cardinality(news) <= Capacity
        THEN \E s \in Seq(Packet) :
               /\ ring = before \o s /\ Range(s) = news
               /\ Len(s) = Cardinality(news) /\ added = Cardinality(news)
               /\ \A k, m \in 1 .. Len(s) : k < m => Precedes(s[k], s[m])
        ELSE Len(ring) = Capacity
  BY <1>1 DEF LoadSoFar, news
<1>3. ASSUME Len(before) + Cardinality(news) <= Capacity
      PROVE  /\ ring = before \o appended /\ Range(appended) = news
             /\ Len(appended) = Cardinality(news) /\ added = Cardinality(news)
             /\ \A k, m \in DOMAIN appended : k < m => Precedes(appended[k], appended[m])
  <2>1. PICK s \in Seq(Packet) :
               /\ ring = before \o s /\ Range(s) = news
               /\ Len(s) = Cardinality(news) /\ added = Cardinality(news)
               /\ \A k, m \in 1 .. Len(s) : k < m => Precedes(s[k], s[m])
    BY <1>2, <1>3
  <2>2. Len(ring) = Len(before) + Len(s) /\ Len(s) \in Nat
    <3>1. ring = before \o s
      BY <2>1
    <3>. HIDE DEF appended
    <3>. QED
      BY <1>1, <3>1, LoadedFacts
  <2>3. /\ appended \in Seq(Packet) /\ Len(appended) = Len(s)
        /\ \A i \in 1 .. Len(appended) : appended[i] = ring[i + Len(before)]
    <3>1. Len(before) \in 0 .. Len(ring)
      BY <1>1, <2>2
    <3>2. Len(ring) - Len(before) = Len(s)
      BY <1>1, <2>2
    <3>. QED
      BY <1>1, <3>1, <3>2, Suffix
  <2>. HIDE DEF appended
  <2>4. ASSUME NEW i \in 1 .. Len(appended) PROVE appended[i] = s[i]
    <3>1. /\ i + Len(before) \in 1 .. (Len(before) + Len(s)) /\ ~(i + Len(before) <= Len(before))
          /\ i + Len(before) - Len(before) = i
      BY <1>1, <2>2, <2>3
    <3>2. ring[i + Len(before)] = s[i]
      BY <1>1, <2>1, <3>1, ConcatProperties
    <3>. QED
      BY <2>3, <3>2
  <2>5. appended = s
    BY <2>3, <2>4, SeqEqual
  <2>. QED
    BY <2>1, <2>5
<1>4. ASSUME ~(Len(before) + Cardinality(news) <= Capacity)
      PROVE  /\ Len(ring) = Capacity
             /\ file[Len(file)] # NoPacket => file[Len(file)] \in Range(ring)
  <2>1. Len(file) # 0
    <3>1. Len(file) = 0 => news = {}
      BY DEF news, News
    <3>. QED
      <4>1. Cardinality({}) = 0
        BY FS_EmptySet
      <4>2. Len(file) = 0 => Cardinality(news) = 0
        BY <3>1, <4>1
      <4>. HIDE DEF appended
      <4>. QED
        BY <1>1, <1>4, <4>2
  <2>. QED
    BY <1>1, <1>2, <1>4, <2>1 DEF LastIsKept
<1>. QED
  BY <1>3, <1>4 DEF news

-----------------------------------------------------------------------------
(* A file that is loaded again. *)

\* While the ring is not full nothing was evicted, so what was loaded is still
\* there: looking it up again adds nothing.
LoadedIsKept ==
  /\ ~importing => pos > Len(file)
  /\ Len(ring) < Capacity =>
       \A i \in 1 .. (pos - 1) : file[i] # NoPacket => file[i] \in index
  /\ importing /\ again /\ Len(before) < Capacity =>
       ring = before /\ Range(file) \ {NoPacket} \subseteq index

LEMMA LoadedIsKeptStep == IInv /\ LoadedIsKept /\ [Next]_vars => LoadedIsKept'
<1>. SUFFICES ASSUME IInv, LoadedIsKept, [Next]_vars PROVE LoadedIsKept'
  OBVIOUS
<1>0. /\ file \in Seq(Packet \cup {NoPacket}) /\ pos \in 1 .. (Len(file) + 1)
      /\ ring \in Seq(Packet) /\ Len(ring) \in Nat /\ Len(ring) <= Capacity
      /\ Capacity \in Nat /\ Capacity' = Capacity /\ index = Range(ring)
  BY CapacityType DEF IInv, TypeOK, RingIsASetOfRecentPackets, IndexMatchesRing, Capacity
<1>1. ASSUME NEW p \in Packet, Add(p) PROVE LoadedIsKept'
  BY <1>1 DEF Add, LoadedIsKept
<1>2. ASSUME NEW f \in File, BeginImport(f) PROVE LoadedIsKept'
  <2>1. /\ ~importing /\ importing' /\ file' = f /\ pos' = 1 /\ before' = ring
        /\ ring' = ring /\ index' = index /\ again' = (f = file)
    BY <1>2 DEF BeginImport
  <2>2. ASSUME f = file, Len(ring) < Capacity PROVE Range(file) \ {NoPacket} \subseteq index
    <3>1. pos - 1 = Len(file) /\ DOMAIN file = 1 .. Len(file)
      BY <1>0, <2>1 DEF LoadedIsKept
    <3>. QED
      BY <2>2, <3>1 DEF LoadedIsKept, Range
  <2>3. \A i \in 1 .. (pos' - 1) : FALSE
    BY <2>1
  <2>4. again' => f = file
    BY <2>1, Zenon
  <2>. QED
    BY <1>0, <2>1, <2>2, <2>3, <2>4 DEF LoadedIsKept
<1>3. CASE ImportNext
  <2>. DEFINE p == file[pos]
  <2>1. /\ importing /\ importing' = importing /\ before' = before /\ file' = file
        /\ pos' = pos + 1 /\ again' = again /\ pos \in 1 .. Len(file)
    BY <1>0, <1>3 DEF ImportNext
  <2>2. p \in Packet \cup {NoPacket} /\ p \in Range(file)
    BY <1>0, <2>1 DEF Range
  <2>3. CASE Skipped(p)
    <3>1. ring' = ring /\ index' = index /\ (p = NoPacket \/ p \in index)
      BY <1>3, <2>3 DEF ImportNext, Skipped
    <3>. HIDE DEF p
    <3>2. \A i \in 1 .. (pos' - 1) : i \in 1 .. (pos - 1) \/ i = pos
      BY <1>0, <2>1
    <3>3. Len(ring) < Capacity =>
            \A i \in 1 .. (pos' - 1) : file[i] # NoPacket => file[i] \in index
      BY <3>1, <3>2 DEF LoadedIsKept, p
    <3>. QED
      BY <1>0, <2>1, <3>1, <3>3 DEF LoadedIsKept
  <2>4. CASE ~Skipped(p)
    <3>1. Insert(p) /\ p \in Packet /\ p \notin index /\ p # NoPacket
      BY <1>3, <2>2, <2>4 DEF ImportNext, Skipped
    <3>2. ~(again /\ Len(before) < Capacity)
      BY <2>1, <2>2, <3>1 DEF LoadedIsKept
    <3>. HIDE DEF p
    <3>3. ASSUME Len(ring') < Capacity, NEW i \in 1 .. (pos' - 1), file[i] # NoPacket
          PROVE  file[i] \in index'
      <4>1. Len(ring) < Capacity /\ ring' = Append(ring, p)
        BY <1>0, <3>1, <3>3, InsertFacts
      <4>2. index' = index \cup {p}
        <5>1. IsInjective(ring) /\ p \notin Range(ring)
          BY <1>0, <3>1 DEF IInv, RingIsASetOfRecentPackets
        <5>2. index' = Range(ring')
          BY <3>1, InsertKeeps DEF IInv, TypeOK, IndexMatchesRing
        <5>. QED
          BY <1>0, <3>1, <4>1, <5>1, <5>2, AppendFresh
      <4>3. i \in 1 .. (pos - 1) \/ i = pos
        BY <1>0, <2>1, <3>3
      <4>. QED
        BY <3>3, <4>1, <4>2, <4>3 DEF LoadedIsKept, p
    <3>. QED
      BY <1>0, <2>1, <3>2, <3>3 DEF LoadedIsKept
  <2>. QED
    BY <2>3, <2>4
<1>4. CASE EndImport
  BY <1>0, <1>4 DEF EndImport, LoadedIsKept
<1>5. CASE Clear
  BY <1>5 DEF Clear, LoadedIsKept
<1>6. CASE UNCHANGED vars
  BY <1>0, <1>6 DEF vars, LoadedIsKept
<1>. QED
  BY <1>1, <1>2, <1>3, <1>4, <1>5, <1>6 DEF Next

\* Loading adds and never replaces, for every ring size and every file: a load
\* that fits appends exactly the new packets, in file order and each once, and
\* counts them; one that does not fit leaves a full ring with the last packet
\* of the file; a repeated load leaves a ring that is not full as it was.
THEOREM LoadsAdd == Spec => []LoadAdds
<1>. DEFINE LInv == IInv /\ LoadIsAppended /\ LoadSoFar /\ LastIsKept /\ LoadedIsKept
<1>1. Init => LInv
  <2>. SUFFICES ASSUME Init PROVE LInv
    OBVIOUS
  <2>1. LoadIsAppended /\ LoadSoFar /\ LastIsKept /\ LoadedIsKept
    BY RingAssumption DEF Init, LoadIsAppended, LoadSoFar, LastIsKept, LoadedIsKept
  <2>. QED
    BY <2>1, InitIInv
<1>2. LInv /\ [Next]_vars => LInv'
  BY NextIInv, LoadIsAppendedStep, LoadSoFarStep, LastIsKeptStep, LoadedIsKeptStep
<1>3. LInv => LoadAdds
  BY LoadAddsNewsAtEnd DEF LoadAdds, LoadTwiceChangesNothing, LoadedIsKept
<1>. HIDE DEF LInv
<1>. QED
  BY <1>1, <1>2, <1>3, PTL DEF Spec
-----------------------------------------------------------------------------
(* Places in an order *)

IsOrder(I, R) ==
  /\ \A i \in I : <<i, i>> \notin R
  /\ \A i, j \in I : i # j => <<i, j>> \in R \/ <<j, i>> \in R
  /\ \A i, j, k \in I : <<i, j>> \in R /\ <<j, k>> \in R => <<i, k>> \in R

\* The ranks of a finite set are its first numbers, in its order.
LEMMA RankFacts ==
  ASSUME NEW I, IsFiniteSet(I), NEW R, IsOrder(I, R)
  PROVE  /\ Cardinality(I) \in Nat
         /\ \A i \in I : Rank(I, R, i) \in 0 .. Cardinality(I) - 1
         /\ \A i, j \in I : <<i, j>> \in R => Rank(I, R, i) < Rank(I, R, j)
         /\ \A n \in 0 .. Cardinality(I) - 1 : \E i \in I : Rank(I, R, i) = n
<1>. DEFINE Before(i) == {j \in I : <<j, i>> \in R}
            k == Cardinality(I)
            f == [i \in I |-> Rank(I, R, i)]
<1>1. k \in Nat
  BY FS_CardinalityType
<1>2. ASSUME NEW i \in I
      PROVE  IsFiniteSet(Before(i)) /\ Rank(I, R, i) \in 0 .. k - 1
  <2>1. Before(i) \subseteq I /\ i \notin Before(i) /\ Before(i) # I
    BY DEF IsOrder
  <2>. HIDE DEF Before
  <2>2. IsFiniteSet(Before(i)) /\ Cardinality(Before(i)) < k /\ Cardinality(Before(i)) \in Nat
    BY <2>1, FS_Subset, FS_CardinalityType
  <2>. QED
    BY <1>1, <2>2 DEF Rank, Before
<1>3. ASSUME NEW i \in I, NEW j \in I, <<i, j>> \in R
      PROVE  Rank(I, R, i) < Rank(I, R, j)
  <2>1. Before(i) \subseteq Before(j) /\ i \in Before(j) /\ i \notin Before(i)
    BY <1>3 DEF IsOrder
  <2>. HIDE DEF Before
  <2>2. Cardinality(Before(i)) < Cardinality(Before(j))
    BY <1>2, <2>1, FS_Subset, FS_CardinalityType
  <2>. QED
    BY <2>2 DEF Rank, Before
<1>4. ASSUME NEW n \in 0 .. k - 1 PROVE \E i \in I : Rank(I, R, i) = n
  <2>1. \A i, j \in I : i # j => f[i] # f[j]
    <3>. SUFFICES ASSUME NEW i \in I, NEW j \in I, i # j PROVE Rank(I, R, i) # Rank(I, R, j)
      OBVIOUS
    <3>1. Rank(I, R, i) < Rank(I, R, j) \/ Rank(I, R, j) < Rank(I, R, i)
      BY <1>3 DEF IsOrder
    <3>2. Rank(I, R, i) \in 0 .. k - 1 /\ Rank(I, R, j) \in 0 .. k - 1
      BY <1>2, Zenon
    <3>. HIDE DEF k
    <3>. QED
      BY <1>1, <3>1, <3>2
  <2>2. f \in Injection(I, 0 .. k - 1)
    BY <1>2, <2>1 DEF Injection, IsInjective
  <2>3. IsFiniteSet(0 .. k - 1) /\ Cardinality(0 .. k - 1) = k
    BY <1>1, FS_Interval
  <2>. HIDE DEF f
  <2>4. f \in Surjection(I, 0 .. k - 1)
    BY <2>2, <2>3, FS_Injection
  <2>. QED
    BY <2>4 DEF Surjection, f
<1>. QED
  BY <1>1, <1>2, <1>3, <1>4

\* The sequence a has the element of s at each place of I at its rank, and no
\* other element.
IsArrangement(a, s, I, R) ==
  /\ IsFiniteSet(I) /\ Cardinality(I) \in Nat /\ Len(a) = Cardinality(I)
  /\ \A i \in I : Rank(I, R, i) + 1 \in 1 .. Cardinality(I) /\ a[Rank(I, R, i) + 1] = s[i]
  /\ \A n \in 1 .. Cardinality(I) : \E i \in I : n = Rank(I, R, i) + 1 /\ a[n] = s[i]

LEMMA ArrangedFacts ==
  ASSUME NEW T, NEW s \in Seq(T), NEW I \in SUBSET (1 .. Len(s)), NEW R, IsOrder(I, R)
  PROVE  Arranged(s, I, R) \in Seq(T) /\ IsArrangement(Arranged(s, I, R), s, I, R)
<1>. DEFINE k == Cardinality(I)
            a == Arranged(s, I, R)
            At(n) == CHOOSE i \in I : Rank(I, R, i) = n - 1
<1>1. IsFiniteSet(I)
  <2>1. IsFiniteSet(1 .. Len(s))
    BY FS_Interval
  <2>. QED
    BY <2>1, FS_Subset
<1>2. /\ k \in Nat
      /\ \A i \in I : Rank(I, R, i) \in 0 .. k - 1
      /\ \A i, j \in I : <<i, j>> \in R => Rank(I, R, i) < Rank(I, R, j)
      /\ \A n \in 0 .. k - 1 : \E i \in I : Rank(I, R, i) = n
  BY <1>1, RankFacts
<1>3. \A i, j \in I : Rank(I, R, i) = Rank(I, R, j) => i = j
  <2>. SUFFICES ASSUME NEW i \in I, NEW j \in I, i # j PROVE Rank(I, R, i) # Rank(I, R, j)
    OBVIOUS
  <2>1. Rank(I, R, i) < Rank(I, R, j) \/ Rank(I, R, j) < Rank(I, R, i)
    BY <1>2 DEF IsOrder
  <2>. QED
    BY <1>2, <2>1
<1>4. a = [n \in 1 .. k |-> s[At(n)]]
  BY DEF Arranged
<1>5. ASSUME NEW n \in 1 .. k PROVE At(n) \in I /\ n = Rank(I, R, At(n)) + 1
  <2>1. n - 1 \in 0 .. k - 1
    BY <1>2
  <2>2. At(n) \in I /\ Rank(I, R, At(n)) = n - 1
    BY <1>2, <2>1
  <2>. HIDE DEF At
  <2>. QED
    BY <2>2
<1>. HIDE DEF a, k, At
<1>6. \A i \in I : s[i] \in T
  BY ElementOfSeq
<1>7. a \in Seq(T) /\ Len(a) = k /\ \A n \in 1 .. k : a[n] = s[At(n)]
  <2>1. \A n \in 1 .. k : s[At(n)] \in T
    BY <1>5, <1>6
  <2>. QED
    BY <1>2, <1>4, <2>1
<1>8. ASSUME NEW i \in I
      PROVE  Rank(I, R, i) + 1 \in 1 .. k /\ a[Rank(I, R, i) + 1] = s[i]
  <2>1. Rank(I, R, i) + 1 \in 1 .. k
    BY <1>2
  <2>2. At(Rank(I, R, i) + 1) \in I
        /\ Rank(I, R, i) + 1 = Rank(I, R, At(Rank(I, R, i) + 1)) + 1
    BY <1>5, <2>1
  <2>3. Rank(I, R, i) = Rank(I, R, At(Rank(I, R, i) + 1))
    <3>1. Rank(I, R, i) \in 0 .. k - 1 /\ Rank(I, R, At(Rank(I, R, i) + 1)) \in 0 .. k - 1
      BY <1>2, <2>2, Zenon
    <3>. QED
      BY <1>2, <2>2, <3>1
  <2>4. At(Rank(I, R, i) + 1) = i
    BY <1>3, <2>2, <2>3
  <2>. QED
    BY <1>7, <2>1, <2>4
<1>9. \A n \in 1 .. k : \E i \in I : n = Rank(I, R, i) + 1 /\ a[n] = s[i]
  BY <1>5, <1>7
<1>. QED
  BY <1>1, <1>2, <1>7, <1>8, <1>9 DEF a, k, IsArrangement

-----------------------------------------------------------------------------
(* Filters *)

LEMMA InPlaceIsOrder ==
  ASSUME NEW T, NEW s \in Seq(T), NEW I \in SUBSET (1 .. Len(s))
  PROVE  /\ IsOrder(I, InPlace(s))
         /\ \A i, j \in 1 .. Len(s) : <<i, j>> \in InPlace(s) <=> i < j
<1>1. \A i, j \in 1 .. Len(s) : <<i, j>> \in InPlace(s) <=> i < j
  BY DEF InPlace
<1>2. \A i, j, k \in 1 .. Len(s) :
        ~ (i < i) /\ (i # j => i < j \/ j < i) /\ (i < j /\ j < k => i < k)
  OBVIOUS
<1>. QED
  BY <1>1, <1>2 DEF IsOrder

\* A filter leaves what is in the set, in the order of the list.
LEMMA OnlyInOrder ==
  ASSUME NEW T, NEW s \in Seq(T), NEW S, IsInjective(s)
  PROVE  /\ Only(s, S) \in Seq(T) /\ Range(Only(s, S)) = Range(s) \cap S
         /\ \A a, b \in 1 .. Len(Only(s, S)), i, j \in 1 .. Len(s) :
              a < b /\ s[i] = Only(s, S)[a] /\ s[j] = Only(s, S)[b] => i < j
<1>. DEFINE I == {i \in 1 .. Len(s) : s[i] \in S}
            R == InPlace(s)
            k == Cardinality(I)
            o == Only(s, S)
<1>1. I \in SUBSET (1 .. Len(s)) /\ DOMAIN s = 1 .. Len(s) /\ Len(s) \in Nat
  OBVIOUS
<1>2. IsOrder(I, R) /\ \A i, j \in I : <<i, j>> \in R <=> i < j
  BY <1>1, InPlaceIsOrder
<1>3. o = Arranged(s, I, R)
  BY DEF Only
<1>. HIDE DEF I, R, o
<1>a. o \in Seq(T) /\ IsArrangement(o, s, I, R)
  BY <1>1, <1>2, <1>3, ArrangedFacts
<1>4. /\ k \in Nat /\ o \in Seq(T) /\ Len(o) = k
      /\ \A i \in I : Rank(I, R, i) + 1 \in 1 .. k /\ o[Rank(I, R, i) + 1] = s[i]
      /\ \A n \in 1 .. k : \E i \in I : n = Rank(I, R, i) + 1 /\ o[n] = s[i]
  BY <1>a DEF IsArrangement
<1>5. \A i, j \in I : i < j => Rank(I, R, i) + 1 < Rank(I, R, j) + 1
  <2>. SUFFICES ASSUME NEW i \in I, NEW j \in I, i < j
                PROVE  Rank(I, R, i) + 1 < Rank(I, R, j) + 1
    OBVIOUS
  <2>1. IsFiniteSet(I)
    BY <1>a DEF IsArrangement
  <2>2. /\ Rank(I, R, i) \in 0 .. k - 1 /\ Rank(I, R, j) \in 0 .. k - 1
        /\ Rank(I, R, i) < Rank(I, R, j)
    BY <1>2, <2>1, RankFacts
  <2>. QED
    BY <1>4, <2>2
<1>. HIDE DEF k
<1>6. \A a, b \in 1 .. k, i, j \in 1 .. Len(s) :
        a < b /\ s[i] = o[a] /\ s[j] = o[b] => i < j
  <2>. SUFFICES ASSUME NEW a \in 1 .. k, NEW b \in 1 .. k,
                       NEW i \in 1 .. Len(s), NEW j \in 1 .. Len(s),
                       a < b, s[i] = o[a], s[j] = o[b], ~ (i < j)
                PROVE  FALSE
    OBVIOUS
  <2>1. PICK x \in I : a = Rank(I, R, x) + 1 /\ o[a] = s[x]
    BY <1>4
  <2>2. PICK y \in I : b = Rank(I, R, y) + 1 /\ o[b] = s[y]
    BY <1>4
  <2>3. x = i /\ y = j
    BY <1>1, <2>1, <2>2 DEF IsInjective
  <2>4. j < i \/ i = j
    OBVIOUS
  <2>. QED
    BY <1>5, <2>1, <2>2, <2>3, <2>4
<1>7. Range(o) = Range(s) \cap S
  <2>1. DOMAIN o = 1 .. k
    BY <1>4
  <2>2. \A i : i \in I <=> i \in 1 .. Len(s) /\ s[i] \in S
    BY DEF I
  <2>3. Range(o) \subseteq Range(s) \cap S
    BY <1>1, <1>4, <2>1, <2>2 DEF Range
  <2>4. Range(s) \cap S \subseteq Range(o)
    BY <1>1, <1>4, <2>1, <2>2 DEF Range
  <2>. QED
    BY <2>3, <2>4
<1>. QED
  BY <1>4, <1>6, <1>7 DEF o

-----------------------------------------------------------------------------
(* A limited view has no gaps *)

\* A view is the end of what a filter leaves: all of it, or limit packets.
IsEnd(u, v, d) ==
  /\ u \in Seq(Packet) /\ Len(u) = Len(v) - d /\ d \in 0 .. Len(v)
  /\ \A i \in 1 .. Len(u) : u[i] = v[i + d]

LEMMA RecentIsEnd ==
  ASSUME NEW r, NEW limit \in Int, OfRun(r) \in Seq(Packet)
  PROVE  \E d : /\ IsEnd(Recent(r, limit), OfRun(r), d)
                /\ d > 0 => limit > 0 /\ Len(Recent(r, limit)) = limit
                /\ limit > 0 => Len(Recent(r, limit)) <= limit
<1>. DEFINE v == OfRun(r)
            u == Recent(r, limit)
            n == IF limit < 0 THEN 0 ELSE limit
<1>1. v \in Seq(Packet) /\ Len(v) \in Nat /\ n \in Nat
  OBVIOUS
<1>2. u = IF n = 0 \/ n >= Len(v) THEN v ELSE SubSeq(v, Len(v) - n + 1, Len(v))
  BY DEF Recent
<1>. HIDE DEF u, v
<1>3. CASE n = 0 \/ n >= Len(v)
  <2>1. u = v
    BY <1>2, <1>3
  <2>2. IsEnd(u, v, 0)
    BY <1>1, <2>1 DEF IsEnd
  <2>3. limit > 0 => Len(u) <= limit
    BY <1>1, <1>3, <2>1
  <2>. QED
    BY <2>2, <2>3 DEF u, v
<1>4. CASE ~ (n = 0 \/ n >= Len(v))
  <2>. DEFINE d == Len(v) - n
  <2>1. d \in 0 .. Len(v) /\ d > 0 /\ n = limit /\ limit > 0 /\ Len(v) - d = n
    BY <1>1, <1>4
  <2>2. u = SubSeq(v, d + 1, Len(v))
    BY <1>2, <1>4
  <2>. HIDE DEF d, n
  <2>3. IsEnd(u, v, d) /\ Len(u) = limit
    BY <1>1, <2>1, <2>2, Suffix DEF IsEnd
  <2>. QED
    BY <2>1, <2>3 DEF u, v
<1>. QED
  BY <1>3, <1>4

\* A limited view has no gaps, for every ring size, run and limit: recent()
\* lists packets of the run in ring order, never more than a positive limit,
\* and leaves a packet of the run out only for limit newer ones of that run,
\* and none for a limit of zero or below.
THEOREM ViewsHaveNoGaps == Spec => []RecentHasNoGaps
<1>1. IInv => RecentHasNoGaps
  <2>. SUFFICES ASSUME IInv, NEW r \in Run \cup {NoPacket}, NEW limit \in -1 .. Capacity + 1
                PROVE
         LET view  == Recent(r, limit)
             At(p) == CHOOSE i \in DOMAIN ring : ring[i] = p
         IN  /\ \A q \in Range(view) : r = NoPacket \/ RunOf[q] = r
             /\ \A k, m \in DOMAIN view : k < m => At(view[k]) < At(view[m])
             /\ limit > 0 => Len(view) <= limit
             /\ \A p \in Range(ring) \ Range(view) :
                  r = NoPacket \/ RunOf[p] = r =>
                    limit > 0 /\ Len(view) = limit /\ \A q \in Range(view) : At(p) < At(q)
    BY DEF RecentHasNoGaps
  <2>. DEFINE view == Recent(r, limit)
              v == OfRun(r)
              At(p) == CHOOSE i \in DOMAIN ring : ring[i] = p
              S == {p \in Packet : r = NoPacket \/ RunOf[p] = r}
  <2>1. /\ ring \in Seq(Packet) /\ IsInjective(ring) /\ limit \in Int
        /\ DOMAIN ring = 1 .. Len(ring) /\ Range(ring) \subseteq Packet
    BY CapacityType DEF IInv, TypeOK, RingIsASetOfRecentPackets, Range
  <2>2. /\ v \in Seq(Packet) /\ Range(v) = Range(ring) \cap S
        /\ \A a, b \in 1 .. Len(v), i, j \in 1 .. Len(ring) :
             a < b /\ ring[i] = v[a] /\ ring[j] = v[b] => i < j
    BY <2>1, OnlyInOrder DEF OfRun
  <2>3. \A p \in Range(ring) : At(p) \in 1 .. Len(ring) /\ ring[At(p)] = p
    BY <2>1 DEF Range
  <2>4. PICK d : /\ IsEnd(view, v, d)
                 /\ d > 0 => limit > 0 /\ Len(view) = limit
                 /\ limit > 0 => Len(view) <= limit
    BY <2>1, <2>2, RecentIsEnd
  <2>. HIDE DEF view, v, At, S
  <2>5. /\ Len(v) \in Nat /\ DOMAIN v = 1 .. Len(v) /\ d \in 0 .. Len(v)
        /\ DOMAIN view = 1 .. Len(v) - d
        /\ \A k \in 1 .. Len(v) - d : view[k] = v[k + d]
        /\ \A k \in 1 .. Len(v) - d : k + d \in 1 .. Len(v)
    BY <2>2, <2>4 DEF IsEnd
  <2>6. \A a, b \in 1 .. Len(v) : a < b => At(v[a]) < At(v[b])
    <3>. SUFFICES ASSUME NEW a \in 1 .. Len(v), NEW b \in 1 .. Len(v), a < b
                  PROVE  At(v[a]) < At(v[b])
      OBVIOUS
    <3>1. v[a] \in Range(ring) /\ v[b] \in Range(ring)
      BY <2>2, <2>5 DEF Range
    <3>2. /\ At(v[a]) \in 1 .. Len(ring) /\ At(v[b]) \in 1 .. Len(ring)
          /\ ring[At(v[a])] = v[a] /\ ring[At(v[b])] = v[b]
      BY <2>3, <3>1
    <3>. QED
      BY <2>2, <3>2
  <2>7. \A q \in Range(view) : r = NoPacket \/ RunOf[q] = r
    <3>1. Range(view) \subseteq Range(v)
      BY <2>5 DEF Range
    <3>. QED
      BY <2>2, <3>1 DEF S
  <2>8. \A k, m \in DOMAIN view : k < m => At(view[k]) < At(view[m])
    <3>. SUFFICES ASSUME NEW k \in 1 .. Len(v) - d, NEW m \in 1 .. Len(v) - d, k < m
                  PROVE  At(view[k]) < At(view[m])
      BY <2>5
    <3>1. k + d < m + d /\ k + d \in 1 .. Len(v) /\ m + d \in 1 .. Len(v)
      BY <2>5
    <3>. QED
      BY <2>5, <2>6, <3>1
  <2>9. ASSUME NEW p \in Range(ring) \ Range(view), r = NoPacket \/ RunOf[p] = r
        PROVE  limit > 0 /\ Len(view) = limit /\ \A q \in Range(view) : At(p) < At(q)
    <3>1. PICK i \in 1 .. Len(v) : v[i] = p
      <4>1. p \in Range(v)
        BY <2>1, <2>2, <2>9 DEF S
      <4>. QED
        BY <2>5, <4>1 DEF Range
    <3>2. i <= d
      <4>. SUFFICES ASSUME i > d PROVE FALSE
        BY <2>5
      <4>1. i - d \in 1 .. Len(v) - d /\ (i - d) + d = i
        BY <2>5
      <4>2. view[i - d] = p
        BY <2>5, <3>1, <4>1
      <4>. QED
        BY <2>5, <2>9, <4>1, <4>2 DEF Range
    <3>3. limit > 0 /\ Len(view) = limit
      <4>1. d > 0
        BY <2>5, <3>2
      <4>. QED
        BY <2>4, <4>1
    <3>4. ASSUME NEW q \in Range(view) PROVE At(p) < At(q)
      <4>1. PICK k \in 1 .. Len(v) - d : view[k] = q
        BY <2>5 DEF Range
      <4>2. i < k + d /\ k + d \in 1 .. Len(v) /\ v[k + d] = q
        BY <2>5, <3>2, <4>1
      <4>. QED
        BY <2>6, <3>1, <4>2
    <3>. QED
      BY <3>3, <3>4
  <2>. QED
    BY <2>4, <2>7, <2>8, <2>9 DEF view, At
<1>. QED
  BY <1>1, StoreInvariant, PTL
=============================================================================
