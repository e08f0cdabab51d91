-------------------------- MODULE TrafficStreamProofs --------------------------
(***************************************************************************)
(* The traffic streams, for any number of streams, publishers and packets. *)
(* Inv: one thread closes a stream, takes it out of the bus and then       *)
(* completes it.  Delivery: until then it is sent every packet.  That a    *)
(* broken stream is never forgotten is inductive with Inv, and with the    *)
(* fact that only an initialised emitter is called back.  Both invariants, *)
(* with ClosedIsBroken and JoinedBefore, make every step one of LiveFeed.  *)
(***************************************************************************)
EXTENDS TrafficStream, SequenceTheorems, TLAPS

\* Thread t has won the compare-and-set for its target and is not back yet.
Closing(t) == pc[t] \in {"unsubscribe", "complete"}

\* What is needed of the variables' types.
Types ==
  /\ subscribers \in Seq(Stream)
  /\ phase \in [Stream -> {"new", "subscribed", "referenced", "open"}]
  /\ closed \in [Stream -> BOOLEAN] /\ client \in [Stream -> BOOLEAN]
  /\ broken \in [Stream -> BOOLEAN] /\ completed \in [Stream -> Nat]
  /\ pc \in [Thread -> Place] /\ todo \in [Publisher -> Seq(Stream)]

\* A publisher that is about to send or to close has a stream to do it for.
HasTarget ==
  \A p \in Publisher :
    pc[p] \in {"send", "close", "unsubscribe", "complete"} => todo[p] # <<>>

\* A stream that a send failed on, that is being closed or that is closed was
\* opened before: its subscription is known.
OpenedFirst ==
  /\ \A s \in Stream : broken[s] \/ closed[s] => phase[s] = "open"
  /\ \A t \in Thread : pc[t] \in {"close", "unsubscribe", "complete"} => phase[Target(t)] = "open"

\* The bus lists a stream once, after it has subscribed.
SubscribedOnce ==
  /\ IsInjective(subscribers)
  /\ \A s \in Range(subscribers) : phase[s] # "new"

\* One thread at most closes a stream, and only its completion is still due.
OneCloses ==
  /\ \A t \in Thread : Closing(t) => closed[Target(t)] /\ completed[Target(t)] = 0
  /\ \A t, u \in Thread : Closing(t) /\ Closing(u) /\ Target(t) = Target(u) => t = u
  /\ \A s \in Stream : completed[s] # 0 => closed[s]

\* A closed stream is listed only while its closer has still to unsubscribe it.
ListedWhileClosing ==
  \A s \in Range(subscribers) :
    closed[s] => \E t \in Thread : pc[t] = "unsubscribe" /\ Target(t) = s

\* The inductive invariant.
Inv == /\ Types /\ HasTarget /\ OpenedFirst /\ SubscribedOnce /\ OneCloses
       /\ ListedWhileClosing /\ \A s \in Stream : completed[s] <= 1

-----------------------------------------------------------------------------
\* The list without s has neither s nor anything new, and still no stream twice.
LEMMA WithoutFacts ==
  ASSUME subscribers \in Seq(Stream), IsInjective(subscribers), NEW s \in Stream
  PROVE  /\ Without(s) \in Seq(Stream) /\ IsInjective(Without(s))
         /\ Range(Without(s)) = Range(subscribers) \ {s}
<1>1. CASE s \notin Range(subscribers)
  BY <1>1 DEF Without
<1>2. CASE s \in Range(subscribers)
  <2>. DEFINE n == Len(subscribers)
              i == CHOOSE i \in DOMAIN subscribers : subscribers[i] = s
              w == Without(s)
  <2>1. n \in Nat /\ DOMAIN subscribers = 1..n
    OBVIOUS
  <2>2. i \in 1..n /\ subscribers[i] = s
    BY <1>2, <2>1 DEF Range
  <2>3. w = SubSeq(subscribers, 1, i - 1) \o SubSeq(subscribers, i + 1, n)
    BY <1>2 DEF Without, RemoveAt
  <2>. HIDE DEF i, w
  <2>4. /\ w \in Seq(Stream) /\ DOMAIN w = 1..(n - 1)
        /\ \A k \in 1..(n - 1) : w[k] = IF k < i THEN subscribers[k] ELSE subscribers[k + 1]
    <3>. DEFINE a == SubSeq(subscribers, 1, i - 1)
                b == SubSeq(subscribers, i + 1, n)
    <3>1. /\ a \in Seq(Stream) /\ Len(a) = i - 1
          /\ \A k \in 1..(i - 1) : a[k] = subscribers[k]
      <4>1. \A k \in 1..(i - 1) : subscribers[k] \in Stream
        BY <2>1, <2>2
      <4>. QED
        BY <2>1, <2>2, <4>1, SubSeqProperties
    <3>2. /\ b \in Seq(Stream) /\ Len(b) = n - i
          /\ \A k \in 1..(n - i) : b[k] = subscribers[i + k]
      <4>1. /\ i + 1 \in Int /\ n \in Int
            /\ \A k \in (i + 1)..n : subscribers[k] \in Stream
        BY <2>1, <2>2
      <4>2. /\ b \in Seq(Stream) /\ Len(b) = IF i + 1 <= n THEN n - (i + 1) + 1 ELSE 0
            /\ \A k \in 1..(n - (i + 1) + 1) : b[k] = subscribers[i + 1 + k - 1]
        <5>. HIDE DEF n
        <5>. QED
          BY <4>1, SubSeqProperties
      <4>. HIDE DEF b, n
      <4>3. Len(b) = n - i
        BY <2>1, <2>2, <4>2
      <4>4. ASSUME NEW k \in 1..(n - i) PROVE b[k] = subscribers[i + k]
        <5>1. k \in 1..(n - (i + 1) + 1) /\ i + 1 + k - 1 = i + k
          BY <2>1, <2>2
        <5>. QED
          BY <4>2, <5>1
      <4>. QED
        BY <4>2, <4>3, <4>4
    <3>. HIDE DEF a, b
    <3>3. /\ w \in Seq(Stream) /\ Len(w) = Len(a) + Len(b)
          /\ \A k \in 1..(Len(a) + Len(b)) : w[k] = IF k <= Len(a) THEN a[k] ELSE b[k - Len(a)]
      <4>1. w = a \o b
        BY <2>3 DEF a, b
      <4>. QED
        BY <3>1, <3>2, <4>1, ConcatProperties
    <3>. HIDE DEF n
    <3>4. Len(w) = n - 1 /\ DOMAIN w = 1..(n - 1)
      BY <2>1, <2>2, <3>1, <3>2, <3>3
    <3>5. ASSUME NEW k \in 1..(n - 1)
          PROVE  w[k] = IF k < i THEN subscribers[k] ELSE subscribers[k + 1]
      <4>1. w[k] = IF k <= i - 1 THEN a[k] ELSE b[k - (i - 1)]
        BY <2>1, <2>2, <3>1, <3>2, <3>3
      <4>2. CASE k < i
        BY <2>1, <2>2, <3>1, <4>1, <4>2
      <4>3. CASE ~(k < i)
        <5>1. k - (i - 1) \in 1..(n - i) /\ i + (k - (i - 1)) = k + 1
          BY <2>1, <2>2, <4>3
        <5>2. b[k - (i - 1)] = subscribers[k + 1]
          BY <3>2, <5>1
        <5>. QED
          BY <2>1, <2>2, <4>1, <4>3, <5>2
      <4>. QED
        BY <4>2, <4>3
    <3>. QED
      BY <3>3, <3>4, <3>5
  <2>5. \A k, m \in 1..n : subscribers[k] = subscribers[m] => k = m
    BY <2>1 DEF IsInjective
  <2>6. IsInjective(w)
    BY <2>1, <2>2, <2>4, <2>5 DEF IsInjective
  <2>7. \A x \in Range(w) : x \in Range(subscribers) \ {s}
    BY <2>1, <2>2, <2>4, <2>5 DEF Range
  <2>8. ASSUME NEW x \in Range(subscribers) \ {s} PROVE x \in Range(w)
    <3>1. PICK k \in 1..n : subscribers[k] = x
      BY <2>1, <2>8 DEF Range
    <3>2. CASE k < i
      <4>1. k \in 1..(n - 1) /\ w[k] = x
        BY <2>1, <2>2, <2>4, <3>1, <3>2
      <4>. QED
        BY <2>4, <4>1 DEF Range
    <3>3. CASE ~(k < i)
      <4>1. k - 1 \in 1..(n - 1) /\ w[k - 1] = x
        BY <2>1, <2>2, <2>4, <2>8, <3>1, <3>3
      <4>. QED
        BY <2>4, <4>1 DEF Range
    <3>. QED
      BY <3>2, <3>3
  <2>. QED
    BY <2>4, <2>6, <2>7, <2>8 DEF w
<1>. QED
  BY <1>1, <1>2

\* What the list has is a stream.
LEMMA RangeFacts ==
  ASSUME NEW q \in Seq(Stream)
  PROVE  Range(q) \subseteq Stream
BY DEF Range

\* The list with s at its end has each stream once if s was not there.
LEMMA AppendFacts ==
  ASSUME NEW q \in Seq(Stream), IsInjective(q), NEW s \in Stream, s \notin Range(q)
  PROVE  IsInjective(Append(q, s)) /\ Range(Append(q, s)) = Range(q) \cup {s}
<1>. DEFINE a == Append(q, s)
<1>1. /\ Len(q) \in Nat /\ DOMAIN q = 1..Len(q) /\ DOMAIN a = 1..(Len(q) + 1)
      /\ a[Len(q) + 1] = s /\ \A i \in 1..Len(q) : a[i] = q[i]
  OBVIOUS
<1>. HIDE DEF a
<1>2. IsInjective(a)
  BY <1>1 DEF IsInjective, Range
<1>3. \A x \in Range(a) : x \in Range(q) \cup {s}
  BY <1>1 DEF Range
<1>4. \A x \in Range(q) \cup {s} : x \in Range(a)
  BY <1>1 DEF Range
<1>. QED
  BY <1>2, <1>3, <1>4 DEF a

-----------------------------------------------------------------------------
LEMMA InitInv == Init => Inv
<1>. SUFFICES ASSUME Init PROVE Inv
  OBVIOUS
<1>1. Types
  BY EmptySeq, SMT DEF Init, Types, Place
<1>2. HasTarget /\ OpenedFirst /\ OneCloses
  BY StreamAssumption DEF Init, HasTarget, OpenedFirst, OneCloses, Closing, Thread
<1>3. SubscribedOnce /\ ListedWhileClosing
  BY DEF Init, SubscribedOnce, ListedWhileClosing, IsInjective, Range
<1>4. \A s \in Stream : completed[s] <= 1
  BY DEF Init
<1>. QED
  BY <1>1, <1>2, <1>3, <1>4 DEF Inv

\* What a thread is about to close is a stream.
LEMMA TargetFacts ==
  ASSUME Inv, NEW t \in Thread, pc[t] \in {"close", "unsubscribe", "complete"}
  PROVE  Target(t) \in Stream /\ (t \in Publisher => todo[t] \in Seq(Stream) /\ todo[t] # <<>>)
BY DEF Inv, Types, HasTarget, Target, Thread

\* What is sent is sent to a stream.
LEMMA SendFacts ==
  ASSUME Inv, NEW p \in Publisher, pc[p] = "send"
  PROVE  Head(todo[p]) \in Stream /\ todo[p] \in Seq(Stream) /\ todo[p] # <<>>
BY DEF Inv, Types, HasTarget

\* A thread that is back from closeGracefully() is done with one stream.
LEMMA LeaveFacts ==
  ASSUME Inv, NEW t \in Thread, pc[t] \in {"close", "complete"}, Leave(t)
  PROVE  todo' \in [Publisher -> Seq(Stream)]
<1>1. CASE t \in Publisher
  <2>1. Tail(todo[t]) \in Seq(Stream)
    BY <1>1, TargetFacts
  <2>. QED
    BY <1>1, <2>1 DEF Leave, Inv, Types
<1>2. CASE t \notin Publisher
  BY <1>2 DEF Leave, Inv, Types
<1>. QED
  BY <1>1, <1>2

\* Every step keeps the types.
LEMMA TypesStep == Inv /\ [Next]_vars => Types'
<1>. SUFFICES ASSUME Inv, [Next]_vars PROVE Types'
  OBVIOUS
<1>. USE DEF Types, Inv, Place
<1>1. ASSUME NEW s \in Stream, Subscribe(s) PROVE Types'
  BY <1>1 DEF Subscribe, emitterVars
<1>2. ASSUME NEW s \in Stream, Reference(s) PROVE Types'
  BY <1>2 DEF Reference, emitterVars
<1>3. ASSUME NEW s \in Stream, Initialise(s) PROVE Types'
  <2>1. broken' \in [Stream -> BOOLEAN]
    BY <1>3 DEF Initialise
  <2>. QED
    BY <1>3, <2>1 DEF Initialise
<1>4. ASSUME NEW s \in Stream, ClientLeaves(s) PROVE Types'
  <2>1. client' \in [Stream -> BOOLEAN]
    BY <1>4 DEF ClientLeaves
  <2>. QED
    BY <1>4, <2>1 DEF ClientLeaves
<1>5. ASSUME NEW p \in Publisher, Store(p) \/ Iterate(p) \/ PublishReturns(p) PROVE Types'
  BY <1>5, ZenonT(40) DEF Store, Iterate, PublishReturns, emitterVars, Thread
<1>6. ASSUME NEW p \in Publisher, Accept(p) PROVE Types'
  <2>1. Tail(todo[p]) \in Seq(Stream)
    BY <1>6 DEF Accept
  <2>2. CASE closed[Head(todo[p])]
    BY <1>6, <2>1, <2>2 DEF Accept, emitterVars, Thread
  <2>3. CASE ~closed[Head(todo[p])]
    BY <1>6, <2>3 DEF Accept, emitterVars, Thread
  <2>. QED
    BY <2>2, <2>3
<1>7. ASSUME NEW p \in Publisher, Send(p) PROVE Types'
  BY <1>7, SendFacts DEF Send, Thread
<1>8. ASSUME NEW p \in Publisher, SendFails(p) PROVE Types'
  <2>1. broken' \in [Stream -> BOOLEAN]
    BY <1>8, Zenon DEF SendFails
  <2>. QED
    BY <1>8, <2>1, SendFacts DEF SendFails, Thread
<1>9. ASSUME NEW s \in Stream, Callback(s) PROVE Types'
  BY <1>9 DEF Callback, emitterVars, Thread
<1>10. ASSUME NEW t \in Thread, CompareAndSet(t) PROVE Types'
  <2>1. closed' \in [Stream -> BOOLEAN]
    BY <1>10, Zenon DEF CompareAndSet
  <2>2. todo' \in [Publisher -> Seq(Stream)]
    BY <1>10, LeaveFacts DEF CompareAndSet
  <2>. QED
    BY <1>10, <2>1, <2>2 DEF CompareAndSet, Leave, emitterVars
<1>11. ASSUME NEW t \in Thread, Unsubscribe(t) PROVE Types'
  <2>1. subscribers' \in Seq(Stream)
    BY <1>11, TargetFacts, WithoutFacts DEF Unsubscribe, SubscribedOnce
  <2>. QED
    BY <1>11, <2>1 DEF Unsubscribe, emitterVars
<1>12. ASSUME NEW t \in Thread, Complete(t) PROVE Types'
  <2>1. todo' \in [Publisher -> Seq(Stream)]
    BY <1>12, LeaveFacts DEF Complete
  <2>2. completed' \in [Stream -> Nat]
    BY <1>12, TargetFacts DEF Complete
  <2>. QED
    BY <1>12, <2>1, <2>2 DEF Complete, Leave
<1>13. CASE UNCHANGED vars
  BY <1>13 DEF vars, emitterVars
<1>. QED
  BY <1>1, <1>2, <1>3, <1>4, <1>5, <1>6, <1>7, <1>8, <1>9, <1>10, <1>11, <1>12, <1>13
  DEF Next, Opens, Publishes, Closes

\* Whoever is about to send or close has a stream to do it for.
LEMMA HasTargetStep == Inv /\ [Next]_vars => HasTarget'
<1>. SUFFICES ASSUME Inv, [Next]_vars PROVE HasTarget'
  OBVIOUS
<1>. USE StreamAssumption DEF Types, Inv, HasTarget, Thread
<1>1. ASSUME NEW p \in Publisher,
             \/ Store(p) \/ Iterate(p) \/ PublishReturns(p)
             \/ Accept(p) \/ Send(p) \/ SendFails(p)
      PROVE  HasTarget'
  BY <1>1 DEF Store, Iterate, PublishReturns, Accept, Send, SendFails, emitterVars
<1>2. ASSUME NEW s \in Stream, Callback(s) PROVE HasTarget'
  BY <1>2 DEF Callback
<1>3. ASSUME NEW t \in Thread, CompareAndSet(t) \/ Unsubscribe(t) \/ Complete(t) PROVE HasTarget'
  BY <1>3 DEF CompareAndSet, Unsubscribe, Complete, Leave
<1>4. CASE UNCHANGED <<pc, todo>>
  BY <1>4
<1>. QED
  BY <1>1, <1>2, <1>3, <1>4
  DEF Next, Opens, Publishes, Closes, Subscribe, Reference, Initialise, ClientLeaves,
      vars, emitterVars

\* A send only fails, and an emitter only calls back, once the stream is open.
LEMMA OpenedFirstStep == Inv /\ [Next]_vars => OpenedFirst'
<1>. SUFFICES ASSUME Inv, [Next]_vars PROVE OpenedFirst'
  OBVIOUS
<1>. USE StreamAssumption DEF Types, Inv, OpenedFirst, Target, Thread
<1>1. ASSUME NEW s \in Stream, Subscribe(s) \/ Reference(s) \/ ClientLeaves(s)
      PROVE  OpenedFirst'
  <2>1. UNCHANGED <<closed, broken, pc, todo>>
    BY <1>1 DEF Subscribe, Reference, ClientLeaves, emitterVars
  <2>2. \A r \in Stream : phase[r] = "open" => phase'[r] = "open"
    BY <1>1 DEF Subscribe, Reference, ClientLeaves
  <2>3. \A t \in Thread : pc[t] \in {"close", "unsubscribe", "complete"} => Target(t) \in Stream
    BY TargetFacts
  <2>. QED
    BY <2>1, <2>2, <2>3
<1>2. ASSUME NEW s \in Stream, Initialise(s) PROVE OpenedFirst'
  BY <1>2 DEF Initialise
<1>3. ASSUME NEW p \in Publisher, Store(p) \/ Iterate(p) \/ PublishReturns(p) \/ Accept(p)
      PROVE  OpenedFirst'
  BY <1>3 DEF Store, Iterate, PublishReturns, Accept, emitterVars
<1>4. ASSUME NEW p \in Publisher, Send(p) PROVE OpenedFirst'
  BY <1>4 DEF Send
<1>5. ASSUME NEW p \in Publisher, SendFails(p) PROVE OpenedFirst'
  <2>. DEFINE s == Head(todo[p])
  <2>1. s \in Stream
    BY <1>5, SendFacts DEF SendFails
  <2>2. phase[s] = "open"
    BY <1>5, <2>1 DEF SendFails, Refuses, OneCloses
  <2>3. \A r \in Stream : broken'[r] => r = s \/ broken[r]
    BY <1>5 DEF SendFails
  <2>4. /\ UNCHANGED <<phase, closed, todo>>
        /\ \A t \in Thread \ {p} : pc'[t] = pc[t]
    BY <1>5 DEF SendFails
  <2>. QED
    BY <2>1, <2>2, <2>3, <2>4
<1>6. ASSUME NEW s \in Stream, Callback(s) PROVE OpenedFirst'
  BY <1>6 DEF Callback, emitterVars
<1>7. ASSUME NEW t \in Thread, CompareAndSet(t) PROVE OpenedFirst'
  <2>1. phase[Target(t)] = "open"
    BY <1>7 DEF CompareAndSet
  <2>2. \A r \in Stream : closed'[r] => r = Target(t) \/ closed[r]
    BY <1>7 DEF CompareAndSet
  <2>3. /\ UNCHANGED <<phase, broken>>
        /\ \A u \in Thread \ {t} : pc'[u] = pc[u] /\ Target(u)' = Target(u)
        /\ (pc'[t] = "unsubscribe" /\ UNCHANGED todo) \/ pc'[t] \in {"next", "done"}
    BY <1>7 DEF CompareAndSet, Leave, emitterVars
  <2>. QED
    BY <2>1, <2>2, <2>3
<1>8. ASSUME NEW t \in Thread, Unsubscribe(t) PROVE OpenedFirst'
  BY <1>8 DEF Unsubscribe, emitterVars
<1>9. ASSUME NEW t \in Thread, Complete(t) PROVE OpenedFirst'
  BY <1>9 DEF Complete, Leave
<1>10. CASE UNCHANGED vars
  BY <1>10 DEF vars, emitterVars
<1>. QED
  BY <1>1, <1>2, <1>3, <1>4, <1>5, <1>6, <1>7, <1>8, <1>9, <1>10
  DEF Next, Opens, Publishes, Closes

\* A request subscribes once, and leaving keeps the others in the list.
LEMMA SubscribedOnceStep == Inv /\ [Next]_vars => SubscribedOnce'
<1>. SUFFICES ASSUME Inv, [Next]_vars PROVE SubscribedOnce'
  OBVIOUS
<1>. USE DEF Types, Inv, SubscribedOnce
<1>1. ASSUME NEW s \in Stream, Subscribe(s) PROVE SubscribedOnce'
  <2>1. s \notin Range(subscribers)
    BY <1>1 DEF Subscribe
  <2>2. IsInjective(subscribers') /\ Range(subscribers') = Range(subscribers) \cup {s}
    BY <1>1, <2>1, AppendFacts DEF Subscribe
  <2>. QED
    BY <1>1, <2>2, RangeFacts DEF Subscribe
<1>2. ASSUME NEW s \in Stream, Reference(s) \/ Initialise(s) PROVE SubscribedOnce'
  BY <1>2, RangeFacts DEF Reference, Initialise, emitterVars
<1>3. ASSUME NEW t \in Thread, Unsubscribe(t) PROVE SubscribedOnce'
  BY <1>3, TargetFacts, WithoutFacts DEF Unsubscribe
<1>4. CASE UNCHANGED <<subscribers, phase>>
  BY <1>4
<1>. QED
  BY <1>1, <1>2, <1>3, <1>4
  DEF Next, Opens, Publishes, Closes, ClientLeaves, Store, Iterate, PublishReturns, Accept,
      Send, SendFails, Callback, CompareAndSet, Complete, vars, emitterVars

\* The compare-and-set lets one thread through.
LEMMA OneClosesStep == Inv /\ [Next]_vars => OneCloses'
<1>. SUFFICES ASSUME Inv, [Next]_vars PROVE OneCloses'
  OBVIOUS
<1>. USE StreamAssumption DEF Types, Inv, OneCloses, Closing, Target, Thread
<1>0. ASSUME \A u \in Thread : Closing(u)' => Closing(u) /\ Target(u)' = Target(u),
             UNCHANGED <<closed, completed>>
      PROVE  OneCloses'
  BY <1>0
<1>1. ASSUME NEW p \in Publisher,
             Store(p) \/ Iterate(p) \/ PublishReturns(p) \/ Accept(p) \/ Send(p) \/ SendFails(p)
      PROVE  OneCloses'
  <2>1. /\ \A u \in Thread \ {p} : pc'[u] = pc[u] /\ Target(u)' = Target(u)
        /\ ~Closing(p)'
    BY <1>1 DEF Store, Iterate, PublishReturns, Accept, Send, SendFails
  <2>2. UNCHANGED <<closed, completed>>
    BY <1>1 DEF Store, Iterate, PublishReturns, Accept, Send, SendFails, emitterVars
  <2>. QED
    BY <1>0, <2>1, <2>2
<1>2. ASSUME NEW s \in Stream, Callback(s) PROVE OneCloses'
  BY <1>2 DEF Callback, emitterVars
<1>3. ASSUME NEW t \in Thread, CompareAndSet(t) PROVE OneCloses'
  <2>1. Target(t) \in Stream /\ UNCHANGED completed
    BY <1>3, TargetFacts DEF CompareAndSet, emitterVars
  <2>2. \A u \in Thread \ {t} : pc'[u] = pc[u] /\ Target(u)' = Target(u)
    BY <1>3 DEF CompareAndSet, Leave
  <2>3. CASE closed[Target(t)]
    <3>1. ~Closing(t)' /\ UNCHANGED closed
      BY <1>3, <2>3 DEF CompareAndSet, Leave
    <3>. QED
      BY <1>0, <2>1, <2>2, <3>1
  <2>4. CASE ~closed[Target(t)]
    <3>1. Target(t)' = Target(t)
      BY <1>3, <2>4 DEF CompareAndSet
    <3>2. closed'[Target(t)] /\ \A r \in Stream : closed[r] => closed'[r]
      <4>1. closed' = [closed EXCEPT ![Target(t)] = TRUE]
        BY <1>3, <2>4 DEF CompareAndSet
      <4>. HIDE DEF Target
      <4>. QED
        BY <2>1, <4>1
    <3>3. \A u \in Thread \ {t} : Closing(u) => Target(u) # Target(t) /\ Target(u) \in Stream
      BY <2>4, TargetFacts
    <3>4. completed[Target(t)] = 0
      BY <2>1, <2>4
    <3>5. \A u \in Thread : Closing(u)' => u = t \/ Closing(u)
      BY <2>2
    <3>6. /\ closed'[Target(t)'] /\ completed'[Target(t)'] = 0
          /\ \A u \in Thread \ {t} :
               Closing(u)' => /\ closed'[Target(u)'] /\ completed'[Target(u)'] = 0
                              /\ Target(u)' # Target(t)'
      <4>. HIDE DEF Target
      <4>. QED
        BY <2>1, <2>2, <3>1, <3>2, <3>3, <3>4, <3>5
    <3>7. \A r \in Stream : completed'[r] # 0 => closed'[r]
      BY <2>1, <3>2
    <3>8. \A u, v \in Thread \ {t} : Closing(u)' /\ Closing(v)' /\ Target(u)' = Target(v)' => u = v
      <4>. HIDE DEF Target
      <4>. QED
        BY <2>2
    <3>9. \A u \in Thread : Closing(u)' => closed'[Target(u)'] /\ completed'[Target(u)'] = 0
      BY <3>6
    <3>10. \A u, v \in Thread : Closing(u)' /\ Closing(v)' /\ Target(u)' = Target(v)' => u = v
      <4>1. \A v \in Thread : Closing(v)' /\ Target(v)' = Target(t)' => v = t
        BY <3>6
      <4>2. SUFFICES ASSUME NEW u \in Thread, NEW v \in Thread, Closing(u)', Closing(v)',
                            Target(u)' = Target(v)'
                     PROVE  u = v
        OBVIOUS
      <4>3. CASE u = t
        BY <4>1, <4>2, <4>3
      <4>4. CASE v = t
        BY <4>1, <4>2, <4>4
      <4>5. CASE u # t /\ v # t
        BY <3>8, <4>2, <4>5
      <4>. QED
        BY <4>3, <4>4, <4>5
    <3>. QED
      BY <3>7, <3>9, <3>10
  <2>. QED
    BY <2>3, <2>4
<1>4. ASSUME NEW t \in Thread, Unsubscribe(t) PROVE OneCloses'
  BY <1>4 DEF Unsubscribe, emitterVars
<1>5. ASSUME NEW t \in Thread, Complete(t) PROVE OneCloses'
  <2>1. Target(t) \in Stream /\ closed[Target(t)]
    BY <1>5, TargetFacts DEF Complete
  <2>2. /\ \A u \in Thread \ {t} : pc'[u] = pc[u] /\ Target(u)' = Target(u)
        /\ pc'[t] \in {"next", "done"} /\ UNCHANGED closed
    BY <1>5 DEF Complete, Leave
  <2>3. \A s \in Stream \ {Target(t)} : completed'[s] = completed[s]
    BY <1>5, <2>1 DEF Complete
  <2>4. \A u \in Thread \ {t} : Closing(u) => Target(u) # Target(t) /\ Target(u) \in Stream
    BY <1>5, TargetFacts DEF Complete
  <2>5. \A u \in Thread : Closing(u)' => u # t /\ Closing(u)
    BY <2>2
  <2>. HIDE DEF Target
  <2>. QED
    BY <2>1, <2>2, <2>3, <2>4, <2>5
<1>6. CASE UNCHANGED <<pc, todo, closed, completed>>
  BY <1>6
<1>. QED
  BY <1>1, <1>2, <1>3, <1>4, <1>5, <1>6
  DEF Next, Opens, Publishes, Closes, Subscribe, Reference, Initialise, ClientLeaves,
      vars, emitterVars

\* What is closed is out of the list, or its closer is about to take it out.
LEMMA ListedWhileClosingStep == Inv /\ [Next]_vars => ListedWhileClosing'
<1>. SUFFICES ASSUME Inv, [Next]_vars PROVE ListedWhileClosing'
  OBVIOUS
<1>. USE StreamAssumption DEF Types, Inv, ListedWhileClosing, Thread
<1>0. ASSUME \A u \in Thread : pc[u] = "unsubscribe" =>
                 pc'[u] = "unsubscribe" /\ Target(u)' = Target(u),
             UNCHANGED <<closed, subscribers>>
      PROVE  ListedWhileClosing'
  <2>. HIDE DEF Target
  <2>. QED
    BY <1>0
<1>1. ASSUME NEW s \in Stream, Subscribe(s) PROVE ListedWhileClosing'
  <2>1. s \notin Range(subscribers) /\ ~closed[s]
    BY <1>1 DEF Subscribe, SubscribedOnce, OpenedFirst
  <2>2. Range(subscribers') = Range(subscribers) \cup {s}
    BY <1>1, <2>1, AppendFacts DEF Subscribe, SubscribedOnce
  <2>3. UNCHANGED <<closed, pc, todo>>
    BY <1>1 DEF Subscribe
  <2>4. \A u \in Thread : Target(u)' = Target(u)
    BY <2>3 DEF Target
  <2>. HIDE DEF Target
  <2>. QED
    BY <2>1, <2>2, <2>3, <2>4
<1>2. ASSUME NEW p \in Publisher,
             Store(p) \/ Iterate(p) \/ PublishReturns(p) \/ Accept(p) \/ Send(p) \/ SendFails(p)
      PROVE  ListedWhileClosing'
  <2>1. \A u \in Thread \ {p} : pc'[u] = pc[u] /\ Target(u)' = Target(u)
    BY <1>2 DEF Store, Iterate, PublishReturns, Accept, Send, SendFails, Target
  <2>2. pc[p] # "unsubscribe" /\ UNCHANGED <<closed, subscribers>>
    BY <1>2 DEF Store, Iterate, PublishReturns, Accept, Send, SendFails
  <2>. HIDE DEF Target
  <2>. QED
    BY <1>0, <2>1, <2>2
<1>3. ASSUME NEW s \in Stream, Callback(s) PROVE ListedWhileClosing'
  BY <1>0, <1>3 DEF Callback, Target
<1>4. ASSUME NEW t \in Thread, CompareAndSet(t) PROVE ListedWhileClosing'
  <2>1. Target(t) \in Stream /\ UNCHANGED subscribers /\ pc[t] = "close"
    BY <1>4, TargetFacts DEF CompareAndSet
  <2>2. \A u \in Thread \ {t} : pc'[u] = pc[u] /\ Target(u)' = Target(u)
    BY <1>4 DEF CompareAndSet, Leave, Target
  <2>3. CASE closed[Target(t)]
    <3>1. UNCHANGED closed
      BY <1>4, <2>3 DEF CompareAndSet
    <3>. HIDE DEF Target
    <3>. QED
      BY <1>0, <2>1, <2>2, <3>1
  <2>4. CASE ~closed[Target(t)]
    <3>1. Target(t)' = Target(t) /\ pc'[t] = "unsubscribe"
      BY <1>4, <2>4 DEF CompareAndSet, Target
    <3>2. \A r \in Stream : closed'[r] => r = Target(t) \/ closed[r]
      BY <1>4, <2>4 DEF CompareAndSet
    <3>3. SUFFICES ASSUME NEW r \in Range(subscribers), closed'[r]
                   PROVE  \E u \in Thread : pc'[u] = "unsubscribe" /\ Target(u)' = r
      BY <2>1
    <3>. HIDE DEF Target
    <3>4. CASE r = Target(t)
      BY <3>1, <3>4
    <3>5. CASE r # Target(t)
      <4>1. closed[r]
        BY <3>2, <3>3, <3>5, RangeFacts
      <4>2. PICK u \in Thread : pc[u] = "unsubscribe" /\ Target(u) = r
        BY <4>1
      <4>. QED
        BY <2>1, <2>2, <4>2
    <3>. QED
      BY <3>4, <3>5
  <2>. QED
    BY <2>3, <2>4
<1>5. ASSUME NEW t \in Thread, Unsubscribe(t) PROVE ListedWhileClosing'
  <2>1. Target(t) \in Stream /\ phase[Target(t)] = "open" /\ UNCHANGED <<closed, todo>>
    BY <1>5, TargetFacts DEF Unsubscribe, OpenedFirst
  <2>2. Range(subscribers') = Range(subscribers) \ {Target(t)}
    BY <1>5, <2>1, WithoutFacts DEF Unsubscribe, Knows, SubscribedOnce
  <2>3. \A u \in Thread : Target(u)' = Target(u) /\ (u # t => pc'[u] = pc[u])
    BY <1>5, <2>1 DEF Unsubscribe, Target
  <2>. SUFFICES ASSUME NEW r \in Range(subscribers) \ {Target(t)}, closed[r]
                PROVE  \E u \in Thread : pc'[u] = "unsubscribe" /\ Target(u)' = r
    BY <2>1, <2>2
  <2>. HIDE DEF Target
  <2>4. PICK u \in Thread : pc[u] = "unsubscribe" /\ Target(u) = r
    OBVIOUS
  <2>5. u # t
    BY <2>4
  <2>. QED
    BY <2>3, <2>4, <2>5
<1>6. ASSUME NEW t \in Thread, Complete(t) PROVE ListedWhileClosing'
  <2>1. /\ \A u \in Thread \ {t} : pc'[u] = pc[u] /\ Target(u)' = Target(u)
        /\ pc[t] # "unsubscribe" /\ UNCHANGED <<closed, subscribers>>
    BY <1>6 DEF Complete, Leave, Target
  <2>. HIDE DEF Target
  <2>. QED
    BY <1>0, <2>1
<1>7. CASE UNCHANGED <<pc, todo, closed, subscribers>>
  BY <1>0, <1>7 DEF Target
<1>. QED
  BY <1>1, <1>2, <1>3, <1>4, <1>5, <1>6, <1>7
  DEF Next, Opens, Publishes, Closes, Reference, Initialise, ClientLeaves, vars, emitterVars

\* An emitter is completed once: its closer found it uncompleted.
LEMMA CompletedOnceStep == Inv /\ [Next]_vars => \A s \in Stream : completed'[s] <= 1
<1>. SUFFICES ASSUME Inv, [Next]_vars PROVE \A s \in Stream : completed'[s] <= 1
  OBVIOUS
<1>. USE DEF Types, Inv
<1>1. ASSUME NEW t \in Thread, Complete(t) PROVE \A s \in Stream : completed'[s] <= 1
  <2>1. Target(t) \in Stream /\ completed[Target(t)] = 0
    BY <1>1, TargetFacts DEF Complete, OneCloses, Closing
  <2>2. completed' = [completed EXCEPT ![Target(t)] = @ + 1]
    BY <1>1 DEF Complete
  <2>. HIDE DEF Target
  <2>. QED
    BY <2>1, <2>2
<1>2. CASE UNCHANGED completed
  BY <1>2
<1>. QED
  BY <1>1, <1>2
  DEF Next, Opens, Publishes, Closes, Subscribe, Reference, Initialise, ClientLeaves, Store,
      Iterate, PublishReturns, Accept, Send, SendFails, Callback, CompareAndSet, Unsubscribe,
      vars, emitterVars

LEMMA InvStep == Inv /\ [Next]_vars => Inv'
BY TypesStep, HasTargetStep, OpenedFirstStep, SubscribedOnceStep, OneClosesStep,
   ListedWhileClosingStep, CompletedOnceStep DEF Inv

\* Who has not begun to complete a stream has not completed it: the invariant
\* gives what is promised.
LEMMA InvClosedOnceAndGone == Inv => ClosedOnceAndGone
<1>. SUFFICES ASSUME Inv PROVE ClosedOnceAndGone
  OBVIOUS
<1>1. ClosedStreamsHaveLeft
  BY DEF Inv, ListedWhileClosing, ClosedStreamsHaveLeft
<1>2. ASSUME NEW s \in Stream, completed[s] = 1 PROVE s \notin Range(subscribers)
  <2>1. closed[s]
    BY <1>2 DEF Inv, OneCloses
  <2>2. ASSUME s \in Range(subscribers) PROVE FALSE
    <3>1. PICK t \in Thread : pc[t] = "unsubscribe" /\ Target(t) = s
      BY <2>1, <2>2 DEF Inv, ListedWhileClosing
    <3>2. completed[s] = 0
      BY <3>1 DEF Inv, OneCloses, Closing
    <3>. QED
      BY <1>2, <3>2
  <2>. QED
    BY <2>2
<1>3. CompletedOnce
  BY <1>2 DEF Inv, CompletedOnce
<1>. QED
  BY <1>1, <1>3 DEF ClosedOnceAndGone

\* closeGracefully() works however many threads find at once that a client is
\* gone: the stream leaves the bus, and its emitter is completed after that and
\* only once.
THEOREM StreamClosedOnceAndGone == Spec => []ClosedOnceAndGone
<1>1. Spec => []Inv
  BY InitInv, InvStep, PTL DEF Spec
<1>. QED
  BY <1>1, InvClosedOnceAndGone, PTL

-----------------------------------------------------------------------------
(* A stream that works misses nothing. *)

\* The stream has subscribed, no send has failed, and nobody closes it.
Working(s) == phase[s] # "new" /\ ~closed[s] /\ ~broken[s]

\* The packets of one publisher after the first from, up to the one numbered to.
Packets(from, to) == [i \in 1..(to - from) |-> from + i]

\* How far stream s has been served by publisher p: the packet under way is
\* still due while the publisher has not taken the subscribers or not yet
\* reached this one.
Served(s, p) == IF pc[p] = "stored" \/ s \in Range(todo[p]) THEN stored[p] - 1 ELSE stored[p]

\* What else is needed of the variables' types.
CountTypes ==
  /\ sent \in [Stream -> [Publisher -> Seq(Nat)]]
  /\ stored \in [Publisher -> Nat] /\ joined \in [Stream -> [Publisher -> Nat]]

\* A publisher calls a subscriber once for each packet.
CalledOnce ==
  \A p \in Publisher :
    /\ IsInjective(todo[p])
    /\ \A s \in Range(todo[p]) : phase[s] # "new"
    /\ pc[p] \in {"idle", "stored"} => todo[p] = <<>>

\* A stream that works is in the bus's list, and nobody is about to close it.
WorkingIsListed ==
  /\ \A s \in Stream : Working(s) => s \in Range(subscribers)
  /\ \A t \in Thread : pc[t] \in {"close", "unsubscribe", "complete"} => ~Working(Target(t))

\* A stream that works has been sent what it was served, from the packet that
\* was stored when it subscribed on; a new one has been sent nothing.
GotAll ==
  \A s \in Stream, p \in Publisher :
    /\ phase[s] = "new" => sent[s][p] = <<>>
    /\ Working(s) => \E from \in {joined[s][p], joined[s][p] - 1} :
                       from <= Served(s, p) /\ sent[s][p] = Packets(from, Served(s, p))

Delivery == CountTypes /\ CalledOnce /\ WorkingIsListed /\ GotAll

\* One packet more.
LEMMA PacketsAppend ==
  ASSUME NEW from \in Int, NEW n \in Int, from < n
  PROVE  Append(Packets(from, n - 1), n) = Packets(from, n)
<1>. DEFINE q == Packets(from, n - 1)
            k == n - 1 - from
<1>1. k \in Nat /\ q \in [1..k -> Int]
  BY DEF Packets
<1>2. q \in Seq(Int) /\ Len(q) = k
  BY <1>1
<1>3. \A i \in 1..k : q[i] = from + i
  BY DEF Packets
<1>. HIDE DEF q
<1>4. /\ Append(q, n) \in Seq(Int) /\ Len(Append(q, n)) = k + 1
      /\ \A i \in 1..k : Append(q, n)[i] = q[i]
      /\ Append(q, n)[k + 1] = n
  BY <1>2
<1>5. Append(q, n) = [i \in 1..(k + 1) |-> Append(q, n)[i]]
  <2>. DEFINE a == Append(q, n)
  <2>1. \A x \in Seq(Int) : x \in [1..Len(x) -> Int]
    OBVIOUS
  <2>. HIDE DEF a
  <2>2. a \in [1..(k + 1) -> Int]
    BY <1>4, <2>1 DEF a
  <2>3. a = [i \in 1..(k + 1) |-> a[i]]
    BY <2>2
  <2>. QED
    BY <2>3 DEF a
<1>6. \A i \in 1..(k + 1) : Append(q, n)[i] = from + i
  BY <1>1, <1>3, <1>4
<1>7. k + 1 = n - from
  OBVIOUS
<1>. QED
  BY <1>5, <1>6, <1>7 DEF q, Packets

\* The list without its first element, when it has nothing twice.
LEMMA TailOnce ==
  ASSUME NEW q \in Seq(Stream), q # <<>>, IsInjective(q)
  PROVE  /\ Tail(q) \in Seq(Stream) /\ IsInjective(Tail(q))
         /\ Range(Tail(q)) = Range(q) \ {Head(q)} /\ Head(q) \in Range(q)
<1>1. /\ Tail(q) \in Seq(Stream) /\ Head(q) = q[1] /\ Len(q) \in Nat /\ Len(q) >= 1
      /\ DOMAIN q = 1..Len(q) /\ DOMAIN Tail(q) = 1..(Len(q) - 1)
      /\ \A i \in 1..(Len(q) - 1) : Tail(q)[i] = q[i + 1]
  OBVIOUS
<1>2. \A i, j \in 1..Len(q) : q[i] = q[j] => i = j
  BY <1>1 DEF IsInjective
<1>3. IsInjective(Tail(q))
  BY <1>1, <1>2 DEF IsInjective
<1>4. \A x \in Range(Tail(q)) : x \in Range(q) \ {Head(q)}
  BY <1>1, <1>2 DEF Range
<1>5. ASSUME NEW x \in Range(q) \ {Head(q)} PROVE x \in Range(Tail(q))
  <2>1. PICK i \in 1..Len(q) : q[i] = x /\ i # 1
    BY <1>1, <1>5 DEF Range
  <2>2. i - 1 \in 1..(Len(q) - 1) /\ Tail(q)[i - 1] = x
    BY <1>1, <2>1
  <2>. QED
    BY <1>1, <2>2 DEF Range
<1>6. Head(q) \in Range(q)
  BY <1>1 DEF Range
<1>. QED
  BY <1>1, <1>3, <1>4, <1>5, <1>6

\* A stream works from its subscription on, until it never works again.
LEMMA WorkingStep ==
  ASSUME Inv, [Next]_vars, NEW s \in Stream
  PROVE  /\ Working(s)' => Working(s) \/ Subscribe(s)
         /\ phase[s] # "new" => phase'[s] # "new"
         /\ phase'[s] # "new" => phase[s] # "new" \/ Subscribe(s)
<1>. USE DEF Inv, Types
<1>1. /\ phase[s] # "new" => phase'[s] # "new"
      /\ phase'[s] # "new" => phase[s] # "new" \/ Subscribe(s)
  BY DEF Next, Opens, Publishes, Closes, Subscribe, Reference, Initialise, ClientLeaves, Store,
     Iterate, Accept, Send, SendFails, PublishReturns, Callback, CompareAndSet, Unsubscribe,
     Complete, vars
<1>2. closed[s] => closed'[s]
  BY DEF Next, Opens, Publishes, Closes, Subscribe, Reference, Initialise, ClientLeaves, Store,
     Iterate, Accept, Send, SendFails, PublishReturns, Callback, CompareAndSet, Unsubscribe,
     Complete, vars
<1>3. broken[s] => broken'[s]
  BY DEF Next, Opens, Publishes, Closes, Subscribe, Reference, Initialise, ClientLeaves, Store,
     Iterate, Accept, Send, SendFails, PublishReturns, Callback, CompareAndSet, Unsubscribe,
     Complete, vars, emitterVars
<1>. QED
  BY <1>1, <1>2, <1>3 DEF Working

\* What a step does to the list of one publisher: it is filled from the bus's
\* list, or loses its first stream, which was served or does not work.
Fills(p) == pc[p] = "stored" /\ pc'[p] = "next" /\ todo'[p] = subscribers
Drops(p) == todo[p] # <<>> /\ todo'[p] = Tail(todo[p]) /\ pc'[p] = "next"
Keeps(p) == /\ todo'[p] = todo[p] /\ (pc'[p] = "stored" <=> pc[p] = "stored")
            /\ (pc'[p] = "idle" => pc[p] = "idle" \/ todo[p] = <<>>)

LEMMA TodoStep ==
  ASSUME Inv, Delivery, [Next]_vars, NEW p \in Publisher
  PROVE  \/ Store(p) /\ todo' = todo
         \/ Fills(p) /\ ~Send(p)
         \/ Drops(p) /\ (Send(p) \/ ~Working(Head(todo[p])))
         \/ Keeps(p) /\ ~Send(p)
<1>. USE StreamAssumption DEF Inv, Types, Thread
<1>. DEFINE Goal == \/ Store(p) /\ todo' = todo
                    \/ Fills(p) /\ ~Send(p)
                    \/ Drops(p) /\ (Send(p) \/ ~Working(Head(todo[p])))
                    \/ Keeps(p) /\ ~Send(p)
<1>1. ASSUME NEW s \in Stream, Subscribe(s) \/ Reference(s) \/ Initialise(s) \/ ClientLeaves(s)
      PROVE  Goal
  <2>1. UNCHANGED <<pc, todo, stored>>
    BY <1>1 DEF Subscribe, Reference, Initialise, ClientLeaves
  <2>2. ~Send(p)
    BY <2>1 DEF Send
  <2>. QED
    BY <2>1, <2>2 DEF Keeps
<1>2. ASSUME NEW s \in Stream, Callback(s) PROVE Goal
  BY <1>2 DEF Callback, Keeps, Send
<1>3. ASSUME NEW q \in Publisher, q # p, Store(q) \/ Publishes(q) PROVE Goal
  <2>1. todo'[p] = todo[p] /\ pc'[p] = pc[p]
    BY <1>3 DEF Store, Publishes, Iterate, Accept, Send, SendFails, PublishReturns
  <2>2. ~Send(p)
    BY <2>1 DEF Send
  <2>. QED
    BY <2>1, <2>2 DEF Keeps
<1>4. ASSUME NEW u \in Thread, u # p, Closes(u) PROVE Goal
  <2>1. todo'[p] = todo[p] /\ pc'[p] = pc[p]
    BY <1>4 DEF Closes, CompareAndSet, Unsubscribe, Complete, Leave
  <2>2. ~Send(p)
    BY <2>1 DEF Send
  <2>. QED
    BY <2>1, <2>2 DEF Keeps
<1>5. ASSUME Store(p) PROVE Goal
  BY <1>5 DEF Store
<1>6. ASSUME Iterate(p) PROVE Goal
  BY <1>6 DEF Iterate, Fills, Send
<1>7. ASSUME Accept(p) PROVE Goal
  BY <1>7 DEF Accept, Drops, Keeps, Send, Working
<1>8. ASSUME Send(p) PROVE Goal
  BY <1>8, SendFacts DEF Send, Drops
<1>9. ASSUME SendFails(p) \/ PublishReturns(p) PROVE Goal
  BY <1>9 DEF SendFails, PublishReturns, Keeps, Send
<1>10. ASSUME CompareAndSet(p) \/ Unsubscribe(p) \/ Complete(p) PROVE Goal
  <2>1. pc[p] \in {"close", "unsubscribe", "complete"}
    BY <1>10 DEF CompareAndSet, Unsubscribe, Complete
  <2>2. /\ todo[p] # <<>> /\ Target(p) = Head(todo[p]) /\ ~Working(Target(p)) /\ ~Send(p)
    BY <2>1, TargetFacts DEF Delivery, WorkingIsListed, Target, Send
  <2>3. \/ Leave(p)
        \/ todo' = todo /\ \E q \in {"unsubscribe", "complete"} : pc' = [pc EXCEPT ![p] = q]
    BY <1>10 DEF CompareAndSet, Unsubscribe, Complete
  <2>. QED
    BY <2>1, <2>2, <2>3 DEF Leave, Drops, Keeps
<1>11. ASSUME UNCHANGED vars PROVE Goal
  BY <1>11 DEF vars, Keeps, Send
<1>. HIDE DEF Goal
<1>12. ASSUME NEW q \in Publisher, Store(q) \/ Publishes(q) PROVE Goal
  <2>1. CASE q = p
    BY <1>5, <1>6, <1>7, <1>8, <1>9, <1>12, <2>1 DEF Publishes
  <2>. QED
    BY <1>3, <1>12, <2>1
<1>13. ASSUME NEW u \in Thread, Closes(u) PROVE Goal
  <2>1. CASE u = p
    BY <1>10, <1>13, <2>1 DEF Closes
  <2>. QED
    BY <1>4, <1>13, <2>1
<1>14. Goal
  BY <1>1, <1>2, <1>11, <1>12, <1>13 DEF Next, Opens
<1>. QED
  BY <1>14 DEF Goal

\* Packets are numbered, and accepted in sequences.
LEMMA CountTypesStep == Inv /\ CountTypes /\ [Next]_vars => CountTypes'
<1>. SUFFICES ASSUME Inv, CountTypes, [Next]_vars PROVE CountTypes'
  OBVIOUS
<1>. USE DEF CountTypes
<1>1. ASSUME NEW p \in Publisher, Send(p) PROVE CountTypes'
  <2>1. Append(sent[Head(todo[p])][p], stored[p]) \in Seq(Nat)
    BY <1>1, SendFacts DEF Send
  <2>. QED
    BY <1>1, <2>1, SendFacts DEF Send
<1>2. ASSUME NEW p \in Publisher, Store(p) PROVE CountTypes'
  BY <1>2 DEF Store, emitterVars
<1>3. ASSUME NEW s \in Stream, Subscribe(s) PROVE CountTypes'
  BY <1>3 DEF Subscribe, emitterVars
<1>4. CASE UNCHANGED <<sent, stored, joined>>
  BY <1>4
<1>. QED
  BY <1>1, <1>2, <1>3, <1>4
  DEF Next, Opens, Publishes, Closes, Reference, Initialise, ClientLeaves,
     Iterate, Accept, SendFails, PublishReturns, Callback, CompareAndSet, Unsubscribe,
     Complete, vars, emitterVars

\* A publisher takes the list of the bus, which has no stream twice.
LEMMA CalledOnceStep == Inv /\ Delivery /\ [Next]_vars => CalledOnce'
<1>. SUFFICES ASSUME Inv, Delivery, [Next]_vars, NEW p \in Publisher
              PROVE  /\ IsInjective(todo'[p])
                     /\ \A s \in Range(todo'[p]) : phase'[s] # "new"
                     /\ pc'[p] \in {"idle", "stored"} => todo'[p] = <<>>
  BY DEF CalledOnce
<1>1. /\ todo[p] \in Seq(Stream) /\ IsInjective(todo[p])
      /\ \A s \in Range(todo[p]) : phase[s] # "new"
      /\ pc[p] \in {"idle", "stored"} => todo[p] = <<>>
      /\ subscribers \in Seq(Stream) /\ IsInjective(subscribers)
      /\ \A s \in Range(subscribers) : phase[s] # "new"
  BY DEF Inv, Types, Delivery, CalledOnce, SubscribedOnce
<1>2. \A s \in Stream : phase[s] # "new" => phase'[s] # "new"
  BY WorkingStep
<1>3. CASE todo'[p] = todo[p] /\ (pc'[p] \in {"idle", "stored"} => todo[p] = <<>>)
  BY <1>1, <1>2, <1>3, RangeFacts
<1>4. CASE Fills(p)
  BY <1>1, <1>2, <1>4, RangeFacts DEF Fills
<1>5. CASE Drops(p)
  <2>1. /\ IsInjective(Tail(todo[p])) /\ Range(Tail(todo[p])) \subseteq Range(todo[p])
        /\ Tail(todo[p]) \in Seq(Stream)
    BY <1>1, <1>5, TailOnce DEF Drops
  <2>. QED
    BY <1>1, <1>2, <1>5, <2>1, RangeFacts DEF Drops
<1>6. CASE Store(p) /\ todo' = todo
  BY <1>1, <1>3, <1>6 DEF Store
<1>7. CASE Keeps(p)
  BY <1>1, <1>3, <1>7 DEF Keeps
<1>. QED
  BY <1>4, <1>5, <1>6, <1>7, TodoStep

\* A thread begins to close a stream after its send failed, or in a callback.
LEMMA BeginsToClose ==
  ASSUME Inv, [Next]_vars, NEW t \in Thread, pc'[t] \in {"close", "unsubscribe", "complete"}
  PROVE  \/ /\ pc[t] \in {"close", "unsubscribe", "complete"} /\ Target(t)' = Target(t)
         \/ t \in Publisher /\ SendFails(t)
         \/ t \in Stream /\ Callback(t)
<1>. USE StreamAssumption DEF Inv, Types, Thread, Target
<1>1. ASSUME NEW s \in Stream, Callback(s) \/ UNCHANGED <<pc, todo>>
      PROVE  \/ pc'[t] = pc[t] /\ Target(t)' = Target(t)
             \/ t \in Stream /\ Callback(t)
  <2>1. todo' = todo /\ (s # t => pc'[t] = pc[t])
    BY <1>1 DEF Callback
  <2>2. ASSUME s = t, Callback(s) PROVE Callback(t)
    BY <2>2 DEF Callback
  <2>3. pc' = pc \/ Callback(s)
    BY <1>1
  <2>4. Target(t)' = Target(t)
    BY <2>1
  <2>5. CASE s = t
    BY <2>2, <2>3, <2>4, <2>5
  <2>6. CASE s # t
    BY <2>1, <2>4, <2>6
  <2>. QED
    BY <2>5, <2>6
<1>2. ASSUME NEW p \in Publisher,
             Store(p) \/ Iterate(p) \/ Accept(p) \/ Send(p) \/ SendFails(p) \/ PublishReturns(p)
      PROVE  \/ pc'[t] = pc[t] /\ Target(t)' = Target(t)
             \/ t \in Publisher /\ SendFails(t)
  BY <1>2 DEF Store, Iterate, Accept, Send, SendFails, PublishReturns
<1>3. ASSUME NEW u \in Thread, CompareAndSet(u) \/ Unsubscribe(u) \/ Complete(u)
      PROVE  pc[t] \in {"close", "unsubscribe", "complete"} /\ Target(t)' = Target(t)
  BY <1>3 DEF CompareAndSet, Unsubscribe, Complete, Leave
<1>4. CASE UNCHANGED <<pc, todo>>
  BY <1>4
<1>. QED
  BY <1>1, <1>2, <1>3, <1>4
  DEF Next, Opens, Publishes, Closes, Subscribe, Reference, Initialise, ClientLeaves,
      vars, emitterVars

\* A stream leaves the list only once it is closed, and a thread begins to
\* close it only after a send to it has failed.
LEMMA WorkingIsListedStep == Inv /\ Delivery /\ [Next]_vars => WorkingIsListed'
<1>. SUFFICES ASSUME Inv, Delivery, [Next]_vars PROVE WorkingIsListed'
  OBVIOUS
<1>1. ASSUME NEW s \in Stream, Working(s)' PROVE s \in Range(subscribers')
  <2>1. (Working(s) /\ s \in Range(subscribers)) \/ Subscribe(s)
    BY <1>1, WorkingStep DEF Delivery, WorkingIsListed
  <2>2. subscribers \in Seq(Stream) /\ IsInjective(subscribers)
    BY DEF Inv, Types, SubscribedOnce
  <2>3. ASSUME NEW r \in Stream, Subscribe(r) PROVE s \in Range(subscribers')
    <3>1. r \notin Range(subscribers) /\ subscribers' = Append(subscribers, r)
      BY <2>3 DEF Subscribe, Inv, SubscribedOnce
    <3>2. Range(subscribers') = Range(subscribers) \cup {r}
      BY <2>2, <3>1, AppendFacts
    <3>3. CASE Subscribe(s)
      <4>1. s = r
        <5>1. phase[s] = "new" /\ phase'[s] = "subscribed"
          BY <3>3 DEF Subscribe, Inv, Types
        <5>2. phase' = [phase EXCEPT ![r] = "subscribed"]
          BY <2>3 DEF Subscribe
        <5>. QED
          BY <5>1, <5>2 DEF Inv, Types
      <4>. QED
        BY <3>2, <4>1
    <3>. QED
      BY <2>1, <3>2, <3>3
  <2>4. ASSUME NEW t \in Thread, Unsubscribe(t) PROVE s \in Range(subscribers')
    <3>1. Target(t) \in Stream /\ closed[Target(t)] /\ closed' = closed /\ phase' = phase
      BY <2>4, TargetFacts DEF Unsubscribe, Inv, OneCloses, Closing
    <3>2. s # Target(t) /\ s \in Range(subscribers)
      BY <1>1, <2>1, <3>1 DEF Working, Subscribe, Inv, Types
    <3>3. Range(Without(Target(t))) = Range(subscribers) \ {Target(t)}
      BY <2>2, <3>1, WithoutFacts
    <3>. QED
      BY <2>4, <3>2, <3>3 DEF Unsubscribe
  <2>5. CASE UNCHANGED subscribers /\ ~Subscribe(s)
    BY <2>1, <2>5
  <2>6. UNCHANGED subscribers => ~Subscribe(s)
    BY <2>2 DEF Subscribe
  <2>. QED
    BY <2>3, <2>4, <2>5, <2>6
    DEF Next, Opens, Publishes, Closes, Reference, Initialise, ClientLeaves, Store,
        Iterate, Accept, Send, SendFails, PublishReturns, Callback, CompareAndSet,
        Complete, vars, emitterVars
<1>2. ASSUME NEW t \in Thread, pc'[t] \in {"close", "unsubscribe", "complete"}
      PROVE  ~Working(Target(t))'
  <2>. DEFINE s == Target(t)
  <2>1. CASE pc[t] \in {"close", "unsubscribe", "complete"} /\ Target(t)' = Target(t)
    <3>1. s \in Stream /\ phase[s] = "open" /\ ~Working(s)
      BY <2>1, TargetFacts DEF Inv, OpenedFirst, Delivery, WorkingIsListed
    <3>2. ASSUME NEW r \in Stream, r = s PROVE ~Working(r)'
      BY <3>1, <3>2, WorkingStep DEF Subscribe
    <3>3. phase'[s] = "new" \/ closed'[s] \/ broken'[s]
      BY <3>1, <3>2 DEF Working
    <3>. QED
      BY <2>1, <3>3 DEF Working
  <2>2. CASE t \in Publisher /\ SendFails(t)
    <3>. DEFINE r == Head(todo[t])
    <3>1. r \in Stream /\ todo' = todo /\ closed' = closed /\ Target(t)' = r
      BY <2>2, SendFacts DEF SendFails, Target
    <3>2. broken'[r] \/ closed[r]
      <4>1. completed[r] = 0 => broken'[r]
        BY <2>2, <3>1 DEF SendFails, Inv, Types
      <4>. QED
        BY <3>1, <4>1 DEF Inv, OneCloses
    <3>. HIDE DEF r
    <3>. QED
      BY <3>1, <3>2 DEF Working
  <2>3. CASE t \in Stream /\ Callback(t)
    <3>1. closed' = closed /\ broken' = broken /\ Target(t)' = t
      BY <2>3, StreamAssumption DEF Callback, emitterVars, Target
    <3>2. broken[t] \/ closed[t]
      BY <2>3 DEF Callback, Refuses, Inv, OneCloses, Types
    <3>. QED
      BY <3>1, <3>2 DEF Working
  <2>. QED
    BY <1>2, <2>1, <2>2, <2>3, BeginsToClose
<1>. QED
  BY <1>1, <1>2 DEF WorkingIsListed

\* What a publisher has served a stream changes only when it stores a packet,
\* which is not served yet, and when it sends this stream one.
LEMMA ServedStep ==
  ASSUME Inv, Delivery, [Next]_vars, NEW s \in Stream, NEW p \in Publisher,
         Working(s), Working(s)'
  PROVE  /\ ~Send(p) \/ s # Head(todo[p]) => Served(s, p)' = Served(s, p)
         /\ Send(p) /\ s = Head(todo[p]) =>
              Served(s, p) = stored[p] - 1 /\ Served(s, p)' = stored[p]
<1>. DEFINE before == pc[p] = "stored" \/ s \in Range(todo[p])
            after == pc'[p] = "stored" \/ s \in Range(todo'[p])
<1>1. /\ todo[p] \in Seq(Stream) /\ IsInjective(todo[p]) /\ stored[p] \in Nat
      /\ stored \in [Publisher -> Nat] /\ pc \in [Thread -> Place] /\ p \in Thread
      /\ pc[p] \in {"idle", "stored"} => todo[p] = <<>>
      /\ s \in Range(subscribers)
  BY DEF Inv, Types, Delivery, CalledOnce, CountTypes, WorkingIsListed, Thread
<1>2. stored'[p] = stored[p] \/ Store(p)
  BY <1>1 DEF Next, Opens, Publishes, Closes, Subscribe, Reference, Initialise, ClientLeaves,
     Store, Iterate, Accept, Send, SendFails, PublishReturns, Callback, CompareAndSet,
     Unsubscribe, Complete, vars
<1>3. CASE Store(p) /\ todo' = todo
  <2>1. /\ ~before /\ after /\ stored'[p] = stored[p] + 1 /\ ~Send(p)
    BY <1>1, <1>3 DEF Store, Send, Range
  <2>. QED
    BY <1>1, <2>1 DEF Served
<1>4. CASE Fills(p) /\ ~Send(p)
  <2>1. before /\ after /\ ~Store(p)
    BY <1>1, <1>4 DEF Fills, Store
  <2>. QED
    BY <1>2, <1>4, <2>1 DEF Served
<1>5. CASE Drops(p) /\ (Send(p) \/ ~Working(Head(todo[p])))
  <2>1. /\ Range(Tail(todo[p])) = Range(todo[p]) \ {Head(todo[p])}
        /\ Head(todo[p]) \in Range(todo[p])
    BY <1>1, <1>5, TailOnce DEF Drops
  <2>2. pc[p] # "stored" /\ pc'[p] # "stored" /\ ~Store(p)
    BY <1>1, <1>5 DEF Drops, Store
  <2>3. CASE s = Head(todo[p])
    <3>1. before /\ ~after /\ Send(p)
      BY <1>5, <2>1, <2>2, <2>3 DEF Drops
    <3>. QED
      BY <1>2, <2>2, <2>3, <3>1 DEF Served
  <2>4. CASE s # Head(todo[p])
    <3>1. before <=> after
      BY <1>5, <2>1, <2>2, <2>4 DEF Drops
    <3>. QED
      BY <1>2, <2>2, <2>4, <3>1 DEF Served
  <2>. QED
    BY <2>3, <2>4
<1>6. CASE Keeps(p) /\ ~Send(p)
  <2>1. (before <=> after) /\ ~Store(p)
    BY <1>1, <1>6 DEF Keeps, Store
  <2>. QED
    BY <1>2, <1>6, <2>1 DEF Served
<1>. QED
  BY <1>3, <1>4, <1>5, <1>6, TodoStep

\* What one publisher's packets an emitter has accepted changes only when that
\* publisher sends it one.
LEMMA SentStep ==
  ASSUME Inv, Delivery, [Next]_vars, NEW s \in Stream, NEW p \in Publisher
  PROVE  /\ ~(Send(p) /\ s = Head(todo[p])) => sent'[s][p] = sent[s][p]
         /\ Send(p) /\ s = Head(todo[p]) => sent'[s][p] = Append(sent[s][p], stored[p])
         /\ ~Subscribe(s) => joined'[s] = joined[s]
<1>. USE DEF Delivery, CountTypes
<1>1. ASSUME NEW q \in Publisher, Send(q)
      PROVE  /\ sent' = [sent EXCEPT ![Head(todo[q])][q] = Append(@, stored[q])]
             /\ joined' = joined /\ Head(todo[q]) \in Stream
  BY <1>1, SendFacts DEF Send
<1>2. ASSUME NEW q \in Publisher, Send(q), Send(p) PROVE q = p
  <2>1. pc[q] = "send" /\ pc[p] = "send" /\ q \in Thread /\ p \in Thread
    BY <1>2 DEF Send, Thread
  <2>2. pc' = [pc EXCEPT ![q] = "next"] /\ pc' = [pc EXCEPT ![p] = "next"]
    BY <1>2 DEF Send
  <2>. QED
    BY <2>1, <2>2 DEF Inv, Types
<1>3. ASSUME NEW q \in Publisher, Send(q) PROVE
         /\ ~(Send(p) /\ s = Head(todo[p])) => sent'[s][p] = sent[s][p]
         /\ Send(p) /\ s = Head(todo[p]) => sent'[s][p] = Append(sent[s][p], stored[p])
         /\ joined'[s] = joined[s]
  <2>1. CASE q = p
    <3>1. Send(p)
      BY <1>3, <2>1 DEF Send
    <3>2. sent' = [sent EXCEPT ![Head(todo[p])][p] = Append(@, stored[p])] /\ joined' = joined
      BY <1>1, <3>1
    <3>. QED
      BY <3>1, <3>2
  <2>2. CASE q # p
    <3>1. ~Send(p)
      BY <1>2, <1>3, <2>2
    <3>2. sent' = [sent EXCEPT ![Head(todo[q])][q] = Append(@, stored[q])] /\ joined' = joined
      BY <1>1, <1>3
    <3>3. sent'[s][p] = sent[s][p]
      BY <2>2, <3>2
    <3>. QED
      BY <3>1, <3>2, <3>3
  <2>. QED
    BY <2>1, <2>2
<1>4. ASSUME NEW r \in Stream, Subscribe(r)
      PROVE  sent' = sent /\ joined' = [joined EXCEPT ![r] = stored] /\ (r = s => Subscribe(s))
  <2>1. sent' = sent /\ joined' = [joined EXCEPT ![r] = stored]
    BY <1>4 DEF Subscribe, emitterVars
  <2>2. r = s => Subscribe(s)
    BY <1>4 DEF Subscribe
  <2>. QED
    BY <2>1, <2>2
<1>5. \/ \E q \in Publisher : Send(q)
      \/ \E r \in Stream : Subscribe(r)
      \/ UNCHANGED <<sent, joined>>
  BY DEF Next, Opens, Publishes, Closes, Reference, Initialise, ClientLeaves,
     Store, Iterate, Accept, SendFails, PublishReturns, Callback, CompareAndSet,
     Unsubscribe, Complete, vars, emitterVars
<1>6. CASE ~Send(p)
  <2>1. CASE \E r \in Stream : Subscribe(r)
    BY <1>4, <1>6, <2>1
  <2>2. CASE UNCHANGED <<sent, joined>>
    BY <1>6, <2>2
  <2>. QED
    BY <1>3, <1>5, <2>1, <2>2
<1>. QED
  BY <1>3, <1>6

\* A stream that works has been sent all it was served: the one step that
\* serves it a packet sends it that packet.
LEMMA GotAllStep == Inv /\ Delivery /\ [Next]_vars => GotAll'
<1>. SUFFICES ASSUME Inv, Delivery, [Next]_vars, NEW s \in Stream, NEW p \in Publisher
              PROVE  /\ phase'[s] = "new" => sent'[s][p] = <<>>
                     /\ Working(s)' => \E from \in {joined'[s][p], joined'[s][p] - 1} :
                           from <= Served(s, p)' /\ sent'[s][p] = Packets(from, Served(s, p)')
  BY DEF GotAll
<1>. USE DEF Delivery, CountTypes
<1>1. /\ todo[p] \in Seq(Stream) /\ stored[p] \in Nat /\ joined[s][p] \in Nat
      /\ phase[s] = "new" => sent[s][p] = <<>> /\ s \notin Range(todo[p])
      /\ Working(s) => \E from \in {joined[s][p], joined[s][p] - 1} :
                         from <= Served(s, p) /\ sent[s][p] = Packets(from, Served(s, p))
  BY DEF Inv, Types, CalledOnce, GotAll
<1>2. Send(p) /\ s = Head(todo[p]) => phase[s] # "new"
  BY SendFacts, TailOnce DEF Send, CalledOnce
<1>3. phase'[s] = "new" => sent'[s][p] = <<>>
  BY <1>1, <1>2, SentStep, WorkingStep
<1>4. ASSUME Subscribe(s), Working(s)'
      PROVE  \E from \in {joined'[s][p], joined'[s][p] - 1} :
               from <= Served(s, p)' /\ sent'[s][p] = Packets(from, Served(s, p)')
  <2>1. /\ joined'[s][p] = stored[p] /\ stored' = stored /\ pc' = pc /\ todo' = todo
        /\ sent' = sent /\ phase[s] = "new"
    BY <1>4 DEF Subscribe, emitterVars
  <2>2. \A n \in Nat : Packets(n, n) = <<>> /\ Packets(n - 1, n - 1) = <<>>
    BY DEF Packets
  <2>3. Served(s, p)' \in {stored[p], stored[p] - 1}
    BY <2>1 DEF Served
  <2>. QED
    BY <1>1, <2>1, <2>2, <2>3
<1>5. ASSUME Working(s), Working(s)', ~Subscribe(s)
      PROVE  \E from \in {joined'[s][p], joined'[s][p] - 1} :
               from <= Served(s, p)' /\ sent'[s][p] = Packets(from, Served(s, p)')
  <2>1. PICK from \in {joined[s][p], joined[s][p] - 1} :
               from <= Served(s, p) /\ sent[s][p] = Packets(from, Served(s, p))
    BY <1>1, <1>5
  <2>2. joined'[s] = joined[s]
    BY <1>5, SentStep
  <2>3. CASE Send(p) /\ s = Head(todo[p])
    <3>1. Served(s, p) = stored[p] - 1 /\ Served(s, p)' = stored[p]
      BY <1>5, <2>3, ServedStep
    <3>2. sent'[s][p] = Append(sent[s][p], stored[p])
      BY <2>3, SentStep
    <3>3. Append(Packets(from, stored[p] - 1), stored[p]) = Packets(from, stored[p])
      <4>1. from \in Int /\ stored[p] \in Int /\ from < stored[p]
        BY <1>1, <2>1, <3>1
      <4>. QED
        BY <4>1, PacketsAppend
    <3>4. /\ from \in {joined'[s][p], joined'[s][p] - 1} /\ from <= Served(s, p)'
          /\ sent'[s][p] = Packets(from, Served(s, p)')
      <4>1. from \in {joined'[s][p], joined'[s][p] - 1}
        BY <2>1, <2>2
      <4>2. from <= stored[p]
        BY <1>1, <2>1, <3>1
      <4>. QED
        BY <2>1, <3>1, <3>2, <3>3, <4>1, <4>2
    <3>. QED
      BY <3>4
  <2>4. CASE ~(Send(p) /\ s = Head(todo[p]))
    <3>1. Served(s, p)' = Served(s, p) /\ sent'[s][p] = sent[s][p]
      BY <1>5, <2>4, ServedStep, SentStep
    <3>. QED
      BY <2>1, <2>2, <3>1
  <2>. QED
    BY <2>3, <2>4
<1>6. Working(s)' /\ ~Subscribe(s) => Working(s)
  BY WorkingStep
<1>. QED
  BY <1>3, <1>4, <1>5, <1>6

LEMMA InitDelivery == Init => Delivery
<1>. SUFFICES ASSUME Init PROVE Delivery
  OBVIOUS
<1>1. CountTypes /\ CalledOnce
  BY DEF Init, CountTypes, CalledOnce, IsInjective, Range
<1>2. WorkingIsListed
  BY DEF Init, WorkingIsListed, Working
<1>3. GotAll
  BY DEF Init, GotAll, Working
<1>. QED
  BY <1>1, <1>2, <1>3 DEF Delivery

\* Who was served all but the packet under way misses at most that one.
LEMMA DeliveryMissesNothing == Inv /\ Delivery => NothingIsMissed
<1>. SUFFICES ASSUME Inv, Delivery, NEW s \in Stream, NEW p \in Publisher, Working(s)
              PROVE  LET last == {stored[p]} \cup (IF pc[p] # "idle" THEN {stored[p] - 1} ELSE {})
                     IN  \E from \in {joined[s][p], joined[s][p] - 1}, to \in last :
                           sent[s][p] = Packets(from, to)
  BY DEF NothingIsMissed, Working, Packets
<1>1. PICK from \in {joined[s][p], joined[s][p] - 1} : sent[s][p] = Packets(from, Served(s, p))
  BY DEF Delivery, GotAll
<1>2. pc[p] = "idle" => Served(s, p) = stored[p]
  BY DEF Served, Delivery, CalledOnce, Range
<1>3. Served(s, p) \in {stored[p]} \cup (IF pc[p] # "idle" THEN {stored[p] - 1} ELSE {})
  BY <1>2 DEF Served
<1>. QED
  BY <1>1, <1>3

\* However the publishers, the streams that subscribe and those that fail
\* interleave, a stream that works has every packet published since it
\* subscribed, once and in each publisher's order, up to the one under way.
THEOREM StreamMissesNothing == Spec => []NothingIsMissed
<1>1. Inv /\ Delivery /\ [Next]_vars => (Inv /\ Delivery)'
  BY InvStep, CountTypesStep, CalledOnceStep, WorkingIsListedStep, GotAllStep DEF Delivery
<1>2. Spec => [](Inv /\ Delivery)
  BY <1>1, InitInv, InitDelivery, PTL DEF Spec
<1>. QED
  BY <1>2, DeliveryMissesNothing, PTL

-----------------------------------------------------------------------------
(* Who takes a broken stream out of the bus *)

\* The container calls back only an emitter that it has initialised.
CalledBackOpen == \A s \in Stream : pc[s] # "idle" => phase[s] = "open"

LEMMA CalledBackOpenStep == Inv /\ CalledBackOpen /\ [Next]_vars => CalledBackOpen'
<1>. SUFFICES ASSUME Inv, CalledBackOpen, [Next]_vars, NEW s \in Stream, pc'[s] # "idle"
              PROVE  phase'[s] = "open"
  BY DEF CalledBackOpen
<1>1. s \in Thread /\ s \notin Publisher
  BY StreamAssumption DEF Thread
<1>2. phase[s] = "open" => phase'[s] = "open"
  <2>1. ASSUME NEW r \in Stream, Subscribe(r) \/ Reference(r) \/ Initialise(r)
        PROVE  phase[s] = "open" => phase'[s] = "open"
    BY <2>1 DEF Subscribe, Reference, Initialise, Inv, Types
  <2>2. phase' = phase \/ \E r \in Stream : Subscribe(r) \/ Reference(r) \/ Initialise(r)
    <3>1. ASSUME NEW p \in Publisher,
                 \/ Store(p) \/ Iterate(p) \/ Accept(p) \/ Send(p) \/ SendFails(p)
                 \/ PublishReturns(p)
          PROVE  phase' = phase
      BY <3>1 DEF Store, Iterate, Accept, Send, SendFails, PublishReturns
    <3>2. ASSUME NEW t \in Thread, CompareAndSet(t) \/ Unsubscribe(t) \/ Complete(t)
          PROVE  phase' = phase
      BY <3>2 DEF CompareAndSet, Unsubscribe, Complete
    <3>3. ASSUME NEW r \in Stream, Callback(r) \/ ClientLeaves(r) PROVE phase' = phase
      BY <3>3 DEF Callback, ClientLeaves
    <3>. QED
      BY <3>1, <3>2, <3>3 DEF Next, Opens, Publishes, Closes, vars
  <2>. QED
    BY <2>1, <2>2
<1>3. pc[s] # "idle" \/ phase[s] = "open"
  <2>. SUFFICES ASSUME pc[s] = "idle" PROVE phase[s] = "open"
    OBVIOUS
  <2>1. \E r \in Stream : Callback(r)
    <3>1. ASSUME NEW p \in Publisher,
                 \/ Store(p) \/ Iterate(p) \/ Accept(p) \/ Send(p) \/ SendFails(p)
                 \/ PublishReturns(p)
          PROVE  FALSE
      BY <1>1, <3>1 DEF Inv, Types, Store, Iterate, Accept, Send, SendFails, PublishReturns
    <3>2. ASSUME NEW t \in Thread, CompareAndSet(t) \/ Unsubscribe(t) \/ Complete(t) PROVE FALSE
      BY <1>1, <3>2 DEF Inv, Types, CompareAndSet, Unsubscribe, Complete, Leave
    <3>. QED
      BY <3>1, <3>2
      DEF Next, Opens, Publishes, Closes, Subscribe, Reference, Initialise, ClientLeaves, vars
  <2>2. PICK r \in Stream : Callback(r)
    BY <2>1
  <2>3. r = s
    BY <1>1, <2>2 DEF Callback, Inv, Types
  <2>. QED
    BY <2>2, <2>3 DEF Callback
<1>. QED
  BY <1>2, <1>3 DEF CalledBackOpen

\* A thread that finds a broken stream closed leaves it to the one that closed
\* it; the one that closed it knows the subscription, for a send cannot fail
\* before the stream is open.
LEMMA LeavingStep ==
  Inv /\ CalledBackOpen /\ BrokenStreamsAreLeaving /\ [Next]_vars => BrokenStreamsAreLeaving'
<1>. SUFFICES ASSUME Inv, CalledBackOpen, BrokenStreamsAreLeaving, [Next]_vars,
                     NEW s \in Range(subscribers)', broken'[s]
              PROVE  \/ \E t \in Thread : pc'[t] \in {"close", "unsubscribe"} /\ Target(t)' = s
                     \/ phase'[s] = "open" /\ pc'[s] = "idle"
  BY DEF BrokenStreamsAreLeaving
<1>. DEFINE Takes(t) == pc[t] \in {"close", "unsubscribe"} /\ Target(t) = s
            Leaving == (\E t \in Thread : Takes(t)) \/ (phase[s] = "open" /\ pc[s] = "idle")
            Before == broken[s] /\ s \in Range(subscribers)
<1>1. /\ s \in Stream /\ phase'[s] = "open" /\ s \in Thread /\ s \notin Publisher
      /\ pc \in [Thread -> Place]
  BY InvStep, StreamAssumption, RangeFacts DEF Inv, Types, OpenedFirst, Thread
<1>2. ASSUME Before,
             NEW t \in Thread, ~Takes(t), t # s \/ pc[t] # "idle",
             \A u \in Thread \ {t} : pc'[u] = pc[u] /\ Target(u)' = Target(u)
      PROVE  Leaving'
  <2>1. Leaving
    BY <1>2 DEF BrokenStreamsAreLeaving
  <2>2. CASE pc[s] = "idle"
    BY <1>1, <1>2, <2>2
  <2>3. CASE \E u \in Thread : Takes(u)
    BY <1>2, <2>3
  <2>. QED
    BY <2>1, <2>2, <2>3
<1>3. ASSUME NEW r \in Stream, Subscribe(r) \/ Reference(r) \/ Initialise(r) \/ ClientLeaves(r)
      PROVE  Leaving'
  <2>1. UNCHANGED <<pc, todo>>
    BY <1>3 DEF Subscribe, Reference, Initialise, ClientLeaves
  <2>2. CASE Initialise(s)
    <3>1. pc[s] = "idle"
      BY <1>1, <2>2 DEF Initialise, CalledBackOpen
    <3>. QED
      BY <1>1, <2>1, <3>1
  <2>3. CASE ~Initialise(s)
    <3>1. broken[s]
      BY <1>1, <1>3, <2>3 DEF Subscribe, Reference, Initialise, ClientLeaves, emitterVars, Inv, Types
    <3>2. phase[s] = "open"
      BY <1>1, <3>1 DEF Inv, OpenedFirst
    <3>3. s \in Range(subscribers)
      <4>1. CASE Subscribe(r)
        <5>1. r # s /\ subscribers' = Append(subscribers, r)
          BY <3>2, <4>1 DEF Subscribe
        <5>2. r \notin Range(subscribers)
          BY <4>1 DEF Subscribe, Inv, SubscribedOnce
        <5>. QED
          BY <5>1, <5>2, AppendFacts DEF Inv, Types, SubscribedOnce
      <4>2. CASE ~Subscribe(r)
        BY <1>3, <4>2 DEF Reference, Initialise, ClientLeaves
      <4>. QED
        BY <4>1, <4>2
    <3>4. Leaving
      BY <3>1, <3>3 DEF BrokenStreamsAreLeaving
    <3>. QED
      BY <1>1, <2>1, <3>4 DEF Target
  <2>. QED
    BY <2>2, <2>3
<1>4. ASSUME NEW p \in Publisher, Store(p) \/ Iterate(p) \/ Accept(p) \/ Send(p) \/ PublishReturns(p)
      PROVE  Leaving'
  <2>1. /\ p \in Thread /\ p # s /\ pc[p] \notin {"close", "unsubscribe"}
        /\ UNCHANGED <<broken, subscribers>>
        /\ \A u \in Thread \ {p} : pc'[u] = pc[u] /\ Target(u)' = Target(u)
    BY <1>1, <1>4 DEF Store, Iterate, Accept, Send, PublishReturns, emitterVars, Thread, Target, Inv, Types
  <2>. QED
    BY <1>2, <2>1
<1>5. ASSUME NEW p \in Publisher, SendFails(p) PROVE Leaving'
  <2>1. /\ p \in Thread /\ p # s /\ pc[p] = "send" /\ pc'[p] = "close"
        /\ UNCHANGED <<todo, subscribers>>
        /\ \A u \in Thread \ {p} : pc'[u] = pc[u] /\ Target(u)' = Target(u)
    BY <1>1, <1>5 DEF SendFails, Thread, Target, Inv, Types
  <2>2. CASE Head(todo[p]) = s
    <3>1. Target(p)' = s
      BY <2>1, <2>2 DEF Target
    <3>. QED
      BY <2>1, <3>1
  <2>3. CASE Head(todo[p]) # s
    <3>1. broken[s]
      BY <1>1, <1>5, <2>3 DEF SendFails, Inv, Types
    <3>. QED
      BY <1>2, <2>1, <3>1
  <2>. QED
    BY <2>2, <2>3
<1>6. ASSUME NEW r \in Stream, Callback(r) PROVE Leaving'
  <2>1. /\ r \in Thread /\ r \notin Publisher /\ pc[r] = "idle" /\ pc'[r] = "close"
        /\ UNCHANGED <<todo, subscribers, broken>>
        /\ \A u \in Thread \ {r} : pc'[u] = pc[u] /\ Target(u)' = Target(u)
    BY <1>6, StreamAssumption DEF Callback, Thread, Target, Inv, Types, emitterVars
  <2>2. CASE r = s
    <3>1. Target(r)' = s
      BY <2>1, <2>2 DEF Target
    <3>. QED
      BY <2>1, <3>1
  <2>3. CASE r # s
    BY <1>2, <2>1, <2>3
  <2>. QED
    BY <2>2, <2>3
<1>7. ASSUME NEW t \in Thread, CompareAndSet(t) PROVE Leaving'
  <2>1. /\ pc[t] = "close" /\ UNCHANGED <<subscribers, broken>>
        /\ \A u \in Thread \ {t} : pc'[u] = pc[u] /\ Target(u)' = Target(u)
    BY <1>7 DEF CompareAndSet, Leave, Target, Inv, Types, emitterVars
  <2>2. CASE Target(t) # s
    BY <1>2, <2>1, <2>2
  <2>3. CASE Target(t) = s /\ closed[s]
    <3>1. PICK u \in Thread : pc[u] = "unsubscribe" /\ Target(u) = s
      BY <2>1, <2>3 DEF Inv, ListedWhileClosing
    <3>. QED
      BY <2>1, <3>1
  <2>4. CASE Target(t) = s /\ ~closed[s]
    <3>1. pc'[t] = "unsubscribe" /\ todo' = todo
      BY <1>7, <2>4 DEF CompareAndSet, Inv, Types
    <3>2. Target(t)' = s
      BY <2>4, <3>1 DEF Target
    <3>. QED
      BY <3>1, <3>2
  <2>. QED
    BY <2>2, <2>3, <2>4
<1>8. ASSUME NEW t \in Thread, Unsubscribe(t) PROVE Leaving'
  <2>1. /\ pc[t] = "unsubscribe" /\ UNCHANGED <<todo, broken>> /\ Target(t) \in Stream
        /\ \A u \in Thread \ {t} : pc'[u] = pc[u] /\ Target(u)' = Target(u)
    BY <1>8, TargetFacts DEF Unsubscribe, Target, Inv, Types, emitterVars
  <2>2. subscribers' = Without(Target(t))
    BY <1>8, <2>1 DEF Unsubscribe, Knows, Inv, OpenedFirst
  <2>3. Range(subscribers') = Range(subscribers) \ {Target(t)}
    BY <2>1, <2>2, WithoutFacts DEF Inv, Types, SubscribedOnce
  <2>4. s # Target(t) /\ s \in Range(subscribers)
    BY <2>3
  <2>. QED
    BY <1>2, <2>1, <2>4
<1>9. ASSUME NEW t \in Thread, Complete(t) PROVE Leaving'
  <2>1. /\ pc[t] = "complete" /\ UNCHANGED <<subscribers, broken>>
        /\ \A u \in Thread \ {t} : pc'[u] = pc[u] /\ Target(u)' = Target(u)
    BY <1>9 DEF Complete, Leave, Target, Inv, Types
  <2>. QED
    BY <1>2, <2>1
<1>10. CASE UNCHANGED vars
  <2>1. UNCHANGED <<pc, todo, broken, subscribers, phase>> /\ Leaving
    BY <1>10 DEF vars, emitterVars, BrokenStreamsAreLeaving
  <2>. QED
    BY <2>1 DEF Target
<1>. QED
  BY <1>3, <1>4, <1>5, <1>6, <1>7, <1>8, <1>9, <1>10 DEF Next, Opens, Publishes, Closes

\* No stream stays in the bus after a send to it has failed without anybody who
\* will take it out: the safety half of the promise that broken streams leave.
THEOREM NoBrokenStreamIsForgotten == Spec => []BrokenStreamsAreLeaving
<1>1. Init => CalledBackOpen /\ BrokenStreamsAreLeaving
  BY DEF Init, CalledBackOpen, BrokenStreamsAreLeaving, Range, Thread
<1>2. Inv /\ CalledBackOpen /\ BrokenStreamsAreLeaving /\ [Next]_vars
        => (Inv /\ CalledBackOpen /\ BrokenStreamsAreLeaving)'
  BY InvStep, CalledBackOpenStep, LeavingStep
<1>. QED
  BY InitInv, <1>1, <1>2, PTL DEF Spec

\* Every variable keeps its type, the counts and the sent packets included.
THEOREM StreamTypeCorrect == Spec => []TypeOK
<1>1. Inv /\ CountTypes => TypeOK
  BY DEF Inv, Types, CountTypes, TypeOK
<1>2. Init => CountTypes
  BY InitDelivery DEF Delivery
<1>3. Inv /\ CountTypes /\ [Next]_vars => (Inv /\ CountTypes)'
  BY InvStep, CountTypesStep
<1>. QED
  BY InitInv, <1>1, <1>2, <1>3, PTL DEF Spec
-----------------------------------------------------------------------------
(* The feed of each tab *)

\* Who closes a stream has seen a send to it fail, or was called back for that.
ClosedIsBroken ==
  /\ \A s \in Stream : closed[s] => broken[s]
  /\ \A t \in Thread : pc[t] \in {"close", "unsubscribe", "complete"} => broken[Target(t)]

\* What was stored when a stream subscribed was not more than is stored now.
JoinedBefore == \A s \in Stream, p \in Publisher : joined[s][p] <= stored[p]

\* A stream that a send has failed on stays broken.
LEMMA StaysBroken ==
  ASSUME Inv, [Next]_vars, NEW s \in Stream
  PROVE  broken[s] => broken'[s]
BY DEF Inv, Types, Next, Opens, Publishes, Closes, Subscribe, Reference, Initialise, ClientLeaves,
   Store, Iterate, Accept, Send, SendFails, PublishReturns, Callback, CompareAndSet, Unsubscribe,
   Complete, vars, emitterVars

LEMMA ClosedIsBrokenStep == Inv /\ ClosedIsBroken /\ [Next]_vars => ClosedIsBroken'
<1>. SUFFICES ASSUME Inv, ClosedIsBroken, [Next]_vars PROVE ClosedIsBroken'
  OBVIOUS
<1>1. ASSUME NEW s \in Stream, closed'[s] PROVE broken'[s]
  <2>1. closed'[s] = closed[s] \/ \E t \in Thread : CompareAndSet(t) /\ pc[t] = "close" /\ s = Target(t)
    <3>1. ASSUME NEW t \in Thread, CompareAndSet(t)
          PROVE  closed'[s] = closed[s] \/ (pc[t] = "close" /\ s = Target(t))
      BY <3>1 DEF CompareAndSet, Inv, Types
    <3>. QED
      BY <3>1 DEF Next, Opens, Publishes, Closes, Subscribe, Reference, Initialise, ClientLeaves,
         Store, Iterate, Accept, Send, SendFails, PublishReturns, Callback, Unsubscribe,
         Complete, vars
  <2>2. broken[s]
    BY <1>1, <2>1 DEF ClosedIsBroken
  <2>. QED
    BY <2>2, StaysBroken
<1>2. ASSUME NEW t \in Thread, pc'[t] \in {"close", "unsubscribe", "complete"}
      PROVE  broken'[Target(t)']
  <2>1. CASE pc[t] \in {"close", "unsubscribe", "complete"} /\ Target(t)' = Target(t)
    <3>1. Target(t) \in Stream /\ broken[Target(t)]
      BY <2>1, TargetFacts DEF ClosedIsBroken
    <3>2. broken'[Target(t)]
      BY <3>1, StaysBroken
    <3>. QED
      BY <2>1, <3>2
  <2>2. CASE t \in Publisher /\ SendFails(t)
    <3>. DEFINE r == Head(todo[t])
    <3>1. r \in Stream /\ todo' = todo /\ Target(t)' = r
      BY <2>2, SendFacts DEF SendFails, Target
    <3>2. completed[r] # 0 => broken[r]
      BY <3>1 DEF Inv, OneCloses, ClosedIsBroken
    <3>3. broken'[r]
      BY <2>2, <3>1, <3>2 DEF SendFails, Inv, Types
    <3>. QED
      BY <3>1, <3>3
  <2>3. CASE t \in Stream /\ Callback(t)
    <3>1. broken' = broken /\ Target(t)' = t
      BY <2>3, StreamAssumption DEF Callback, emitterVars, Target
    <3>2. broken[t]
      BY <2>3 DEF Callback, Refuses, Inv, OneCloses, Types, ClosedIsBroken
    <3>. QED
      BY <3>1, <3>2
  <2>. QED
    BY <1>2, <2>1, <2>2, <2>3, BeginsToClose
<1>. QED
  BY <1>1, <1>2 DEF ClosedIsBroken

LEMMA JoinedBeforeStep == Inv /\ CountTypes /\ JoinedBefore /\ [Next]_vars => JoinedBefore'
<1>. SUFFICES ASSUME Inv, CountTypes, JoinedBefore, [Next]_vars, NEW s \in Stream, NEW p \in Publisher
              PROVE  joined'[s][p] <= stored'[p]
  BY DEF JoinedBefore
<1>1. stored[p] \in Nat /\ joined[s][p] \in Nat /\ joined[s][p] <= stored[p]
  BY DEF CountTypes, JoinedBefore
<1>2. ASSUME NEW q \in Publisher, Store(q) PROVE joined' = joined /\ stored[p] <= stored'[p]
  BY <1>1, <1>2 DEF Store, CountTypes
<1>3. ASSUME NEW r \in Stream, Subscribe(r) PROVE joined'[s] \in {joined[s], stored} /\ stored' = stored
  BY <1>3 DEF Subscribe, CountTypes
<1>4. \/ \E q \in Publisher : Store(q)
      \/ \E r \in Stream : Subscribe(r)
      \/ UNCHANGED <<joined, stored>>
  BY DEF Next, Opens, Publishes, Closes, Reference, Initialise, ClientLeaves, Iterate, Accept, Send,
     SendFails, PublishReturns, Callback, CompareAndSet, Unsubscribe, Complete, vars
<1>5. CASE \E q \in Publisher : Store(q)
  <2>1. joined' = joined /\ stored[p] <= stored'[p] /\ stored'[p] \in Nat
    BY <1>2, <1>5, CountTypesStep DEF CountTypes
  <2>. QED
    BY <1>1, <2>1
<1>6. CASE \E r \in Stream : Subscribe(r)
  BY <1>1, <1>3, <1>6
<1>7. CASE UNCHANGED <<joined, stored>>
  BY <1>1, <1>7
<1>. QED
  BY <1>4, <1>5, <1>6, <1>7

\* How the feed sees stream s.
Line(s) == IF phase[s] = "new" THEN "new" ELSE IF broken[s] THEN "over" ELSE "live"

\* A stream that lives has reached what it was served, or has the packet still
\* to come that was being published when it subscribed.
LEMMA ReachedServed ==
  ASSUME Inv, Delivery, JoinedBefore, NEW s \in Stream, NEW p \in Publisher, Working(s)
  PROVE  \/ Feed!Reached(s, p) = Served(s, p)
         \/ sent[s][p] = <<>> /\ joined[s][p] = stored[p] /\ Served(s, p) = stored[p] - 1
<1>1. PICK from \in {joined[s][p], joined[s][p] - 1} :
        from <= Served(s, p) /\ sent[s][p] = Packets(from, Served(s, p))
  BY DEF Delivery, GotAll
<1>2. /\ stored[p] \in Nat /\ joined[s][p] \in Nat /\ joined[s][p] <= stored[p]
      /\ Served(s, p) \in {stored[p], stored[p] - 1}
  BY DEF Delivery, CountTypes, JoinedBefore, Served
<1>3. CASE from < Served(s, p)
  <2>. DEFINE n == Served(s, p) - from
              q == Packets(from, Served(s, p))
  <2>1. n \in Nat /\ n >= 1 /\ q \in [1..n -> Int] /\ \A i \in 1..n : q[i] = from + i
    <3>1. from \in Int /\ n \in Nat /\ n >= 1
      BY <1>1, <1>2, <1>3
    <3>2. q = [i \in 1..n |-> from + i]
      BY DEF Packets
    <3>. HIDE DEF n, q
    <3>. QED
      BY <3>1, <3>2
  <2>. HIDE DEF n, q
  <2>2. Len(q) = n /\ q # <<>>
    BY <2>1
  <2>3. q[n] = Served(s, p)
    BY <1>1, <1>2, <2>1 DEF n
  <2>4. sent[s][p] = q
    BY <1>1 DEF q
  <2>. QED
    BY <2>2, <2>3, <2>4 DEF Feed!Reached, Feed!Last
<1>4. CASE from = Served(s, p)
  <2>1. sent[s][p] = <<>>
    BY <1>1, <1>2, <1>4 DEF Packets
  <2>2. Feed!Reached(s, p) = joined[s][p]
    BY <2>1 DEF Feed!Reached
  <2>. QED
    BY <1>1, <1>2, <1>4, <2>1, <2>2
<1>. QED
  BY <1>1, <1>2, <1>3, <1>4

\* Every step is one of the feed's or leaves it as it is: the packet that a
\* publisher sends to a stream is the one that the stream has to have next.
LEMMA StepOfFeed ==
  Inv /\ Delivery /\ ClosedIsBroken /\ JoinedBefore /\ [Next]_vars => [Feed!Next]_(Feed!vars)
<1>. SUFFICES ASSUME Inv, Delivery, ClosedIsBroken, JoinedBefore, [Next]_vars
              PROVE  Feed!Next \/ UNCHANGED Feed!vars
  OBVIOUS
<1>. DEFINE line == [s \in Stream |-> Line(s)]
<1>1. \A s \in Stream : line[s] = "live" <=> Working(s)
  BY DEF Line, Working, ClosedIsBroken
<1>2. ASSUME NEW p \in Publisher, Store(p) PROVE Feed!Publish(p)
  <2>1. /\ pc[p] = "idle" /\ stored' = [stored EXCEPT ![p] = @ + 1]
        /\ UNCHANGED <<phase, broken, joined, sent>>
    BY <1>2 DEF Store, emitterVars
  <2>2. ASSUME NEW s \in Stream, Working(s) PROVE Feed!Reached(s, p) = stored[p]
    <3>1. Served(s, p) = stored[p]
      BY <2>1 DEF Served, Delivery, CalledOnce, Range
    <3>2. stored[p] \in Nat
      BY DEF Delivery, CountTypes
    <3>. QED
      BY <2>2, <3>1, <3>2, ReachedServed
  <2>3. line' = line
    BY <2>1 DEF Line
  <2>. QED
    BY <1>1, <2>1, <2>2, <2>3 DEF Feed!Publish, Line
<1>3. ASSUME NEW s \in Stream, Subscribe(s) PROVE Feed!Join(s)
  <2>1. /\ phase[s] = "new" /\ phase' = [phase EXCEPT ![s] = "subscribed"] /\ ~broken[s]
        /\ joined' = [joined EXCEPT ![s] = stored] /\ UNCHANGED <<broken, sent, stored>>
    BY <1>3 DEF Subscribe, emitterVars, Inv, OpenedFirst
  <2>2. line' = [line EXCEPT ![s] = "live"]
    BY <2>1 DEF Line, Inv, Types
  <2>. QED
    BY <2>1, <2>2 DEF Feed!Join, Line
<1>4. ASSUME NEW p \in Publisher, Send(p) PROVE Feed!Bring(Head(todo[p]), p)
  <2>. DEFINE s == Head(todo[p])
  <2>1. /\ s \in Stream /\ s \in Range(todo[p]) /\ todo[p] \in Seq(Stream) /\ todo[p] # <<>>
        /\ pc[p] = "send" /\ ~broken[s] /\ phase[s] # "new"
    BY <1>4, SendFacts, TailOnce DEF Send, Refuses, Delivery, CalledOnce
  <2>2. /\ sent' = [sent EXCEPT ![s][p] = Append(@, stored[p])]
        /\ UNCHANGED <<phase, broken, joined, stored>>
    BY <1>4 DEF Send
  <2>3. Working(s)
    BY <2>1 DEF Working, ClosedIsBroken
  <2>4. Served(s, p) = stored[p] - 1 /\ stored[p] \in Nat
    BY <2>1 DEF Served, Delivery, CountTypes
  <2>5. \/ Feed!Reached(s, p) + 1 = stored[p]
        \/ sent[s][p] = <<>> /\ joined[s][p] = stored[p]
    BY <2>1, <2>3, <2>4, ReachedServed
  <2>6. line' = line
    BY <2>2 DEF Line
  <2>. QED
    BY <1>1, <2>1, <2>2, <2>3, <2>5, <2>6 DEF Feed!Bring, Line
<1>5. ASSUME NEW s \in Stream, phase[s] # "new", ~broken[s], broken' = [broken EXCEPT ![s] = TRUE],
             \A r \in Stream : phase'[r] = "new" <=> phase[r] = "new",
             UNCHANGED <<joined, sent, stored>>
      PROVE  Feed!End(s)
  <2>1. line' = [line EXCEPT ![s] = "over"]
    BY <1>5 DEF Line, Inv, Types
  <2>. QED
    BY <1>5, <2>1 DEF Feed!End, Line
<1>6. ASSUME broken' = broken, \A r \in Stream : phase'[r] = "new" <=> phase[r] = "new",
             UNCHANGED <<joined, sent, stored>>
      PROVE  UNCHANGED Feed!vars
  <2>1. line' = line
    BY <1>6 DEF Line
  <2>. QED
    BY <1>6, <2>1 DEF Feed!vars, Line
<1>7. ASSUME NEW s \in Stream, Initialise(s) PROVE Feed!Next \/ UNCHANGED Feed!vars
  <2>1. /\ \A r \in Stream : phase'[r] = "new" <=> phase[r] = "new"
        /\ phase[s] # "new" /\ UNCHANGED <<joined, sent, stored>>
        /\ broken' = broken \/ broken' = [broken EXCEPT ![s] = TRUE]
    BY <1>7 DEF Initialise, Inv, Types
  <2>2. CASE ~broken[s] /\ broken' = [broken EXCEPT ![s] = TRUE]
    BY <1>5, <2>1, <2>2 DEF Feed!Next
  <2>3. broken[s] /\ broken' = [broken EXCEPT ![s] = TRUE] => broken' = broken
    BY DEF Inv, Types
  <2>. QED
    BY <1>6, <2>1, <2>2, <2>3
<1>8. ASSUME NEW p \in Publisher, SendFails(p) PROVE Feed!Next \/ UNCHANGED Feed!vars
  <2>. DEFINE s == Head(todo[p])
  <2>1. /\ s \in Stream /\ s \in Range(todo[p]) /\ phase[s] # "new"
        /\ phase' = phase /\ UNCHANGED <<joined, sent, stored>>
        /\ broken' = [broken EXCEPT ![s] = @ \/ completed[s] = 0]
    BY <1>8, SendFacts, TailOnce DEF SendFails, Delivery, CalledOnce
  <2>2. CASE ~broken[s] /\ completed[s] = 0
    <3>1. broken' = [broken EXCEPT ![s] = TRUE]
      BY <2>1, <2>2
    <3>. QED
      BY <1>5, <2>1, <2>2, <3>1 DEF Feed!Next
  <2>3. CASE ~(~broken[s] /\ completed[s] = 0)
    <3>1. broken' = broken
      BY <2>1, <2>3 DEF Inv, Types
    <3>. QED
      BY <1>6, <2>1, <3>1
  <2>. QED
    BY <2>2, <2>3
<1>9. ASSUME NEW s \in Stream, Reference(s) PROVE UNCHANGED Feed!vars
  BY <1>6, <1>9 DEF Reference, emitterVars, Inv, Types
<1>10. ASSUME NEW s \in Stream, Callback(s) \/ ClientLeaves(s) PROVE UNCHANGED Feed!vars
  BY <1>6, <1>10 DEF Callback, ClientLeaves, emitterVars
<1>11. ASSUME NEW p \in Publisher, Iterate(p) \/ Accept(p) \/ PublishReturns(p)
       PROVE  UNCHANGED Feed!vars
  BY <1>6, <1>11 DEF Iterate, Accept, PublishReturns, emitterVars
<1>12. ASSUME NEW t \in Thread, CompareAndSet(t) \/ Unsubscribe(t) \/ Complete(t)
       PROVE  UNCHANGED Feed!vars
  BY <1>6, <1>12 DEF CompareAndSet, Unsubscribe, Complete, emitterVars
<1>13. CASE UNCHANGED vars
  BY <1>6, <1>13 DEF vars, emitterVars
<1>14. ASSUME NEW p \in Publisher, Send(p) PROVE Feed!Next
  BY <1>4, <1>14, SendFacts DEF Send, Feed!Next
<1>. QED
  BY <1>2, <1>3, <1>7, <1>8, <1>9, <1>10, <1>11, <1>12, <1>13, <1>14
  DEF Next, Opens, Publishes, Closes, Feed!Next

\* Every tab reads the feed it is promised, however subscriptions, publishers
\* and failing streams interleave: until its first failed send, a stream takes
\* the packets of each publisher in turn, and the publisher waits for it.
THEOREM StreamsAreALiveFeed == Spec => IsALiveFeed
<1>1. Init => Feed!Init
  BY DEF Init, Feed!Init
<1>2. Init => ClosedIsBroken /\ JoinedBefore
  BY DEF Init, ClosedIsBroken, JoinedBefore
<1>3. Inv /\ Delivery /\ [Next]_vars => (Inv /\ Delivery)'
  BY InvStep, CountTypesStep, CalledOnceStep, WorkingIsListedStep, GotAllStep DEF Delivery
<1>4. Inv /\ Delivery /\ ClosedIsBroken /\ JoinedBefore /\ [Next]_vars
        => (Inv /\ Delivery /\ ClosedIsBroken /\ JoinedBefore)'
  BY <1>3, ClosedIsBrokenStep, JoinedBeforeStep DEF Delivery
<1>. QED
  BY InitInv, InitDelivery, <1>1, <1>2, <1>4, StepOfFeed, PTL DEF Spec, IsALiveFeed, Feed!Spec

-----------------------------------------------------------------------------
\* A stream that a send has failed on is taken out of the bus by somebody, and
\* its emitter is completed by one thread only.
THEOREM FailedStreamsLeaveOnce == Spec => []FailedStreamsGoOnce
<1>1. ClosedOnceAndGone /\ BrokenStreamsAreLeaving => FailedStreamsGoOnce
  BY DEF FailedStreamsGoOnce
<1>. QED
  BY StreamClosedOnceAndGone, NoBrokenStreamIsForgotten, <1>1, PTL
==============================================================================
