---------------------------- MODULE TrafficStream ----------------------------
(***************************************************************************)
(* The live streams that GET /api/traffic/stream opens, and the bus that   *)
(* feeds them.  A publishing thread (a JMeter sampler, an ingestion        *)
(* session) stores its packet, takes the subscribers there are at that     *)
(* moment, and sends the packet to each of them itself.  A stream is shut  *)
(* by closeGracefully(), which publishing threads call when a send fails   *)
(* and the container when it calls the emitter back; several may at once.  *)
(*                                                                         *)
(* External: the emitter buffers what is sent before the container has     *)
(* initialised it, refuses what is sent after it was completed, and fails  *)
(* when the client is gone, which the container does not notice otherwise. *)
(* The timeout is 0, so onTimeout is never called.                         *)
(***************************************************************************)
EXTENDS Integers, Sequences, SequencesExt

CONSTANTS
  Stream,      \* requests for a stream; an EventSource that reconnects is another
  Publisher,   \* threads that publish packets
  MaxPackets   \* bound on the packets of each publisher

ASSUME StreamAssumption ==
  Stream \cap Publisher = {} /\ MaxPackets \in [Publisher -> Nat]

\* The threads that may call closeGracefully(): the publishers, and for each
\* stream the container thread that calls its emitter back.
Thread == Publisher \cup Stream

VARIABLES
  subscribers, \* the bus's copy-on-write list
  phase,       \* the request: "new", "subscribed", "referenced" or "open"
  closed,      \* the AtomicBoolean of each stream
  client,      \* whether the browser is still there
  broken,      \* emitter: a send has failed
  completed,   \* emitter: how often complete() was called
  sent,        \* packets of each publisher the emitter accepted, in order
  stored,      \* packets each publisher has stored
  pc,          \* where each thread is
  todo,        \* the subscribers a publisher has still to call
  joined       \* history: what was stored when each stream subscribed

emitterVars == <<client, broken, completed, sent>>
vars == <<subscribers, phase, closed, emitterVars, stored, pc, todo, joined>>

Init ==
  /\ subscribers = <<>> /\ phase = [s \in Stream |-> "new"]
  /\ closed = [s \in Stream |-> FALSE] /\ client = [s \in Stream |-> TRUE]
  /\ broken = [s \in Stream |-> FALSE] /\ completed = [s \in Stream |-> 0]
  /\ sent = [s \in Stream |-> [p \in Publisher |-> <<>>]]
  /\ stored = [p \in Publisher |-> 0]
  /\ pc = [t \in Thread |-> "idle"] /\ todo = [p \in Publisher |-> <<>>]
  /\ joined = [s \in Stream |-> stored]

-----------------------------------------------------------------------------
(* Opening a stream *)

Subscribe(s) ==
  /\ phase[s] = "new"
  /\ subscribers' = Append(subscribers, s)
  /\ joined' = [joined EXCEPT ![s] = stored]
  /\ phase' = [phase EXCEPT ![s] = "subscribed"]
  /\ UNCHANGED <<closed, emitterVars, stored, pc, todo>>

\* subRef is set; the callbacks registered next concern only the container.
Reference(s) ==
  /\ phase[s] = "subscribed"
  /\ phase' = [phase EXCEPT ![s] = "referenced"]
  /\ UNCHANGED <<subscribers, closed, emitterVars, stored, pc, todo, joined>>

\* The container initialises the emitter that was returned and flushes what
\* it has buffered, which fails when the client has gone already.
Initialise(s) ==
  /\ phase[s] = "referenced"
  /\ phase' = [phase EXCEPT ![s] = "open"]
  /\ \/ UNCHANGED broken
     \/ ~client[s] /\ broken' = [broken EXCEPT ![s] = TRUE]
  /\ UNCHANGED <<subscribers, closed, client, completed, sent, stored, pc, todo, joined>>

\* The browser reloads, navigates or reconnects.
ClientLeaves(s) ==
  /\ phase[s] # "new" /\ client[s]
  /\ client' = [client EXCEPT ![s] = FALSE]
  /\ UNCHANGED <<subscribers, phase, closed, broken, completed, sent, stored, pc, todo, joined>>

-----------------------------------------------------------------------------
(* PacketBus.publish() *)

Store(p) ==
  /\ pc[p] = "idle" /\ stored[p] < MaxPackets[p]
  /\ stored' = [stored EXCEPT ![p] = @ + 1]
  /\ pc' = [pc EXCEPT ![p] = "stored"]
  /\ UNCHANGED <<subscribers, phase, closed, emitterVars, todo, joined>>

\* Iterating a copy-on-write list visits what it held at the start.
Iterate(p) ==
  /\ pc[p] = "stored"
  /\ todo' = [todo EXCEPT ![p] = subscribers]
  /\ pc' = [pc EXCEPT ![p] = "next"]
  /\ UNCHANGED <<subscribers, phase, closed, emitterVars, stored, joined>>

\* The next subscriber, which does nothing when its stream is closed.
Accept(p) ==
  /\ pc[p] = "next" /\ todo[p] # <<>>
  /\ IF closed[Head(todo[p])]
       THEN todo' = [todo EXCEPT ![p] = Tail(@)] /\ UNCHANGED pc
       ELSE pc' = [pc EXCEPT ![p] = "send"] /\ UNCHANGED todo
  /\ UNCHANGED <<subscribers, phase, closed, emitterVars, stored, joined>>

Refuses(s) == completed[s] > 0 \/ broken[s]

Send(p) ==
  LET s == Head(todo[p])
  IN  /\ pc[p] = "send" /\ ~Refuses(s)
      /\ sent' = [sent EXCEPT ![s][p] = Append(@, stored[p])]
      /\ todo' = [todo EXCEPT ![p] = Tail(@)]
      /\ pc' = [pc EXCEPT ![p] = "next"]
      /\ UNCHANGED <<subscribers, phase, closed, client, broken, completed, stored, joined>>

\* IOException or IllegalStateException; only an emitter that has been
\* initialised writes to the client.
SendFails(p) ==
  LET s == Head(todo[p])
  IN  /\ pc[p] = "send"
      /\ Refuses(s) \/ (phase[s] = "open" /\ ~client[s])
      /\ broken' = [broken EXCEPT ![s] = @ \/ completed[s] = 0]
      /\ pc' = [pc EXCEPT ![p] = "close"]
      /\ UNCHANGED <<subscribers, phase, closed, client, completed, sent, stored, todo, joined>>

PublishReturns(p) ==
  /\ pc[p] = "next" /\ todo[p] = <<>>
  /\ pc' = [pc EXCEPT ![p] = "idle"]
  /\ UNCHANGED <<subscribers, phase, closed, emitterVars, stored, todo, joined>>

-----------------------------------------------------------------------------
(* closeGracefully() *)

\* The emitter's onCompletion or onError.
Callback(s) ==
  /\ phase[s] = "open" /\ Refuses(s) /\ pc[s] = "idle"
  /\ pc' = [pc EXCEPT ![s] = "close"]
  /\ UNCHANGED <<subscribers, phase, closed, emitterVars, stored, todo, joined>>

\* The stream that thread t is closing.
Target(t) == IF t \in Publisher THEN Head(todo[t]) ELSE t

\* Mutant: a subscriber that fails ends the loop over the subscribers.
Leave_ends(t) ==
  /\ pc' = [pc EXCEPT ![t] = IF t \in Publisher THEN "next" ELSE "done"]
  /\ todo' = IF t \in Publisher THEN [todo EXCEPT ![t] = <<>>] ELSE todo

\* Thread t is back from closeGracefully().
Leave(t) ==
  /\ pc' = [pc EXCEPT ![t] = IF t \in Publisher THEN "next" ELSE "done"]
  /\ todo' = IF t \in Publisher THEN [todo EXCEPT ![t] = Tail(@)] ELSE todo

\* Mutant: closed is set without a look at what it was.
CompareAndSet_setOnly(t) ==
  /\ pc[t] = "close"
  /\ closed' = [closed EXCEPT ![Target(t)] = TRUE]
  /\ pc' = [pc EXCEPT ![t] = "unsubscribe"]
  /\ UNCHANGED <<todo, subscribers, phase, emitterVars, stored, joined>>

CompareAndSet(t) ==
  /\ pc[t] = "close"
  /\ IF closed[Target(t)]
       THEN Leave(t) /\ UNCHANGED closed
       ELSE /\ closed' = [closed EXCEPT ![Target(t)] = TRUE]
            /\ pc' = [pc EXCEPT ![t] = "unsubscribe"]
            /\ UNCHANGED todo
  /\ UNCHANGED <<subscribers, phase, emitterVars, stored, joined>>

\* Mutant: subRef is never set.
Knows_never(t) == t \notin Publisher

\* The subscription that the thread knows: a publisher reads subRef.
Knows(t) == t \in Publisher => phase[Target(t)] # "subscribed"

\* The bus's list without stream s.
Without(s) ==
  IF s \in Range(subscribers)
    THEN RemoveAt(subscribers, CHOOSE i \in DOMAIN subscribers : subscribers[i] = s)
    ELSE subscribers

Unsubscribe(t) ==
  /\ pc[t] = "unsubscribe"
  /\ subscribers' = IF Knows(t) THEN Without(Target(t)) ELSE subscribers
  /\ pc' = [pc EXCEPT ![t] = "complete"]
  /\ UNCHANGED <<phase, closed, emitterVars, stored, todo, joined>>

Complete(t) ==
  /\ pc[t] = "complete"
  /\ completed' = [completed EXCEPT ![Target(t)] = @ + 1]
  /\ Leave(t)
  /\ UNCHANGED <<subscribers, phase, closed, client, broken, sent, stored, joined>>

-----------------------------------------------------------------------------
Opens(s) == Reference(s) \/ Initialise(s) \/ Callback(s)
Publishes(p) == \/ Iterate(p) \/ Accept(p) \/ Send(p) \/ SendFails(p)
                \/ PublishReturns(p)
Closes(t) == CompareAndSet(t) \/ Unsubscribe(t) \/ Complete(t)

Next ==
  \/ \E s \in Stream : Subscribe(s) \/ Opens(s) \/ ClientLeaves(s)
  \/ \E p \in Publisher : Store(p) \/ Publishes(p)
  \/ \E t \in Thread : Closes(t)

\* Threads that have begun something go on; nobody has to publish.
Fairness ==
  /\ \A s \in Stream : WF_vars(Opens(s))
  /\ \A p \in Publisher : WF_vars(Publishes(p))
  /\ \A t \in Thread : WF_vars(Closes(t))

Spec == Init /\ [][Next]_vars
FairSpec == Spec /\ Fairness

-----------------------------------------------------------------------------
Place == {"idle", "stored", "next", "send", "close", "unsubscribe", "complete", "done"}

\* Every variable has its type (the bus, and the locals of stream()).
TypeOK ==
  /\ subscribers \in Seq(Stream)
  /\ phase \in [Stream -> {"new", "subscribed", "referenced", "open"}]
  /\ closed \in [Stream -> BOOLEAN] /\ client \in [Stream -> BOOLEAN]
  /\ broken \in [Stream -> BOOLEAN] /\ completed \in [Stream -> Nat]
  /\ sent \in [Stream -> [Publisher -> Seq(Nat)]]
  /\ stored \in [Publisher -> Nat] /\ joined \in [Stream -> [Publisher -> Nat]]
  /\ pc \in [Thread -> Place]
  /\ todo \in [Publisher -> Seq(Stream)]

\* A closed stream has left the bus, once nobody is between the two steps of
\* closeGracefully() that do both: subRef is set before a send can fail.
ClosedStreamsHaveLeft ==
  \A s \in Stream :
    closed[s] /\ (\A t \in Thread : pc[t] = "unsubscribe" => Target(t) # s) =>
      s \notin Range(subscribers)

\* However many threads find the client gone, one of them completes the
\* emitter, and none does before the stream has left the bus.
CompletedOnce ==
  \A s \in Stream :
    completed[s] <= 1 /\ (completed[s] = 1 => s \notin Range(subscribers))

\* A stream whose client has gone is closed once and for all: by one thread,
\* which first takes it out of the bus.
ClosedOnceAndGone == ClosedStreamsHaveLeft /\ CompletedOnce

\* A stream that still works has every packet that was published since it
\* subscribed, once and in the order of each publisher, whatever happened to
\* the other streams: only the packet under way may be missing, and only the
\* packet that was being stored when it subscribed may be extra.
NothingIsMissed ==
  \A s \in Stream, p \in Publisher :
    phase[s] # "new" /\ ~closed[s] /\ ~broken[s] =>
      LET got == sent[s][p]
          all(from, to) == [i \in 1..(to - from) |-> from + i]
          last == {stored[p]} \cup (IF pc[p] # "idle" THEN {stored[p] - 1} ELSE {})
          first == {joined[s][p], joined[s][p] - 1}
      IN  \E from \in first, to \in last : got = all(from, to)

\* A stream whose send has failed is in the bus only while a thread has still
\* to take it out, or the container to call the emitter back, the first to do
\* so: a listed stream that all of them are done with would be offered every
\* packet from then on, and the compare-and-set would turn all of them away.
BrokenStreamsAreLeaving ==
  \A s \in Range(subscribers) : broken[s] =>
    \/ \E t \in Thread : pc[t] \in {"close", "unsubscribe"} /\ Target(t) = s
    \/ phase[s] = "open" /\ pc[s] = "idle"

\* A stream that a send has failed on is certain to be taken out, by the thread
\* that found it or by the container's callback, and is closed only once.
FailedStreamsGoOnce == ClosedOnceAndGone /\ BrokenStreamsAreLeaving

\* A stream whose send has failed leaves the bus.
BrokenStreamsLeave ==
  \A s \in Stream : broken[s] ~> s \notin Range(subscribers)

\* The tabs see the feed that they are promised: from subscription to the first
\* send that fails, a stream has every packet of every publisher in its turn,
\* and no publisher takes its next packet before those that work have this one.
Feed ==
  INSTANCE LiveFeed WITH
    published <- stored, since <- joined, got <- sent,
    line <- [s \in Stream |-> IF phase[s] = "new" THEN "new"
                              ELSE IF broken[s] THEN "over" ELSE "live"]

IsALiveFeed == Feed!Spec
==============================================================================
