------------------------------- MODULE LiveView -------------------------------
(***************************************************************************)
(* The packet list of one browser tab.  It is filled from two sides: the   *)
(* live stream brings each packet once, and loadRecent() replaces the list *)
(* by the packets the server holds of the selected run.  The page runs one *)
(* handler at a time, but loadRecent() awaits the response and then its    *)
(* body, so that live packets, other loads and a clear come in between,    *)
(* and nothing orders the responses and the events of the stream.          *)
(*                                                                         *)
(* Every packet has an id and a run (the server sees to both).  Sorting    *)
(* and filtering do not change the list and are left out, as is the        *)
(* eviction of old packets by the server's store.  Drawing is left out     *)
(* too, but for one thing: it may throw on a packet whose URL or label is  *)
(* malformed (decodeURIComponent(), app.js:1749, when a rule is compared   *)
(* with it), which ends the loop that lists an answer.                     *)
(***************************************************************************)
EXTENDS Integers, Sequences, Functions, Subsequences

CONSTANTS
  Packet, Run,
  RunOf,        \* the run of each packet
  All,          \* no run is selected: the list shows all of them
  Malformed,    \* packets on which drawing may throw
  Load,         \* bound: the calls of loadRecent()
  Limit         \* what a load asks for at most (500 in the code)

ASSUME LiveViewAssumption ==
  /\ RunOf \in [Packet -> Run] /\ All \notin Run /\ Malformed \subseteq Packet
  /\ Limit \in Nat \ {0}

VARIABLES
  stored,    \* server: the packets it holds, oldest first
  minted,    \* server: the packets that have been captured
  unsent,    \* server: packets stored and not yet sent to the stream
  wire,      \* events of the stream that the page has not handled
  packets,   \* state.packets
  seen,      \* state.seen
  selected,  \* state.selectedRunId
  stage,     \* of each load: "new", "asked", "answered", "body" or "done"
  wanted,    \* the run each load asked for
  answer,    \* the packets that answer it
  clearing,  \* whether the DELETE of a clear is under way
  mishaps    \* history: what a load has met so far (see Mishap)

serverVars == <<stored, minted, unsent, wire>>
listVars == <<packets, seen>>
loadVars == <<stage, wanted, answer>>
vars == <<serverVars, listVars, selected, loadVars, clearing, mishaps>>

Init ==
  /\ stored = <<>> /\ minted = {} /\ unsent = {} /\ wire = <<>>
  /\ packets = <<>> /\ seen = {} /\ selected = All
  /\ stage = [l \in Load |-> "new"] /\ wanted = [l \in Load |-> All]
  /\ answer = [l \in Load |-> <<>>]
  /\ clearing = FALSE /\ mishaps = {}

\* A load is overlapped by another one, overtaken by a live packet that it
\* does not bring, meets a clear, fails, or is cut short by a malformed packet.
Mishap == {"overlapped", "overtaken", "cleared", "failed", "cut"}
Note(what, when) == mishaps' = mishaps \cup {m \in {what} : when}

-----------------------------------------------------------------------------
(* Server and stream *)

\* A packet is captured and stored; its sending is another step, and other
\* publishers may be faster.
Capture(p) ==
  /\ p \notin minted
  /\ minted' = minted \cup {p}
  /\ stored' = Append(stored, p) /\ unsent' = unsent \cup {p}
  /\ UNCHANGED <<wire, listVars, selected, loadVars, clearing, mishaps>>

Emit(p) ==
  /\ p \in unsent
  /\ unsent' = unsent \ {p} /\ wire' = Append(wire, p)
  /\ UNCHANGED <<stored, minted, listVars, selected, loadVars, clearing, mishaps>>

\* The packets a list for run r shows.
Visible(s, r) == IF r = All THEN s ELSE Only(s, {p \in Packet : RunOf[p] = r})

\* GET /api/packets: the latest packets of the run, at most limit of them.
Recent(s, r, limit) ==
  LET v == Visible(s, r)
  IN  SubSeq(v, IF Len(v) > limit THEN Len(v) - limit + 1 ELSE 1, Len(v))

\* DELETE /api/packets arrives.
ServerClears ==
  /\ clearing
  /\ clearing' = FALSE /\ stored' = <<>>
  /\ UNCHANGED <<minted, unsent, wire, listVars, selected, loadVars, mishaps>>

-----------------------------------------------------------------------------
(* The page *)

\* addPacket() for each of ps in turn: one that was seen is not listed again.
News(ps) == Only(ps, Packet \ seen)
AddPackets(ps) ==
  /\ packets' = packets \o News(ps)
  /\ seen' = seen \cup Range(ps)

\* A live packet overtakes a load when the answer was taken without it and
\* the page has not yet emptied the list.
Overtakes(p) == \E l \in Load : stage[l] = "answered" /\ p \notin Range(answer[l])

Live ==
  /\ wire # <<>>
  /\ Note("overtaken", Overtakes(Head(wire)))
  /\ AddPackets(<<Head(wire)>>)
  /\ wire' = Tail(wire)
  /\ UNCHANGED <<stored, minted, unsent, selected, loadVars, clearing>>

UnderWay == {l \in Load : stage[l] \in {"asked", "answered", "body"}}

\* A run is selected (or started, or has finished, or the page has just
\* been opened), and loadRecent() asks for its packets.
Ask(l, r) ==
  /\ stage[l] = "new"
  /\ Note("overlapped", UnderWay # {})
  /\ selected' = r
  /\ wanted' = [wanted EXCEPT ![l] = r]
  /\ stage' = [stage EXCEPT ![l] = "asked"]
  /\ UNCHANGED <<serverVars, listVars, answer, clearing>>

Answer(l) ==
  /\ stage[l] = "asked"
  /\ answer' = [answer EXCEPT ![l] = Recent(stored, wanted[l], Limit)]
  /\ stage' = [stage EXCEPT ![l] = "answered"]
  /\ UNCHANGED <<serverVars, listVars, selected, wanted, clearing, mishaps>>

\* Mutant: the list is emptied, what was seen is not forgotten.
Reset_keepsSeen(l) ==
  /\ stage[l] = "answered"
  /\ packets' = <<>>
  /\ stage' = [stage EXCEPT ![l] = "body"]
  /\ UNCHANGED <<serverVars, seen, selected, wanted, answer, clearing, mishaps>>

\* The response is there: the list is emptied before its body is awaited.
Reset(l) ==
  /\ stage[l] = "answered"
  /\ packets' = <<>> /\ seen' = {}
  /\ stage' = [stage EXCEPT ![l] = "body"]
  /\ UNCHANGED <<serverVars, selected, wanted, answer, clearing, mishaps>>

\* The request failed or was refused, or its body cannot be read: the catch
\* block does nothing, the list stays as it is at that moment.
Fail(l) ==
  /\ Note("failed", TRUE)
  /\ stage[l] \in {"asked", "body"}
  /\ stage' = [stage EXCEPT ![l] = "done"]
  /\ UNCHANGED <<serverVars, listVars, selected, wanted, answer, clearing>>

\* Mutant: the answer replaces what has come by the stream meanwhile.
Fill_replaces(l) ==
  /\ stage[l] = "body"
  /\ packets' = answer[l] /\ seen' = Range(answer[l])
  /\ stage' = [stage EXCEPT ![l] = "done"]
  /\ answer' = [answer EXCEPT ![l] = <<>>]
  /\ UNCHANGED <<serverVars, selected, wanted, clearing, mishaps>>

\* The packets of the answer are added, and then all of them are drawn.  A
\* throw of the latter finds them listed and is caught.
Fill(l) ==
  /\ stage[l] = "body"
  /\ AddPackets(answer[l])
  /\ stage' = [stage EXCEPT ![l] = "done"]
  /\ answer' = [answer EXCEPT ![l] = <<>>]
  /\ UNCHANGED <<serverVars, selected, wanted, clearing, mishaps>>

\* addPacket() lists a packet, cannot draw it and throws: the rest of the
\* answer is not added, and the catch block does nothing.
FillStops(l) ==
  /\ Note("cut", TRUE)
  /\ stage[l] = "body"
  /\ \E k \in DOMAIN answer[l] :
       /\ answer[l][k] \in Malformed \ seen
       /\ AddPackets(SubSeq(answer[l], 1, k))
  /\ stage' = [stage EXCEPT ![l] = "done"]
  /\ answer' = [answer EXCEPT ![l] = <<>>]
  /\ UNCHANGED <<serverVars, selected, wanted, clearing>>

\* Clear empties the list at once and asks the server to do the same.
Clear ==
  /\ ~clearing
  /\ Note("cleared", UnderWay # {})
  /\ packets' = <<>> /\ seen' = {} /\ selected' = All
  /\ clearing' = TRUE
  /\ UNCHANGED <<serverVars, loadVars>>

-----------------------------------------------------------------------------
Answers(l) == Answer(l) \/ Reset(l) \/ Fill(l) \/ FillStops(l)

Next ==
  \/ \E p \in Packet : Capture(p) \/ Emit(p)
  \/ ServerClears \/ Live \/ Clear
  \/ \E l \in Load : Answers(l) \/ Fail(l) \/ \E r \in Run \cup {All} : Ask(l, r)

Spec == Init /\ [][Next]_vars

-----------------------------------------------------------------------------
\* Every variable has its type (the state of the page and of its requests).
TypeOK ==
  /\ stored \in Seq(Packet) /\ minted \subseteq Packet /\ unsent \subseteq Packet
  /\ wire \in Seq(Packet) /\ packets \in Seq(Packet) /\ seen \subseteq Packet
  /\ selected \in Run \cup {All} /\ wanted \in [Load -> Run \cup {All}]
  /\ stage \in [Load -> {"new", "asked", "answered", "body", "done"}]
  /\ answer \in [Load -> Seq(Packet)]
  /\ clearing \in BOOLEAN /\ mishaps \subseteq Mishap

\* However live packets, loads and clears interleave, no packet is listed
\* twice, and one is taken for seen exactly when it is listed.
ListedOnce == IsInjective(packets) /\ seen = Range(packets)

Settled == UnderWay = {} /\ unsent = {} /\ wire = <<>> /\ ~clearing

\* Once all is quiet, the list shows the packets a load would bring for the
\* selected run, as long as no load met with a mishap (it failed, overlapped
\* another one, was overtaken by a live packet or a clear, or was cut short by
\* a packet that cannot be drawn): whether a packet came by the stream, by a
\* load or by both, and before or after the history was cleared, it is there.
SettledListIsComplete ==
  Settled /\ mishaps = {} =>
    Range(Recent(stored, selected, Limit)) \subseteq Range(packets)

-----------------------------------------------------------------------------
\* The reader of the tab sees one list that grows at its end, by packets that
\* have been captured and are not listed, or is emptied: whatever comes in
\* between, no answer and no live packet takes the place of what is listed.
List == INSTANCE PacketList WITH list <- packets, captured <- minted

IsAPacketList == List!Spec
==============================================================================
