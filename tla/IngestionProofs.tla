--------------------------- MODULE IngestionProofs ---------------------------
(***************************************************************************)
(* Proofs about ingestion, for every number of sessions, runs and          *)
(* messages: the handler is type correct; a listed run that no open        *)
(* session carries any more is finished, unless it came from a file; the   *)
(* run of a stored packet is listed; and the captured counts are right.    *)
(*                                                                         *)
(* The first invariant needs two facts about a callback that is under way: *)
(* the run it touches is among the runs its session remembers, and a       *)
(* summary it is about to finish is that of the next remembered run.  The  *)
(* counts need a bound on every copy of a summary: the listed one, the one *)
(* in the saved file, and those that the callbacks hold.                   *)
(***************************************************************************)
EXTENDS Ingestion, SequenceTheorems, FiniteSetTheorems, TLAPS

\* A message that is being handled belongs to a run its session remembers.
MessageRemembered ==
  \A s \in Session :
    pc[s] \in {"touch", "touched", "publish"} => msg[s] \in Run /\ Pending(s, msg[s])

\* A run that is being finished is the next one its session remembers.
FinishesNext ==
  \A s \in Session : pc[s] = "finishing" => runIds[s] # <<>> /\ held[s] # Nobody

\* The inductive invariant.
IInv == TypeOK /\ MessageRemembered /\ FinishesNext /\ OnlyCarriedRunsAreRunning

LEMMA RememberFacts ==
  ASSUME NEW ids \in Seq(Run), NEW r \in Run
  PROVE  /\ Remember(ids, r) \in Seq(Run)
         /\ r \in Range(Remember(ids, r))
         /\ Range(ids) \subseteq Range(Remember(ids, r))
<1>1. CASE r \in Range(ids)
  BY <1>1 DEF Remember
<1>2. CASE r \notin Range(ids)
  <2>1. Remember(ids, r) = Append(ids, r)
    BY <1>2 DEF Remember
  <2>2. /\ Append(ids, r) \in Seq(Run)
        /\ Append(ids, r)[Len(ids) + 1] = r
        /\ \A i \in 1..Len(ids) : Append(ids, r)[i] = ids[i]
        /\ DOMAIN Append(ids, r) = 1..(Len(ids) + 1) /\ DOMAIN ids = 1..Len(ids)
        /\ Len(ids) \in Nat
    OBVIOUS
  <2> QED
    BY <2>1, <2>2, SMT DEF Range
<1> QED
  BY <1>1, <1>2

LEMMA TailFacts ==
  ASSUME NEW ids \in Seq(Run), ids # <<>>
  PROVE  /\ Tail(ids) \in Seq(Run) /\ Head(ids) \in Run
         /\ Range(ids) \subseteq {Head(ids)} \cup Range(Tail(ids))
<1>1. /\ Tail(ids) \in Seq(Run) /\ Head(ids) = ids[1] /\ Len(ids) \in Nat
      /\ Len(ids) >= 1 /\ Len(Tail(ids)) = Len(ids) - 1
      /\ DOMAIN ids = 1..Len(ids) /\ DOMAIN Tail(ids) = 1..(Len(ids) - 1)
      /\ \A i \in 1..(Len(ids) - 1) : Tail(ids)[i] = ids[i + 1]
  OBVIOUS
<1>2. Head(ids) \in Run
  BY <1>1
<1>3. ASSUME NEW i \in 1..Len(ids)
      PROVE  ids[i] \in {Head(ids)} \cup Range(Tail(ids))
  <2>1. CASE i = 1
    BY <2>1, <1>1
  <2>2. CASE i # 1
    <3>1. i - 1 \in DOMAIN Tail(ids) /\ Tail(ids)[i - 1] = ids[i]
      BY <1>1, <2>2, SMT
    <3> QED
      BY <3>1 DEF Range
  <2> QED
    BY <2>1, <2>2
<1> QED
  BY <1>1, <1>2, <1>3 DEF Range

LEMMA TouchedFacts ==
  ASSUME NEW e \in Summary \cup {Nobody}
  PROVE  Touched(e) \in Summary
BY NobodyAssumption, SMT DEF Touched, Summary

LEMMA FinishedFacts ==
  ASSUME NEW h \in Summary
  PROVE  /\ [h EXCEPT !.state = "FINISHED"] \in Summary
         /\ [h EXCEPT !.state = "FINISHED"].state = "FINISHED"
         /\ [h EXCEPT !.restored = TRUE] \in Summary
         /\ [h EXCEPT !.restored = TRUE].restored
<1>1. /\ [h EXCEPT !.state = "FINISHED"] \in Summary
      /\ [h EXCEPT !.state = "FINISHED"].state = "FINISHED"
  BY SMT DEF Summary
<1>2. [h EXCEPT !.restored = TRUE] \in Summary
  BY Zenon DEF Summary
<1>3. [h EXCEPT !.restored = TRUE].restored
  BY Zenon DEF Summary
<1> QED
  BY <1>1, <1>2, <1>3

-----------------------------------------------------------------------------
LEMMA InitIInv == Init => IInv
<1> SUFFICES ASSUME Init PROVE IInv
  OBVIOUS
<1>1. TypeOK
  BY EmptySeq, SMT DEF Init, TypeOK, Place
<1>2. MessageRemembered /\ FinishesNext
  BY DEF Init, MessageRemembered, FinishesNext
<1>3. OnlyCarriedRunsAreRunning
  BY DEF Init, OnlyCarriedRunsAreRunning
<1> QED
  BY <1>1, <1>2, <1>3 DEF IInv

\* Every step keeps every variable's type.
LEMMA NextTypeOK == IInv /\ [Next]_vars => TypeOK'
<1> SUFFICES ASSUME IInv, [Next]_vars PROVE TypeOK'
  OBVIOUS
<1> USE DEF IInv
<1>1. ASSUME NEW s \in Session, Connect(s) PROVE TypeOK'
  BY <1>1, SMT DEF Connect, TypeOK, Place, sessionVars
<1>2. ASSUME NEW s \in Session, Close(s) PROVE TypeOK'
  BY <1>2, SMT DEF Close, TypeOK, Place, sessionVars
<1>3. ASSUME NEW s \in Session, TouchRead(s) PROVE TypeOK'
  <2>1. msg[s] \in Run
    BY <1>3 DEF TouchRead, MessageRemembered
  <2>2. held' \in [Session -> Summary \cup {Nobody}]
    BY <1>3, <2>1 DEF TouchRead, TypeOK
  <2> QED
    BY <1>3, <2>2, SMT DEF TouchRead, TypeOK, Place
<1>4. ASSUME NEW s \in Session, TouchWrite(s) PROVE TypeOK'
  <2>1. held[s] \in Summary \cup {Nobody} /\ msg[s] \in Run
    BY <1>4 DEF TouchWrite, TypeOK, MessageRemembered
  <2>2. Touched(held[s]) \in Summary
    BY <2>1, TouchedFacts
  <2>3. list' \in [Run -> Summary \cup {Nobody}]
    BY <1>4, <2>1, <2>2 DEF TouchWrite, TypeOK
  <2> QED
    BY <1>4, <2>3, SMT DEF TouchWrite, TypeOK, Place
<1>5. ASSUME NEW s \in Session, Publish(s) PROVE TypeOK'
  <2>1. msg[s] \in Run
    BY <1>5 DEF Publish, MessageRemembered
  <2> QED
    BY <1>5, <2>1, SMT DEF Publish, TypeOK, Place
<1>6. ASSUME NEW s \in Session, Closed(s) PROVE TypeOK'
  BY <1>6, SMT DEF Closed, TypeOK, Place, sessionVars
<1>7. ASSUME NEW s \in Session, FinishRead(s) PROVE TypeOK'
  <2>1. runIds[s] \in Seq(Run) /\ runIds[s] # <<>>
    BY <1>7 DEF FinishRead, TypeOK
  <2>2. Head(runIds[s]) \in Run /\ Tail(runIds[s]) \in Seq(Run)
    BY <2>1, TailFacts
  <2>3. runIds' \in [Session -> Seq(Run)]
    BY <1>7, <2>2 DEF FinishRead, TypeOK
  <2>4. held' \in [Session -> Summary \cup {Nobody}]
    BY <1>7, <2>2 DEF FinishRead, TypeOK
  <2>5. pc' \in [Session -> Place]
    BY <1>7, ZenonT(40) DEF FinishRead, TypeOK, Place
  <2> QED
    BY <1>7, <2>3, <2>4, <2>5, SMT DEF FinishRead, TypeOK
<1>8. ASSUME NEW s \in Session, FinishWrite(s) PROVE TypeOK'
  <2>1. runIds[s] \in Seq(Run) /\ runIds[s] # <<>> /\ held[s] \in Summary
    BY <1>8 DEF FinishWrite, TypeOK, FinishesNext
  <2>2. Head(runIds[s]) \in Run /\ Tail(runIds[s]) \in Seq(Run)
    BY <2>1, TailFacts
  <2>3. list' \in [Run -> Summary \cup {Nobody}]
    BY <1>8, <2>1, <2>2, FinishedFacts DEF FinishWrite, TypeOK
  <2>4. runIds' \in [Session -> Seq(Run)]
    BY <1>8, <2>2 DEF FinishWrite, TypeOK
  <2> QED
    BY <1>8, <2>3, <2>4, SMT DEF FinishWrite, TypeOK, Place
<1>9. ASSUME NEW s \in Session, NEW given \in Carried[s], Receive(s, given) PROVE TypeOK'
  <2> DEFINE r == IF given = Nobody THEN Fallback[s] ELSE given
  <2>1. r \in Run
    BY IngestionAssumption
  <2>2. Remember(runIds[s], r) \in Seq(Run)
    BY <2>1, RememberFacts DEF TypeOK
  <2> HIDE DEF r
  <2>3. runIds' \in [Session -> Seq(Run)] /\ msg' \in [Session -> Run \cup {Nobody}]
    BY <1>9, <2>1, <2>2 DEF Receive, TypeOK, r
  <2>4. touches' \in [Run -> Nat] /\ received' \in [Session -> Nat]
    BY <1>9, <2>1, SMT DEF Receive, TypeOK, r
  <2> QED
    BY <1>9, <2>3, <2>4, SMT DEF Receive, TypeOK, Place
<1>10. ASSUME ClearPackets PROVE TypeOK'
  BY <1>10, SMT DEF ClearPackets, TypeOK, Place, sessionVars
<1>11. ASSUME ClearRuns PROVE TypeOK'
  BY <1>11, SMT DEF ClearRuns, TypeOK, Place, sessionVars
<1>12. ASSUME SaveRuns PROVE TypeOK'
  BY <1>12, SMT DEF SaveRuns, TypeOK, Place, sessionVars
<1>13. ASSUME NEW r \in Run, LoadRun(r) PROVE TypeOK'
  <2>1. file[r] \in Summary
    BY <1>13 DEF LoadRun, TypeOK
  <2>2. list' \in [Run -> Summary \cup {Nobody}]
    BY <1>13, <2>1, FinishedFacts DEF LoadRun, TypeOK
  <2> QED
    BY <1>13, <2>2, SMT DEF LoadRun, TypeOK, sessionVars
<1>14. CASE UNCHANGED vars
  BY <1>14, SMT DEF TypeOK, vars, sessionVars
<1> QED
  BY <1>1, <1>2, <1>3, <1>4, <1>5, <1>6, <1>7, <1>8, <1>9, <1>10, <1>11, <1>12, <1>13, <1>14 DEF Next, Handles

\* Every step keeps what is known of the callbacks under way.
LEMMA NextCallback == IInv /\ [Next]_vars => (MessageRemembered /\ FinishesNext)'
<1> SUFFICES ASSUME IInv, [Next]_vars PROVE (MessageRemembered /\ FinishesNext)'
  OBVIOUS
<1> USE DEF IInv
<1>1. ASSUME NEW s \in Session, Connect(s) PROVE (MessageRemembered /\ FinishesNext)'
  BY <1>1 DEF Connect, TypeOK, MessageRemembered, FinishesNext, Pending, sessionVars
<1>2. ASSUME NEW s \in Session, Close(s) PROVE (MessageRemembered /\ FinishesNext)'
  BY <1>2 DEF Close, TypeOK, MessageRemembered, FinishesNext, Pending, sessionVars
<1>3. ASSUME NEW s \in Session, TouchRead(s) PROVE (MessageRemembered /\ FinishesNext)'
  BY <1>3 DEF TouchRead, TypeOK, MessageRemembered, FinishesNext, Pending, sessionVars
<1>4. ASSUME NEW s \in Session, TouchWrite(s) PROVE (MessageRemembered /\ FinishesNext)'
  BY <1>4 DEF TouchWrite, TypeOK, MessageRemembered, FinishesNext, Pending, sessionVars
<1>5. ASSUME NEW s \in Session, Publish(s) PROVE (MessageRemembered /\ FinishesNext)'
  BY <1>5 DEF Publish, TypeOK, MessageRemembered, FinishesNext, Pending, sessionVars
<1>6. ASSUME NEW s \in Session, Closed(s) PROVE (MessageRemembered /\ FinishesNext)'
  BY <1>6 DEF Closed, TypeOK, MessageRemembered, FinishesNext, Pending, sessionVars
<1>7. ASSUME NEW s \in Session, FinishRead(s) PROVE (MessageRemembered /\ FinishesNext)'
  <2>1. runIds[s] \in Seq(Run) /\ runIds[s] # <<>> /\ pc[s] = "finish"
    BY <1>7 DEF FinishRead, TypeOK
  <2> QED
    BY <1>7, <2>1 DEF FinishRead, TypeOK, MessageRemembered, FinishesNext, Pending
<1>8. ASSUME NEW s \in Session, FinishWrite(s) PROVE (MessageRemembered /\ FinishesNext)'
  BY <1>8 DEF FinishWrite, TypeOK, MessageRemembered, FinishesNext, Pending, sessionVars
<1>9. ASSUME NEW s \in Session, NEW given \in Carried[s], Receive(s, given) PROVE (MessageRemembered /\ FinishesNext)'
  <2> DEFINE r == IF given = Nobody THEN Fallback[s] ELSE given
  <2>1. r \in Run
    BY IngestionAssumption
  <2>2. r \in Range(Remember(runIds[s], r))
    BY <2>1, RememberFacts DEF TypeOK
  <2> HIDE DEF r
  <2> QED
    BY <1>9, <2>1, <2>2 DEF Receive, TypeOK, MessageRemembered, FinishesNext, Pending, r
<1>10. ASSUME ClearPackets PROVE (MessageRemembered /\ FinishesNext)'
  BY <1>10 DEF ClearPackets, TypeOK, MessageRemembered, FinishesNext, Pending, sessionVars
<1>11. ASSUME ClearRuns PROVE (MessageRemembered /\ FinishesNext)'
  BY <1>11 DEF ClearRuns, TypeOK, MessageRemembered, FinishesNext, Pending, sessionVars
<1>12. ASSUME SaveRuns PROVE (MessageRemembered /\ FinishesNext)'
  BY <1>12 DEF SaveRuns, TypeOK, MessageRemembered, FinishesNext, Pending, sessionVars
<1>13. ASSUME NEW r \in Run, LoadRun(r) PROVE (MessageRemembered /\ FinishesNext)'
  BY <1>13 DEF LoadRun, TypeOK, MessageRemembered, FinishesNext, Pending, sessionVars
<1>14. CASE UNCHANGED vars
  BY <1>14 DEF MessageRemembered, FinishesNext, Pending, vars, sessionVars
<1> QED
  BY <1>1, <1>2, <1>3, <1>4, <1>5, <1>6, <1>7, <1>8, <1>9, <1>10, <1>11, <1>12, <1>13, <1>14 DEF Next, Handles

\* Every step leaves a run that nobody carries finished, restored or unlisted.
LEMMA NextCarried == IInv /\ [Next]_vars => OnlyCarriedRunsAreRunning'
<1> SUFFICES ASSUME IInv, [Next]_vars PROVE OnlyCarriedRunsAreRunning'
  OBVIOUS
<1> USE DEF IInv
<1>1. ASSUME NEW s \in Session, Connect(s) PROVE OnlyCarriedRunsAreRunning'
  BY <1>1 DEF Connect, TypeOK, OnlyCarriedRunsAreRunning, Pending, sessionVars
<1>2. ASSUME NEW s \in Session, Close(s) PROVE OnlyCarriedRunsAreRunning'
  BY <1>2 DEF Close, TypeOK, OnlyCarriedRunsAreRunning, Pending, sessionVars
<1>3. ASSUME NEW s \in Session, TouchRead(s) PROVE OnlyCarriedRunsAreRunning'
  BY <1>3 DEF TouchRead, TypeOK, OnlyCarriedRunsAreRunning, Pending, sessionVars
<1>4. ASSUME NEW s \in Session, TouchWrite(s) PROVE OnlyCarriedRunsAreRunning'
  <2>1. msg[s] \in Run /\ Pending(s, msg[s])'
    BY <1>4 DEF TouchWrite, MessageRemembered, Pending
  <2>2. ASSUME NEW q \in Run, q # msg[s] PROVE list'[q] = list[q]
    BY <1>4, <2>2 DEF TouchWrite, TypeOK
  <2> QED
    BY <1>4, <2>1, <2>2 DEF TouchWrite, OnlyCarriedRunsAreRunning, Pending
<1>5. ASSUME NEW s \in Session, Publish(s) PROVE OnlyCarriedRunsAreRunning'
  BY <1>5 DEF Publish, TypeOK, OnlyCarriedRunsAreRunning, Pending, sessionVars
<1>6. ASSUME NEW s \in Session, Closed(s) PROVE OnlyCarriedRunsAreRunning'
  BY <1>6 DEF Closed, OnlyCarriedRunsAreRunning, Pending
<1>7. ASSUME NEW s \in Session, FinishRead(s) PROVE OnlyCarriedRunsAreRunning'
  <2>1. runIds[s] \in Seq(Run) /\ runIds[s] # <<>> /\ list' = list
    BY <1>7 DEF FinishRead, TypeOK
  <2>2. Range(runIds[s]) \subseteq {Head(runIds[s])} \cup Range(Tail(runIds[s]))
    BY <2>1, TailFacts
  <2>3. CASE list[Head(runIds[s])] = Nobody
    <3>1. \A t \in Session : Range(runIds[t]) \subseteq {Head(runIds[s])} \cup Range(runIds'[t])
      BY <1>7, <2>2, <2>3 DEF FinishRead, TypeOK
    <3> QED
      BY <2>1, <2>3, <3>1 DEF OnlyCarriedRunsAreRunning, Pending
  <2>4. CASE list[Head(runIds[s])] # Nobody
    BY <1>7, <2>4 DEF FinishRead, OnlyCarriedRunsAreRunning, Pending
  <2> QED
    BY <2>3, <2>4
<1>8. ASSUME NEW s \in Session, FinishWrite(s) PROVE OnlyCarriedRunsAreRunning'
  <2>1. runIds[s] \in Seq(Run) /\ runIds[s] # <<>> /\ held[s] \in Summary
    BY <1>8 DEF FinishWrite, TypeOK, FinishesNext
  <2>2. /\ Head(runIds[s]) \in Run
        /\ Range(runIds[s]) \subseteq {Head(runIds[s])} \cup Range(Tail(runIds[s]))
    BY <2>1, TailFacts
  <2>3. \A t \in Session : Range(runIds[t]) \subseteq {Head(runIds[s])} \cup Range(runIds'[t])
    BY <1>8, <2>2 DEF FinishWrite, TypeOK
  <2>4. list'[Head(runIds[s])].state = "FINISHED"
    BY <1>8, <2>1, <2>2, FinishedFacts DEF FinishWrite, TypeOK
  <2>5. \A q \in Run : q # Head(runIds[s]) => list'[q] = list[q]
    BY <1>8 DEF FinishWrite, TypeOK
  <2> QED
    BY <2>3, <2>4, <2>5 DEF OnlyCarriedRunsAreRunning, Pending
<1>9. ASSUME NEW s \in Session, NEW given \in Carried[s], Receive(s, given) PROVE OnlyCarriedRunsAreRunning'
  <2> DEFINE r == IF given = Nobody THEN Fallback[s] ELSE given
  <2>1. r \in Run
    BY IngestionAssumption
  <2>2. Range(runIds[s]) \subseteq Range(Remember(runIds[s], r))
    BY <2>1, RememberFacts DEF TypeOK
  <2> HIDE DEF r
  <2>3. \A t \in Session : Range(runIds[t]) \subseteq Range(runIds'[t])
    BY <1>9, <2>2 DEF Receive, TypeOK, r
  <2>4. list' = list
    BY <1>9 DEF Receive
  <2> QED
    BY <2>3, <2>4 DEF OnlyCarriedRunsAreRunning, Pending
<1>10. ASSUME ClearPackets PROVE OnlyCarriedRunsAreRunning'
  BY <1>10 DEF ClearPackets, TypeOK, OnlyCarriedRunsAreRunning, Pending, sessionVars
<1>11. ASSUME ClearRuns PROVE OnlyCarriedRunsAreRunning'
  BY <1>11 DEF ClearRuns, TypeOK, OnlyCarriedRunsAreRunning, Pending, sessionVars
<1>12. ASSUME SaveRuns PROVE OnlyCarriedRunsAreRunning'
  BY <1>12 DEF SaveRuns, TypeOK, OnlyCarriedRunsAreRunning, Pending, sessionVars
<1>13. ASSUME NEW r \in Run, LoadRun(r) PROVE OnlyCarriedRunsAreRunning'
  <2>1. file[r] \in Summary
    BY <1>13 DEF LoadRun, TypeOK
  <2>2. list'[r].restored
    BY <1>13, <2>1, FinishedFacts DEF LoadRun, TypeOK
  <2>3. \A q \in Run : q # r => list'[q] = list[q]
    BY <1>13 DEF LoadRun, TypeOK
  <2> QED
    BY <1>13, <2>2, <2>3 DEF LoadRun, OnlyCarriedRunsAreRunning, Pending, sessionVars
<1>14. CASE UNCHANGED vars
  BY <1>14 DEF OnlyCarriedRunsAreRunning, Pending, vars, sessionVars
<1> QED
  BY <1>1, <1>2, <1>3, <1>4, <1>5, <1>6, <1>7, <1>8, <1>9, <1>10, <1>11, <1>12, <1>13, <1>14 DEF Next, Handles

-----------------------------------------------------------------------------
LEMMA Inductive == Spec => []IInv
<1>1. IInv /\ [Next]_vars => IInv'
  BY NextTypeOK, NextCallback, NextCarried DEF IInv
<1> QED
  BY InitIInv, <1>1, PTL DEF Spec

\* The handler, the run list and the session files are type correct, for any
\* number of sessions, runs and messages (IngestionWebSocketHandler).
THEOREM TypeCorrect == Spec => []TypeOK
<1>1. IInv => TypeOK
  BY DEF IInv
<1> QED
  BY Inductive, <1>1, PTL

\* A run is RUNNING in the list only while a session still carries it, or
\* because its summary was loaded from a file, however the reads and writes
\* of touchRun(), finishRun(), clears and loads interleave.
THEOREM CarriedOrFinished == Spec => []OnlyCarriedRunsAreRunning
<1>1. IInv => OnlyCarriedRunsAreRunning
  BY DEF IInv
<1> QED
  BY Inductive, <1>1, PTL

-----------------------------------------------------------------------------
(* The packets that are stored belong to a run that is listed. *)

\* Nothing is cleared, and what is stored or about to be is listed.
ListedFirst ==
  "cleared" \notin upsets =>
    /\ clearPc = "idle"
    /\ \A r \in Run : stored[r] > 0 => list[r] # Nobody
    /\ \A s \in Session : pc[s] = "publish" => list[msg[s]] # Nobody

\* A run is touched before its packet is published, and nothing but a clear
\* unlists it.
LEMMA NextListedFirst == IInv /\ ListedFirst /\ [Next]_vars => ListedFirst'
<1>. SUFFICES ASSUME IInv, ListedFirst, [Next]_vars, "cleared" \notin upsets'
              PROVE  ListedFirst'
  BY DEF ListedFirst
<1>. USE DEF IInv, TypeOK, ListedFirst, MessageRemembered
<1>0. "cleared" \notin upsets
  BY DEF Next, Handles, Connect, Close, TouchRead, TouchWrite, Publish, Closed, FinishRead,
         FinishWrite, Receive, ClearPackets, ClearRuns, SaveRuns, LoadRun, vars, sessionVars
<1>1. ASSUME NEW s \in Session, Connect(s) \/ Close(s) \/ TouchRead(s) \/ Closed(s) \/ FinishRead(s)
      PROVE  ListedFirst'
  BY <1>0, <1>1 DEF Connect, Close, TouchRead, Closed, FinishRead
<1>2. ASSUME NEW s \in Session, TouchWrite(s) PROVE ListedFirst'
  <2>1. msg[s] \in Run /\ Touched(held[s]) # Nobody
    BY <1>2, TouchedFacts, NobodyAssumption DEF TouchWrite
  <2>. QED
    BY <1>0, <1>2, <2>1 DEF TouchWrite
<1>3. ASSUME NEW s \in Session, Publish(s) PROVE ListedFirst'
  BY <1>0, <1>3 DEF Publish
<1>4. ASSUME NEW s \in Session, FinishWrite(s) PROVE ListedFirst'
  <2>1. runIds[s] \in Seq(Run) /\ runIds[s] # <<>> /\ held[s] \in Summary
    BY <1>4 DEF FinishWrite, FinishesNext
  <2>2. Head(runIds[s]) \in Run /\ [held[s] EXCEPT !.state = "FINISHED"] # Nobody
    <3>1. [held[s] EXCEPT !.state = "FINISHED"] \in Summary
      BY <2>1, FinishedFacts
    <3>. QED
      BY <2>1, <3>1, TailFacts, NobodyAssumption
  <2>3. \A r \in Run : list[r] # Nobody => list'[r] # Nobody
    BY <1>4, <2>2 DEF FinishWrite
  <2>4. \A t \in Session : pc'[t] = "publish" => pc[t] = "publish"
    BY <1>4 DEF FinishWrite
  <2>5. UNCHANGED <<clearPc, stored, msg>>
    BY <1>4 DEF FinishWrite
  <2>. QED
    BY <1>0, <2>3, <2>4, <2>5
<1>5. ASSUME NEW s \in Session, NEW given \in Carried[s], Receive(s, given) PROVE ListedFirst'
  BY <1>0, <1>5 DEF Receive
<1>6. ASSUME NEW r \in Run, LoadRun(r) PROVE ListedFirst'
  <2>1. [file[r] EXCEPT !.restored = TRUE] # Nobody
    <3>1. file[r] \in Summary
      BY <1>6 DEF LoadRun
    <3>2. [file[r] EXCEPT !.restored = TRUE] \in Summary
      BY <3>1, FinishedFacts
    <3>. QED
      BY <3>2, NobodyAssumption
  <2>. QED
    BY <1>0, <1>6, <2>1 DEF LoadRun, sessionVars
<1>7. CASE ClearPackets \/ ClearRuns \/ SaveRuns \/ UNCHANGED vars
  BY <1>0, <1>7 DEF ClearPackets, ClearRuns, SaveRuns, vars, sessionVars
<1>. QED
  BY <1>1, <1>2, <1>3, <1>4, <1>5, <1>6, <1>7 DEF Next, Handles

\* The packet of a message is published after its run was listed, whatever the
\* other sessions do, and only a clear takes the run away again.
THEOREM StoredAreListed == Spec => []StoredPacketsAreListed
<1>1. Init => ListedFirst
  BY DEF Init, ListedFirst
<1>2. ListedFirst => StoredPacketsAreListed
  BY DEF ListedFirst, StoredPacketsAreListed
<1>. QED
  BY Inductive, <1>1, NextListedFirst, <1>2, PTL DEF Spec

-----------------------------------------------------------------------------
(* What the counts are worth. *)

\* The sessions whose message is received but not yet counted in run r, and
\* the messages of run r that are done with the run list.
Waiting(r) == {s \in Session : pc[s] \in {"touch", "touched"} /\ msg[s] = r}
Done(r) == touches[r] - Cardinality(Waiting(r))

\* The callback of session s holds the summary of run r.
About(s, r) == \/ pc[s] = "touched" /\ msg[s] = r
               \/ pc[s] = "finishing" /\ Head(runIds[s]) = r

\* No copy of a run's summary, listed, saved or held by a callback, counts
\* more messages than are done.
CountsBounded ==
  \A r \in Run :
    /\ Done(r) >= 0
    /\ list[r] # Nobody => list[r].captured <= Done(r)
    /\ file[r] # Nobody => file[r].captured <= Done(r)
    /\ \A s \in Session : About(s, r) /\ held[s] # Nobody => held[s].captured <= Done(r)

\* A session only handles runs that it carries.
CarriedOnly ==
  \A s \in Session : /\ msg[s] # Nobody => s \in Carriers(msg[s])
                     /\ \A r \in Range(runIds[s]) : s \in Carriers(r)

\* The one session that carries a run holds the summary that is listed.
HoldsTheListed ==
  \A r \in Run, s \in Session :
    Carriers(r) = {s} /\ upsets = {} /\ About(s, r) => held[s] = list[r]

LEMMA WaitingFinite ==
  ASSUME NEW r
  PROVE  IsFiniteSet(Waiting(r)) /\ Cardinality(Waiting(r)) \in Nat
BY IngestionAssumption, FS_Subset, FS_CardinalityType DEF Waiting

\* Handling a message leaves no message less done than it was, and the write
\* of touchRun() makes one more done.
LEMMA DoneStep ==
  ASSUME IInv, [Next]_vars, NEW r \in Run
  PROVE  /\ Done(r) \in Int /\ Done(r)' \in Int /\ Done(r)' >= Done(r)
         /\ \A s \in Session : TouchWrite(s) /\ msg[s] = r => Done(r)' = Done(r) + 1
<1>. USE DEF IInv
<1>1. /\ touches[r] \in Nat /\ touches'[r] \in Nat
      /\ IsFiniteSet(Waiting(r)) /\ Cardinality(Waiting(r)) \in Nat
      /\ pc \in [Session -> Place] /\ msg \in [Session -> Run \cup {Nobody}]
  BY NextTypeOK, WaitingFinite DEF TypeOK
<1>2. ASSUME NEW s \in Session, NEW given \in Carried[s], Receive(s, given)
      PROVE  Done(r)' = Done(r)
  <2>. DEFINE q == IF given = Nobody THEN Fallback[s] ELSE given
  <2>1. /\ pc[s] = "idle" /\ pc' = [pc EXCEPT ![s] = "touch"]
        /\ msg' = [msg EXCEPT ![s] = q] /\ touches' = [touches EXCEPT ![q] = @ + 1]
    BY <1>2 DEF Receive
  <2>. HIDE DEF q
  <2>2. CASE q = r
    <3>1. Waiting(r)' = Waiting(r) \cup {s} /\ s \notin Waiting(r)
      BY <1>1, <2>1, <2>2 DEF Waiting
    <3>2. Cardinality(Waiting(r)') = Cardinality(Waiting(r)) + 1
      BY <1>1, <3>1, FS_AddElement
    <3>3. touches'[r] = touches[r] + 1
      BY <2>1, <2>2 DEF TypeOK
    <3>. QED
      BY <1>1, <3>2, <3>3 DEF Done
  <2>3. CASE q # r
    <3>1. Waiting(r)' = Waiting(r)
      BY <1>1, <2>1, <2>3 DEF Waiting
    <3>2. touches'[r] = touches[r]
      BY <2>1, <2>3 DEF TypeOK
    <3>. QED
      BY <3>1, <3>2 DEF Done
  <2>. QED
    BY <2>2, <2>3
<1>3. ASSUME NEW s \in Session, TouchWrite(s)
      PROVE  Done(r)' = IF msg[s] = r THEN Done(r) + 1 ELSE Done(r)
  <2>1. /\ pc[s] = "touched" /\ pc' = [pc EXCEPT ![s] = "publish"]
        /\ msg' = msg /\ touches' = touches
    BY <1>3 DEF TouchWrite
  <2>2. CASE msg[s] = r
    <3>1. Waiting(r)' = Waiting(r) \ {s} /\ s \in Waiting(r)
      BY <1>1, <2>1, <2>2 DEF Waiting
    <3>2. Cardinality(Waiting(r)') = Cardinality(Waiting(r)) - 1
      BY <1>1, <3>1, FS_RemoveElement
    <3>. QED
      BY <1>1, <2>1, <2>2, <3>2 DEF Done
  <2>3. CASE msg[s] # r
    <3>1. Waiting(r)' = Waiting(r)
      BY <1>1, <2>1, <2>3 DEF Waiting
    <3>. QED
      BY <2>1, <2>3, <3>1 DEF Done
  <2>. QED
    BY <2>2, <2>3
<1>4. ASSUME NEW s \in Session,
             \/ Connect(s) \/ Close(s) \/ TouchRead(s) \/ Publish(s) \/ Closed(s)
             \/ FinishRead(s) \/ FinishWrite(s)
      PROVE  Done(r)' = Done(r) /\ ~TouchWrite(s)
  <2>1. Waiting(r)' = Waiting(r) /\ touches' = touches
    BY <1>1, <1>4 DEF Connect, Close, TouchRead, Publish, Closed, FinishRead, FinishWrite, Waiting, Place
  <2>2. ~TouchWrite(s)
    BY <1>1, <1>4 DEF Connect, Close, TouchRead, TouchWrite, Publish, Closed, FinishRead, FinishWrite, TypeOK
  <2>. QED
    BY <2>1, <2>2 DEF Done
<1>5. ASSUME \/ ClearPackets \/ ClearRuns \/ SaveRuns \/ (\E q \in Run : LoadRun(q))
             \/ UNCHANGED vars
      PROVE  Done(r)' = Done(r)
  <2>1. Waiting(r)' = Waiting(r) /\ touches' = touches
    BY <1>5 DEF ClearPackets, ClearRuns, SaveRuns, LoadRun, vars, sessionVars, Waiting
  <2>. QED
    BY <2>1 DEF Done
<1>6. Done(r) \in Int
  BY <1>1 DEF Done
<1>7. ASSUME NEW s \in Session, TouchWrite(s), msg[s] = r PROVE Done(r)' = Done(r) + 1
  BY <1>3, <1>7
<1>8. Done(r)' \in {Done(r), Done(r) + 1}
  <2>1. CASE \E s \in Session : TouchWrite(s)
    BY <1>3, <2>1
  <2>2. CASE \A s \in Session : ~TouchWrite(s)
    <3>1. Done(r)' = Done(r)
      BY <1>2, <1>4, <1>5, <2>2 DEF Next, Handles
    <3>. QED
      BY <3>1
  <2>. QED
    BY <2>1, <2>2
<1>. QED
  BY <1>6, <1>7, <1>8

LEMMA NextCountsBounded == IInv /\ CountsBounded /\ [Next]_vars => CountsBounded'
<1>. SUFFICES ASSUME IInv, CountsBounded, [Next]_vars, NEW r \in Run
              PROVE  /\ Done(r)' >= 0
                     /\ list'[r] # Nobody => list'[r].captured <= Done(r)'
                     /\ file'[r] # Nobody => file'[r].captured <= Done(r)'
                     /\ \A s \in Session : About(s, r)' /\ held'[s] # Nobody =>
                                            held'[s].captured <= Done(r)'
  BY DEF CountsBounded
<1>. USE DEF IInv
<1>1. /\ Done(r) \in Int /\ Done(r)' \in Int /\ Done(r)' >= Done(r) /\ Done(r) >= 0
      /\ \A s \in Session : TouchWrite(s) /\ msg[s] = r => Done(r)' = Done(r) + 1
  BY DoneStep DEF CountsBounded
<1>2. \A e \in Summary : e.captured \in Nat
  BY DEF Summary
\* Every copy of the summary was within bounds, and still is if it is kept.
<1>. DEFINE Kept(e) == e # Nobody => e.captured <= Done(r)'
<1>3. /\ Kept(list[r]) /\ Kept(file[r])
      /\ \A s \in Session : About(s, r) => Kept(held[s])
  BY <1>1, <1>2 DEF TypeOK, CountsBounded
<1>4. Done(r)' >= 0
  BY <1>1
<1>. HIDE DEF Kept
<1>5. SUFFICES /\ Kept(list'[r]) /\ Kept(file'[r])
               /\ \A s \in Session : About(s, r)' => Kept(held'[s])
  BY <1>4 DEF Kept
<1>6. ASSUME NEW s \in Session, Connect(s) \/ Close(s) \/ Publish(s) \/ Closed(s)
      PROVE  /\ Kept(list'[r]) /\ Kept(file'[r])
             /\ \A t \in Session : About(t, r)' => Kept(held'[t])
  BY <1>3, <1>6 DEF Connect, Close, Publish, Closed, About, TypeOK, Place
<1>7. ASSUME NEW s \in Session, TouchRead(s)
      PROVE  /\ Kept(list'[r]) /\ Kept(file'[r])
             /\ \A t \in Session : About(t, r)' => Kept(held'[t])
  BY <1>3, <1>7 DEF TouchRead, About, TypeOK, Place
<1>8. ASSUME NEW s \in Session, TouchWrite(s)
      PROVE  /\ Kept(list'[r]) /\ Kept(file'[r])
             /\ \A t \in Session : About(t, r)' => Kept(held'[t])
  <2>1. CASE msg[s] = r
    <3>1. held[s] # Nobody => held[s].captured <= Done(r) /\ held[s].captured \in Nat
      BY <1>2, <1>8, <2>1 DEF CountsBounded, About, TouchWrite, TypeOK
    <3>2. Done(r)' = Done(r) + 1
      BY <1>1, <1>8, <2>1
    <3>3. Touched(held[s]).captured <= Done(r)'
      BY <1>1, <3>1, <3>2 DEF Touched
    <3>4. list'[r] = Touched(held[s])
      BY <1>8, <2>1 DEF TouchWrite, TypeOK
    <3>5. Kept(list'[r])
      BY <3>3, <3>4 DEF Kept
    <3>. QED
      BY <1>3, <1>8, <3>5 DEF TouchWrite, About, TypeOK, Place
  <2>2. CASE msg[s] # r
    BY <1>3, <1>8, <2>2 DEF TouchWrite, About, TypeOK, Place
  <2>. QED
    BY <2>1, <2>2
<1>9. ASSUME NEW s \in Session, FinishRead(s)
      PROVE  /\ Kept(list'[r]) /\ Kept(file'[r])
             /\ \A t \in Session : About(t, r)' => Kept(held'[t])
  <2>1. UNCHANGED <<list, file, msg>>
    BY <1>9 DEF FinishRead
  <2>2. \A t \in Session : t # s => pc'[t] = pc[t] /\ runIds'[t] = runIds[t] /\ held'[t] = held[t]
    BY <1>9 DEF FinishRead, TypeOK
  <2>3. CASE list[Head(runIds[s])] = Nobody
    <3>1. pc[s] = "finish" /\ pc' = pc
      BY <1>9, <2>3 DEF FinishRead
    <3>. QED
      BY <1>3, <2>1, <2>2, <3>1 DEF About
  <2>4. CASE list[Head(runIds[s])] # Nobody
    <3>1. /\ pc'[s] = "finishing" /\ runIds' = runIds
          /\ held'[s] = list[Head(runIds[s])]
      BY <1>9, <2>4 DEF FinishRead, TypeOK
    <3>. QED
      BY <1>3, <2>1, <2>2, <3>1 DEF About
  <2>. QED
    BY <2>3, <2>4
<1>10. ASSUME NEW s \in Session, FinishWrite(s)
       PROVE  /\ Kept(list'[r]) /\ Kept(file'[r])
              /\ \A t \in Session : About(t, r)' => Kept(held'[t])
  <2>1. Head(runIds[s]) = r => Kept([held[s] EXCEPT !.state = "FINISHED"])
    <3>1. held[s] \in Summary
      BY <1>10 DEF FinishWrite, FinishesNext, TypeOK
    <3>2. [held[s] EXCEPT !.state = "FINISHED"].captured = held[s].captured
      BY <3>1 DEF Summary
    <3>3. Head(runIds[s]) = r => held[s].captured <= Done(r)'
      BY <1>3, <1>10, <3>1, NobodyAssumption DEF FinishWrite, About, Kept
    <3>. QED
      BY <3>2, <3>3 DEF Kept
  <2>. HIDE DEF IInv
  <2>2. Kept(list'[r])
    BY <1>3, <1>10, <2>1 DEF FinishWrite, IInv, TypeOK
  <2>3. ASSUME NEW t \in Session, About(t, r)' PROVE Kept(held'[t])
    BY <1>3, <1>10, <2>3 DEF FinishWrite, About, IInv, TypeOK
  <2>. QED
    BY <1>3, <1>10, <2>2, <2>3 DEF FinishWrite
<1>11. ASSUME NEW s \in Session, NEW given \in Carried[s], Receive(s, given)
       PROVE  /\ Kept(list'[r]) /\ Kept(file'[r])
              /\ \A t \in Session : About(t, r)' => Kept(held'[t])
  BY <1>3, <1>11 DEF Receive, About, TypeOK, Place
<1>12. ASSUME NEW q \in Run, LoadRun(q)
       PROVE  /\ Kept(list'[r]) /\ Kept(file'[r])
              /\ \A t \in Session : About(t, r)' => Kept(held'[t])
  <2>1. q = r => Kept([file[r] EXCEPT !.restored = TRUE])
    <3>1. SUFFICES ASSUME q = r PROVE Kept([file[r] EXCEPT !.restored = TRUE])
      OBVIOUS
    <3>2. file[r] \in Summary
      BY <1>12, <3>1 DEF LoadRun, TypeOK
    <3>3. [file[r] EXCEPT !.restored = TRUE].captured = file[r].captured
      BY <3>2, Zenon DEF Summary
    <3>. QED
      BY <1>3, <3>2, <3>3, NobodyAssumption DEF Kept
  <2>2. UNCHANGED <<pc, msg, held, runIds, file>>
    BY <1>12 DEF LoadRun, sessionVars
  <2>3. list'[r] = IF q = r THEN [file[r] EXCEPT !.restored = TRUE] ELSE list[r]
    BY <1>12, Zenon DEF LoadRun, TypeOK
  <2>. QED
    BY <1>3, <2>1, <2>2, <2>3 DEF About
<1>13. ASSUME ClearPackets \/ ClearRuns \/ SaveRuns \/ UNCHANGED vars
       PROVE  /\ Kept(list'[r]) /\ Kept(file'[r])
              /\ \A t \in Session : About(t, r)' => Kept(held'[t])
  <2>1. UNCHANGED <<pc, msg, held, runIds>>
    BY <1>13 DEF ClearPackets, ClearRuns, SaveRuns, vars, sessionVars
  <2>2. list'[r] \in {list[r], Nobody} /\ file'[r] \in {file[r], list[r]}
    BY <1>13 DEF ClearPackets, ClearRuns, SaveRuns, vars, sessionVars
  <2>. QED
    BY <1>3, <2>1, <2>2 DEF About, Kept
<1>. QED
  BY <1>6, <1>7, <1>8, <1>9, <1>10, <1>11, <1>12, <1>13 DEF Next, Handles

\* A message makes its session a carrier of its run, and nothing else does.
LEMMA NextCarriedOnly == IInv /\ CarriedOnly /\ [Next]_vars => CarriedOnly'
<1>. SUFFICES ASSUME IInv, CarriedOnly, [Next]_vars PROVE CarriedOnly'
  OBVIOUS
<1>. USE DEF IInv
<1>1. ASSUME NEW s \in Session, NEW given \in Carried[s], Receive(s, given) PROVE CarriedOnly'
  <2>. DEFINE q == IF given = Nobody THEN Fallback[s] ELSE given
  <2>1. q \in Run /\ s \in Carriers(q)
    BY IngestionAssumption DEF Carriers
  <2>2. /\ msg' = [msg EXCEPT ![s] = q]
        /\ runIds' = [runIds EXCEPT ![s] = Remember(runIds[s], q)]
    BY <1>1 DEF Receive
  <2>. HIDE DEF q
  <2>3. Range(Remember(runIds[s], q)) \subseteq Range(runIds[s]) \cup {q}
    <3>1. runIds[s] \in Seq(Run)
      BY DEF TypeOK
    <3>2. Range(Append(runIds[s], q)) \subseteq Range(runIds[s]) \cup {q}
      <4>1. /\ DOMAIN Append(runIds[s], q) = 1..(Len(runIds[s]) + 1)
            /\ Append(runIds[s], q)[Len(runIds[s]) + 1] = q
            /\ \A i \in 1..Len(runIds[s]) : Append(runIds[s], q)[i] = runIds[s][i]
            /\ DOMAIN runIds[s] = 1..Len(runIds[s]) /\ Len(runIds[s]) \in Nat
        BY <3>1
      <4>. QED
        BY <4>1, SMT DEF Range
    <3>. QED
      BY <3>2 DEF Remember
  <2>. QED
    BY <2>1, <2>2, <2>3 DEF CarriedOnly, TypeOK, Carriers
<1>2. ASSUME NEW s \in Session, FinishRead(s) \/ FinishWrite(s) PROVE CarriedOnly'
  <2>1. runIds[s] \in Seq(Run) /\ runIds[s] # <<>>
    BY <1>2 DEF FinishRead, FinishWrite, FinishesNext, TypeOK
  <2>2. Range(Tail(runIds[s])) \subseteq Range(runIds[s])
    <3>1. /\ DOMAIN runIds[s] = 1..Len(runIds[s]) /\ DOMAIN Tail(runIds[s]) = 1..(Len(runIds[s]) - 1)
          /\ \A i \in 1..(Len(runIds[s]) - 1) : Tail(runIds[s])[i] = runIds[s][i + 1]
          /\ Len(runIds[s]) \in Nat
      BY <2>1
    <3>. QED
      BY <3>1, SMT DEF Range
  <2>3. msg' = msg /\ runIds' \in {runIds, [runIds EXCEPT ![s] = Tail(runIds[s])]}
    BY <1>2 DEF FinishRead, FinishWrite
  <2>. QED
    BY <2>2, <2>3 DEF CarriedOnly, TypeOK, Carriers
<1>3. ASSUME NEW s \in Session,
             Connect(s) \/ Close(s) \/ TouchRead(s) \/ TouchWrite(s) \/ Publish(s) \/ Closed(s)
      PROVE  CarriedOnly'
  <2>1. runIds' = runIds /\ msg' \in {msg, [msg EXCEPT ![s] = Nobody]}
    BY <1>3 DEF Connect, Close, TouchRead, TouchWrite, Publish, Closed
  <2>. QED
    BY <2>1 DEF CarriedOnly, TypeOK, Carriers
<1>4. CASE ClearPackets \/ ClearRuns \/ SaveRuns \/ (\E q \in Run : LoadRun(q)) \/ UNCHANGED vars
  <2>1. UNCHANGED <<runIds, msg>>
    BY <1>4 DEF ClearPackets, ClearRuns, SaveRuns, LoadRun, vars, sessionVars
  <2>. QED
    BY <2>1 DEF CarriedOnly, Carriers
<1>. QED
  BY <1>1, <1>2, <1>3, <1>4 DEF Next, Handles

\* A session that carries a run alone has nobody who could overwrite it.
Exact == ListedFirst /\ CarriedOnly /\ HoldsTheListed /\ AloneCountsExactly

LEMMA NextExact ==
  ASSUME IInv, Exact, [Next]_vars, NEW r \in Run, NEW s \in Session,
         Carriers(r) = {s}, upsets' = {}
  PROVE  /\ About(s, r)' => held'[s] = list'[r]
         /\ LET pending == IF msg[s] = r /\ pc[s] \in {"touch", "touched"} THEN 1 ELSE 0
            IN  (touches[r] - pending = IF list[r] = Nobody THEN 0 ELSE list[r].captured)'
<1>. DEFINE pending == IF msg[s] = r /\ pc[s] \in {"touch", "touched"} THEN 1 ELSE 0
            counted == IF list[r] = Nobody THEN 0 ELSE list[r].captured
            Goal == (About(s, r)' => held'[s] = list'[r]) /\ (touches[r] - pending = counted)'
<1>. USE DEF IInv
<1>1. upsets = {} /\ clearPc = "idle"
  <2>1. upsets = {}
    BY DEF Next, Handles, Connect, Close, TouchRead, TouchWrite, Publish, Closed, FinishRead,
           FinishWrite, Receive, ClearPackets, ClearRuns, SaveRuns, LoadRun, vars, sessionVars
  <2>. QED
    BY <2>1 DEF Exact, ListedFirst
<1>2. touches[r] - pending = counted /\ (About(s, r) => held[s] = list[r])
  BY <1>1 DEF Exact, HoldsTheListed, AloneCountsExactly
<1>3. \A t \in Session : /\ msg[t] = r => t = s
                         /\ r \in Range(runIds[t]) => t = s
  BY IngestionAssumption DEF Exact, CarriedOnly
<1>4. /\ list[r] \in Summary \cup {Nobody} /\ touches[r] \in Nat
      /\ \A e \in Summary : e.captured \in Nat
  BY DEF TypeOK, Summary
\* A step of another session leaves the run, and what session s knows of it, alone.
<1>5. ASSUME NEW t \in Session, t # s, Handles(t) \/ Connect(t) \/ Close(t) PROVE Goal
  <2>1. touches' = touches
    BY <1>5 DEF Handles, Connect, Close, TouchRead, TouchWrite, Publish, Closed, FinishRead, FinishWrite
  <2>2. msg'[s] = msg[s] /\ pc'[s] = pc[s] /\ held'[s] = held[s] /\ runIds'[s] = runIds[s]
    BY <1>5 DEF Handles, Connect, Close, TouchRead, TouchWrite, Publish, Closed, FinishRead, FinishWrite, TypeOK
  <2>3. TouchWrite(t) => msg[t] # r
    BY <1>3, <1>5
  <2>4. FinishWrite(t) => Head(runIds[t]) # r
    <3>1. SUFFICES ASSUME FinishWrite(t), Head(runIds[t]) = r PROVE FALSE
      OBVIOUS
    <3>2. runIds[t] \in Seq(Run) /\ runIds[t] # <<>>
      BY <3>1 DEF FinishWrite, FinishesNext, TypeOK
    <3>3. Head(runIds[t]) = runIds[t][1] /\ 1 \in DOMAIN runIds[t]
      BY <3>2
    <3>. QED
      BY <1>3, <1>5, <3>1, <3>3 DEF Range
  <2>5. list'[r] = list[r]
    BY <1>5, <2>3, <2>4 DEF Handles, Connect, Close, TouchRead, TouchWrite, Publish, Closed, FinishRead, FinishWrite, TypeOK
  <2>. QED
    BY <1>2, <2>1, <2>2, <2>5 DEF About
<1>6. ASSUME NEW t \in Session, NEW given \in Carried[t], Receive(t, given) PROVE Goal
  <2>. DEFINE q == IF given = Nobody THEN Fallback[t] ELSE given
  <2>1. q \in Run /\ t \in Carriers(q)
    BY IngestionAssumption DEF Carriers
  <2>2. /\ pc[t] = "idle" /\ pc' = [pc EXCEPT ![t] = "touch"]
        /\ msg' = [msg EXCEPT ![t] = q] /\ touches' = [touches EXCEPT ![q] = @ + 1]
        /\ runIds' = [runIds EXCEPT ![t] = Remember(runIds[t], q)] /\ UNCHANGED <<list, held>>
    BY <1>6 DEF Receive
  <2>. HIDE DEF q
  <2>3. q = r => t = s
    BY <2>1
  <2>4. CASE t = s
    <3>1. ~About(s, r)'
      BY <2>2, <2>4 DEF About, TypeOK
    <3>2. pc'[s] = "touch" /\ msg'[s] = q /\ pending = 0
      BY <2>2, <2>4 DEF TypeOK
    <3>3. touches'[r] = IF q = r THEN touches[r] + 1 ELSE touches[r]
      BY <2>2 DEF TypeOK
    <3>. QED
      BY <1>2, <1>4, <2>2, <3>1, <3>2, <3>3
  <2>5. CASE t # s
    <3>1. touches'[r] = touches[r]
      BY <2>1, <2>2, <2>3, <2>5 DEF TypeOK
    <3>2. msg'[s] = msg[s] /\ pc'[s] = pc[s] /\ runIds'[s] = runIds[s]
      BY <2>2, <2>5 DEF TypeOK
    <3>. QED
      BY <1>2, <2>2, <3>1, <3>2 DEF About
  <2>. QED
    BY <2>4, <2>5
<1>7. CASE Connect(s) \/ Close(s) \/ Publish(s) \/ Closed(s)
  <2>1. UNCHANGED <<touches, list, held, runIds>>
    BY <1>7 DEF Connect, Close, Publish, Closed
  <2>2. \/ pc' = pc /\ msg' = msg
        \/ pc[s] \in {"idle", "finish", "publish"} /\ pc'[s] \in {"idle", "finish", "publish"}
    BY <1>7 DEF Connect, Close, Publish, Closed, TypeOK
  <2>3. About(s, r)' => About(s, r)
    BY <1>7 DEF Connect, Close, Publish, Closed, About, TypeOK
  <2>. QED
    BY <1>2, <2>1, <2>2, <2>3
<1>8. CASE TouchRead(s)
  BY <1>2, <1>8 DEF TouchRead, About, TypeOK
<1>9. CASE TouchWrite(s)
  <2>1. /\ pc[s] = "touched" /\ pc'[s] = "publish" /\ UNCHANGED <<touches, msg>>
        /\ list'[r] = IF msg[s] = r THEN Touched(held[s]) ELSE list[r]
    BY <1>9 DEF TouchWrite, TypeOK
  <2>2. ~About(s, r)'
    BY <2>1 DEF About
  <2>3. CASE msg[s] = r
    <3>1. held[s] = list[r]
      BY <1>2, <2>1, <2>3 DEF About
    <3>2. Touched(held[s]).captured = counted + 1 /\ Touched(held[s]) \in Summary
      BY <1>4, <3>1, TouchedFacts DEF Touched
    <3>. QED
      BY <1>2, <1>4, <2>1, <2>2, <2>3, <3>2, NobodyAssumption
  <2>4. CASE msg[s] # r
    BY <1>2, <2>1, <2>2, <2>4
  <2>. QED
    BY <2>3, <2>4
<1>10. CASE FinishRead(s)
  <2>1. /\ pc[s] = "finish" /\ pc'[s] \in {"finish", "finishing"}
        /\ UNCHANGED <<touches, msg, list>>
    BY <1>10 DEF FinishRead, TypeOK
  <2>2. About(s, r)' => held'[s] = list[r]
    BY <1>10 DEF FinishRead, About, TypeOK
  <2>. QED
    BY <1>2, <2>1, <2>2
<1>11. CASE FinishWrite(s)
  <2>1. /\ pc[s] = "finishing" /\ pc'[s] = "finish" /\ UNCHANGED <<touches, msg>>
        /\ held[s] \in Summary
    BY <1>11 DEF FinishWrite, FinishesNext, TypeOK
  <2>2. ~About(s, r)'
    BY <2>1 DEF About
  <2>3. list'[r] = IF Head(runIds[s]) = r THEN [held[s] EXCEPT !.state = "FINISHED"] ELSE list[r]
    BY <1>11 DEF FinishWrite, TypeOK
  <2>4. CASE Head(runIds[s]) = r
    <3>1. held[s] = list[r]
      BY <1>2, <2>1, <2>4 DEF About
    <3>2. /\ [held[s] EXCEPT !.state = "FINISHED"] \in Summary
          /\ [held[s] EXCEPT !.state = "FINISHED"].captured = held[s].captured
      BY <2>1, FinishedFacts DEF Summary
    <3>. QED
      BY <1>2, <2>1, <2>2, <2>3, <2>4, <3>1, <3>2, NobodyAssumption
  <2>5. CASE Head(runIds[s]) # r
    BY <1>2, <2>1, <2>2, <2>3, <2>5
  <2>. QED
    BY <2>4, <2>5
<1>12. CASE ClearPackets \/ ClearRuns \/ SaveRuns \/ (\E q \in Run : LoadRun(q)) \/ UNCHANGED vars
  <2>1. UNCHANGED <<list, touches, msg, pc, held, runIds>>
    BY <1>1, <1>12 DEF ClearPackets, ClearRuns, SaveRuns, LoadRun, vars, sessionVars
  <2>. QED
    BY <1>2, <2>1 DEF About
<1>. QED
  <2>1. Goal
    BY <1>5, <1>6, <1>7, <1>8, <1>9, <1>10, <1>11, <1>12 DEF Next, Handles
  <2>. QED
    BY <2>1

\* A run that one session carries alone counts exactly that session's messages,
\* and no interleaving of touchRun() and finishRun() with themselves, clears and
\* loads makes a run count more messages than were handled.
THEOREM CountsRight == Spec => []CountsAreRight
<1>1. Init => CountsBounded
  <2>. SUFFICES ASSUME Init, NEW r \in Run
                PROVE  /\ Done(r) >= 0 /\ list[r] = Nobody /\ file[r] = Nobody
                       /\ \A s \in Session : ~About(s, r)
    BY DEF CountsBounded
  <2>1. Waiting(r) = {}
    BY DEF Init, Waiting
  <2>2. Done(r) = 0
    BY <2>1, FS_EmptySet DEF Init, Done
  <2>. QED
    BY <2>2 DEF Init, About
<1>2. Init => Exact
  <2>1. Init => CarriedOnly
    BY DEF Init, CarriedOnly, Range
  <2>2. Init => ListedFirst /\ HoldsTheListed /\ AloneCountsExactly
    BY DEF Init, ListedFirst, HoldsTheListed, About, AloneCountsExactly
  <2>. QED
    BY <2>1, <2>2 DEF Exact
<1>3. IInv /\ Exact /\ [Next]_vars => Exact'
  <2>. SUFFICES ASSUME IInv, Exact, [Next]_vars PROVE Exact'
    OBVIOUS
  <2>1. ListedFirst' /\ CarriedOnly'
    BY NextListedFirst, NextCarriedOnly DEF Exact
  <2>2. HoldsTheListed'
    BY NextExact DEF HoldsTheListed, Carriers
  <2>3. AloneCountsExactly'
    BY NextExact DEF AloneCountsExactly, Carriers
  <2>. QED
    BY <2>1, <2>2, <2>3 DEF Exact
<1>4. IInv /\ CountsBounded /\ Exact => CountsAreRight
  <2>. SUFFICES ASSUME IInv, CountsBounded, NEW r \in Run, list[r] # Nobody
                PROVE  list[r].captured <= touches[r]
    BY DEF CountsAreRight, Exact, NeverOvercounts
  <2>1. list[r].captured \in Nat /\ touches[r] \in Nat
    BY DEF IInv, TypeOK, Summary
  <2>. QED
    BY <2>1, WaitingFinite DEF CountsBounded, Done
<1>. QED
  BY Inductive, <1>1, <1>2, NextCountsBounded, <1>3, <1>4, PTL DEF Spec
==============================================================================
