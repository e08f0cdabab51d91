------------------------------ MODULE Ingestion ------------------------------
(***************************************************************************)
(* Packets that other JVMs stream to the server over WebSocket sessions.   *)
(* Each message touches the run it belongs to in the run list and is then  *)
(* published; when a session closes, the runs it carried are finished.     *)
(*                                                                         *)
(* touchRun() and finishRun() read the run list with one call and write it *)
(* back with another, so sessions that carry the same run interleave       *)
(* between the two, as do an HTTP thread that clears the history and one   *)
(* that loads a session file.  The container (external) serialises the     *)
(* callbacks of one session and reports its closing once.                  *)
(*                                                                         *)
(* errorSamples is kept exactly as capturedSamples is and is left out; a   *)
(* blank or malformed message changes nothing and has no step.             *)
(***************************************************************************)
EXTENDS Integers, Sequences, FiniteSets, Functions

CONSTANTS
  Session,      \* WebSocket sessions; a client that reconnects opens another
  Run,          \* run ids
  Fallback,     \* the run id minted for the messages of a session without one
  Carried,      \* the run ids that the client of a session puts in messages
  MaxMessages,  \* bound on the messages of each session
  Nobody        \* no run, no summary

ASSUME IngestionAssumption ==
  /\ IsFiniteSet(Session)
  /\ Fallback \in [Session -> Run] /\ IsInjective(Fallback)
  /\ Carried \in [Session -> SUBSET (Run \cup {Nobody})]
  /\ Range(Fallback) \cap UNION Range(Carried) = {}
  /\ MaxMessages \in [Session -> Nat]
  /\ Nobody \notin Run

Summary == [state : {"RUNNING", "FINISHED"}, captured : Nat, restored : BOOLEAN]

ASSUME NobodyAssumption == Nobody \notin Summary

VARIABLES
  list,      \* run list: the summary of each run
  stored,    \* how many packets of each run the packet store holds
  status,    \* of each session: "new", "open", "closing" or "closed"
  runIds,    \* session attribute: the run ids of its messages, in order
  pc,        \* where the session's callback is
  msg,       \* the run of the message being handled
  held,      \* the summary the callback has read
  received,  \* messages each session has received
  clearPc,   \* where the thread in DELETE /api/packets is
  file,      \* the runs of the session file that was saved last
  touches,   \* history: messages that belonged to each run
  upsets     \* history: whether the run list was "cleared" or "loaded"

sessionVars == <<status, runIds, pc, msg, held, received>>
vars == <<list, stored, sessionVars, clearPc, file, touches, upsets>>

Init ==
  /\ list = [r \in Run |-> Nobody] /\ stored = [r \in Run |-> 0]
  /\ status = [s \in Session |-> "new"]
  /\ runIds = [s \in Session |-> <<>>]
  /\ pc = [s \in Session |-> "idle"]
  /\ msg = [s \in Session |-> Nobody] /\ held = [s \in Session |-> Nobody]
  /\ received = [s \in Session |-> 0]
  /\ clearPc = "idle"
  /\ file = [r \in Run |-> Nobody]
  /\ touches = [r \in Run |-> 0] /\ upsets = {}

-----------------------------------------------------------------------------
(* A message *)

Connect(s) ==
  /\ status[s] = "new"
  /\ status' = [status EXCEPT ![s] = "open"]
  /\ UNCHANGED <<list, stored, runIds, pc, msg, held, received, clearPc, file, touches, upsets>>

\* A run id is remembered once, in the order of its first message.
Remember(ids, r) == IF r \in Range(ids) THEN ids ELSE Append(ids, r)

\* Mutant: the fallback id of a session is not remembered.
Receive_fallbackForgotten(s, given) ==
  LET r == IF given = Nobody THEN Fallback[s] ELSE given
  IN  /\ status[s] = "open" /\ pc[s] = "idle"
      /\ received[s] < MaxMessages[s]
      /\ given \in Carried[s]
      /\ received' = [received EXCEPT ![s] = @ + 1]
      /\ runIds' = IF given = Nobody THEN runIds ELSE [runIds EXCEPT ![s] = Remember(@, r)]
      /\ msg' = [msg EXCEPT ![s] = r]
      /\ touches' = [touches EXCEPT ![r] = @ + 1]
      /\ pc' = [pc EXCEPT ![s] = "touch"]
      /\ UNCHANGED <<list, stored, status, held, clearPc, file, upsets>>

\* Mutant: only a message that brings its run id touches the run.
Receive_untouched(s, given) ==
  LET r == IF given = Nobody THEN Fallback[s] ELSE given
  IN  /\ status[s] = "open" /\ pc[s] = "idle"
      /\ received[s] < MaxMessages[s]
      /\ given \in Carried[s]
      /\ received' = [received EXCEPT ![s] = @ + 1]
      /\ runIds' = [runIds EXCEPT ![s] = Remember(@, r)]
      /\ msg' = [msg EXCEPT ![s] = r]
      /\ touches' = [touches EXCEPT ![r] = @ + 1]
      /\ pc' = [pc EXCEPT ![s] = IF given = Nobody THEN "publish" ELSE "touch"]
      /\ UNCHANGED <<list, stored, status, held, clearPc, file, upsets>>

\* A message arrives; one without a run id gets the session's own.
Receive(s, given) ==
  LET r == IF given = Nobody THEN Fallback[s] ELSE given
  IN  /\ status[s] = "open" /\ pc[s] = "idle"
      /\ received[s] < MaxMessages[s]
      /\ given \in Carried[s]
      /\ received' = [received EXCEPT ![s] = @ + 1]
      /\ runIds' = [runIds EXCEPT ![s] = Remember(@, r)]
      /\ msg' = [msg EXCEPT ![s] = r]
      /\ touches' = [touches EXCEPT ![r] = @ + 1]
      /\ pc' = [pc EXCEPT ![s] = "touch"]
      /\ UNCHANGED <<list, stored, status, held, clearPc, file, upsets>>

\* touchRun() reads the run.
TouchRead(s) ==
  /\ pc[s] = "touch"
  /\ held' = [held EXCEPT ![s] = list[msg[s]]]
  /\ pc' = [pc EXCEPT ![s] = "touched"]
  /\ UNCHANGED <<list, stored, status, runIds, msg, received, clearPc, file, touches, upsets>>

\* The summary that touchRun() writes over the one it read.
Touched(existing) ==
  [state |-> "RUNNING", restored |-> FALSE,
   captured |-> IF existing = Nobody THEN 1 ELSE existing.captured + 1]

TouchWrite(s) ==
  /\ pc[s] = "touched"
  /\ list' = [list EXCEPT ![msg[s]] = Touched(held[s])]
  /\ held' = [held EXCEPT ![s] = Nobody]
  /\ pc' = [pc EXCEPT ![s] = "publish"]
  /\ UNCHANGED <<stored, status, runIds, msg, received, clearPc, file, touches, upsets>>

\* The packet is stored (and sent to the live streams).
Publish(s) ==
  /\ pc[s] = "publish"
  /\ stored' = [stored EXCEPT ![msg[s]] = @ + 1]
  /\ msg' = [msg EXCEPT ![s] = Nobody]
  /\ pc' = [pc EXCEPT ![s] = "idle"]
  /\ UNCHANGED <<list, status, runIds, held, received, clearPc, file, touches, upsets>>

-----------------------------------------------------------------------------
(* Closing a session: finishRun() for each run id it carried *)

Close(s) ==
  /\ status[s] = "open" /\ pc[s] = "idle"
  /\ status' = [status EXCEPT ![s] = "closing"]
  /\ pc' = [pc EXCEPT ![s] = "finish"]
  /\ UNCHANGED <<list, stored, runIds, msg, held, received, clearPc, file, touches, upsets>>

\* The loop of afterConnectionClosed() is over.
Closed(s) ==
  /\ pc[s] = "finish" /\ runIds[s] = <<>>
  /\ status' = [status EXCEPT ![s] = "closed"]
  /\ pc' = [pc EXCEPT ![s] = "idle"]
  /\ UNCHANGED <<list, stored, runIds, msg, held, received, clearPc, file, touches, upsets>>

\* Mutant: a run that is not listed ends the loop.
FinishRead_aborts(s) ==
  LET r == Head(runIds[s])
  IN  /\ pc[s] = "finish" /\ runIds[s] # <<>>
      /\ IF list[r] = Nobody
           THEN runIds' = [runIds EXCEPT ![s] = <<>>] /\ UNCHANGED <<pc, held>>
           ELSE /\ held' = [held EXCEPT ![s] = list[r]]
                /\ pc' = [pc EXCEPT ![s] = "finishing"]
                /\ UNCHANGED runIds
      /\ UNCHANGED <<list, stored, status, msg, received, clearPc, file, touches, upsets>>

\* finishRun() reads the run; one that is not listed is passed over.
FinishRead(s) ==
  LET r == Head(runIds[s])
  IN  /\ pc[s] = "finish" /\ runIds[s] # <<>>
      /\ IF list[r] = Nobody
           THEN runIds' = [runIds EXCEPT ![s] = Tail(@)] /\ UNCHANGED <<pc, held>>
           ELSE /\ held' = [held EXCEPT ![s] = list[r]]
                /\ pc' = [pc EXCEPT ![s] = "finishing"]
                /\ UNCHANGED runIds
      /\ UNCHANGED <<list, stored, status, msg, received, clearPc, file, touches, upsets>>

\* Mutant: the finished summary starts its count again.
FinishWrite_fresh(s) ==
  /\ pc[s] = "finishing"
  /\ list' = [list EXCEPT ![Head(runIds[s])] =
                 [held[s] EXCEPT !.state = "FINISHED", !.captured = 0]]
  /\ runIds' = [runIds EXCEPT ![s] = Tail(@)]
  /\ held' = [held EXCEPT ![s] = Nobody]
  /\ pc' = [pc EXCEPT ![s] = "finish"]
  /\ UNCHANGED <<stored, status, msg, received, clearPc, file, touches, upsets>>

FinishWrite(s) ==
  /\ pc[s] = "finishing"
  /\ list' = [list EXCEPT ![Head(runIds[s])] = [held[s] EXCEPT !.state = "FINISHED"]]
  /\ runIds' = [runIds EXCEPT ![s] = Tail(@)]
  /\ held' = [held EXCEPT ![s] = Nobody]
  /\ pc' = [pc EXCEPT ![s] = "finish"]
  /\ UNCHANGED <<stored, status, msg, received, clearPc, file, touches, upsets>>

-----------------------------------------------------------------------------
(* The other writers of the run list *)

\* DELETE /api/packets empties the packet store, then the run list; the
\* model has it once (bound).
ClearPackets ==
  /\ clearPc = "idle" /\ "cleared" \notin upsets
  /\ stored' = [r \in Run |-> 0]
  /\ clearPc' = "runs"
  /\ upsets' = upsets \cup {"cleared"}
  /\ UNCHANGED <<list, sessionVars, file, touches>>

ClearRuns ==
  /\ clearPc = "runs"
  /\ list' = [r \in Run |-> Nobody]
  /\ clearPc' = "idle"
  /\ UNCHANGED <<stored, sessionVars, file, touches, upsets>>

\* The session file saved by /api/session/export, its run part; the model
\* has one file (bound), which may be loaded any number of times.
SaveRuns ==
  /\ file = [r \in Run |-> Nobody]
  /\ file' = list
  /\ UNCHANGED <<list, stored, sessionVars, clearPc, touches, upsets>>

\* /api/session/import writes each run of the file, flagged as restored.
LoadRun(r) ==
  /\ file[r] # Nobody
  /\ list' = [list EXCEPT ![r] = [file[r] EXCEPT !.restored = TRUE]]
  /\ upsets' = upsets \cup {"loaded"}
  /\ UNCHANGED <<stored, sessionVars, clearPc, file, touches>>

-----------------------------------------------------------------------------
Handles(s) == \/ TouchRead(s) \/ TouchWrite(s) \/ Publish(s)
              \/ Closed(s) \/ FinishRead(s) \/ FinishWrite(s)

Next ==
  \/ \E s \in Session : \/ Connect(s) \/ Close(s) \/ Handles(s)
                        \/ \E given \in Carried[s] : Receive(s, given)
  \/ ClearPackets \/ ClearRuns
  \/ SaveRuns \/ \E r \in Run : LoadRun(r)

\* A callback that has begun runs to its end; no client is obliged to send
\* anything or to close its session.
Fairness == \A s \in Session : WF_vars(Handles(s))

Spec == Init /\ [][Next]_vars
FairSpec == Spec /\ Fairness

-----------------------------------------------------------------------------
Place == {"idle", "touch", "touched", "publish", "finish", "finishing"}

\* Every variable has its type (the run list, the session attributes and
\* the locals of the handler's callbacks).
TypeOK ==
  /\ list \in [Run -> Summary \cup {Nobody}]
  /\ file \in [Run -> Summary \cup {Nobody}]
  /\ stored \in [Run -> Nat] /\ touches \in [Run -> Nat]
  /\ status \in [Session -> {"new", "open", "closing", "closed"}]
  /\ runIds \in [Session -> Seq(Run)]
  /\ pc \in [Session -> Place]
  /\ msg \in [Session -> Run \cup {Nobody}]
  /\ held \in [Session -> Summary \cup {Nobody}]
  /\ received \in [Session -> Nat]
  /\ clearPc \in {"idle", "runs"} /\ upsets \subseteq {"cleared", "loaded"}

\* The session still has something to do for run r.
Pending(s, r) == r \in Range(runIds[s])

\* However sessions that share a run interleave, and whatever is cleared
\* meanwhile, a listed run that no open session carries any more is
\* finished, unless its summary was loaded from a file.
OnlyCarriedRunsAreRunning ==
  \A r \in Run :
    list[r] # Nobody /\ (\A s \in Session : ~Pending(s, r)) =>
      list[r].state = "FINISHED" \/ list[r].restored

\* The run of a stored packet is listed: it is touched before the packet is
\* published, and a run is only unlisted after the packets are cleared.
StoredPacketsAreListed ==
  \A r \in Run : stored[r] > 0 /\ "cleared" \notin upsets => list[r] # Nobody

\* A run carried by one session, not cleared or loaded meanwhile, counts
\* exactly the messages of that session.
Carriers(r) == {s \in Session : r \in Carried[s] \/ r = Fallback[s]}
AloneCountsExactly ==
  \A r \in Run, s \in Session :
    Carriers(r) = {s} /\ upsets = {} =>
      LET pending == IF msg[s] = r /\ pc[s] \in {"touch", "touched"} THEN 1 ELSE 0
      IN  touches[r] - pending = IF list[r] = Nobody THEN 0 ELSE list[r].captured

\* No interleaving makes a run count a message twice.
NeverOvercounts ==
  \A r \in Run : list[r] # Nobody => list[r].captured <= touches[r]

\* What the captured count of a run is worth: exact for a run that one session
\* carries alone, and never above the number of messages for a shared one,
\* although messages of several sessions overwrite each other's counts.
CountsAreRight == AloneCountsExactly /\ NeverOvercounts

\* Whoever else writes the run list, each run that a closing session
\* carries is eventually finished, or was cleared.
ClosingFinishesEveryRun ==
  \A s \in Session, r \in Run :
    status[s] = "closing" /\ Pending(s, r) ~>
      list[r] = Nobody \/ list[r].state = "FINISHED"

==============================================================================
