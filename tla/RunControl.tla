------------------------------- MODULE RunControl -------------------------------
(***************************************************************************)
(* How the browser page starts, stops and watches test runs.  A started    *)
(* run is polled once a second; the callbacks of the interval await their  *)
(* answers, so that several of one run may be under way, and what each     *)
(* does after an await goes by what the page holds by then.  The loads of  *)
(* runs and packets that the handlers await are LiveView's, and count here *)
(* only for the time they take.                                            *)
(***************************************************************************)
EXTENDS Integers, FiniteSets

CONSTANTS
  Run,        \* bound: the runs the user may start
  None,
  Outcome,    \* how a run may end: FINISHED, STOPPED or FAILED
  MaxPolls    \* bound: callbacks of one run under way at once

ASSUME RunControlAssumption ==
  /\ None \notin Run /\ MaxPolls \in Nat \ {0}
  /\ Outcome \subseteq {"FINISHED", "STOPPED", "FAILED"}

VARIABLES
  server,        \* what the server says of each run
  starting,      \* stage of the handler that starts it
  activeRunId,   \* state.activeRunId
  polling,       \* runs whose interval is set
  callbacks,     \* of each run, those under way: a set of [at, state]
  stopRequest,   \* [at, run] of the Stop handler
  stopDisabled,
  status,        \* [text, run]: what #run-status says, of which run
  mishaps        \* history, see Mishap

pageVars == <<activeRunId, polling, stopDisabled, status>>
vars == <<server, starting, pageVars, callbacks, stopRequest, mishaps>>

Asked == [at |-> "asked", state |-> "none"]
NoStop == [at |-> "free", run |-> None]
Status(text, run) == [text |-> text, run |-> run]

\* A run is started while another is watched; an answer RUNNING is handled
\* after the end; the answer to Stop is handled when its run is no longer the
\* active one; the language is switched while an outcome is shown.
Mishap == {"two", "late", "stopLate", "translated"}
Note(what, when) == mishaps' = mishaps \cup {m \in {what} : when}

Watched(r) == starting[r] \in {"asked", "answered", "loading"} \/ r \in polling \/ callbacks[r] # {}

Init ==
  /\ server = [r \in Run |-> "new"] /\ starting = [r \in Run |-> "new"]
  /\ activeRunId = None /\ polling = {}
  /\ callbacks = [r \in Run |-> {}]
  /\ stopRequest = NoStop /\ stopDisabled = TRUE
  /\ status = Status("idle", None) /\ mishaps = {}

-----------------------------------------------------------------------------
(* The server *)

\* finish(): between its two maps the run is in neither.
Ends(r) ==
  /\ server[r] = "RUNNING" /\ server' = [server EXCEPT ![r] = "ending"]
  /\ UNCHANGED <<starting, pageVars, callbacks, stopRequest, mishaps>>

Ended(r) ==
  /\ server[r] = "ending"
  /\ \E s \in Outcome : server' = [server EXCEPT ![r] = s]
  /\ UNCHANGED <<starting, pageVars, callbacks, stopRequest, mishaps>>

\* The server is started anew and knows none of its runs.
Restart ==
  /\ \E r \in Run : server[r] \in Outcome \cup {"RUNNING", "ending"}
  /\ server' = [r \in Run |-> IF server[r] \in {"new", "refused"} THEN server[r] ELSE "gone"]
  /\ UNCHANGED <<starting, pageVars, callbacks, stopRequest, mishaps>>

\* status(): what GET /api/runs/{id} answers.
Answer(r) == IF server[r] \in Outcome \cup {"RUNNING"} THEN server[r] ELSE "unknown"

-----------------------------------------------------------------------------
(* Starting *)

\* The form is submitted, or Demo is clicked.
Start(r) ==
  /\ starting[r] = "new" /\ starting' = [starting EXCEPT ![r] = "asked"]
  /\ Note("two", \E q \in Run : Watched(q))
  /\ UNCHANGED <<server, pageVars, callbacks, stopRequest>>

ServerStarts(r) ==
  /\ starting[r] = "asked" /\ starting' = [starting EXCEPT ![r] = "answered"]
  /\ \E s \in {"RUNNING", "refused"} : server' = [server EXCEPT ![r] = s]
  /\ UNCHANGED <<pageVars, callbacks, stopRequest, mishaps>>

StartFails(r) ==
  /\ starting[r] = "asked" /\ starting' = [starting EXCEPT ![r] = "failed"]
  /\ UNCHANGED <<server, pageVars, callbacks, stopRequest, mishaps>>

\* The answer of a start that was refused has no id.
Id(r) == IF server[r] = "refused" THEN None ELSE r

AfterStart(r) ==
  /\ starting[r] = "answered" /\ starting' = [starting EXCEPT ![r] = "loading"]
  /\ activeRunId' = Id(r)
  /\ UNCHANGED <<server, polling, stopDisabled, status, callbacks, stopRequest, mishaps>>

\* The loads are done: pollStatus().
\* Mutant: the Stop button stays as it was.
StartLoaded_leavesStop(r) ==
  /\ starting[r] = "loading" /\ starting' = [starting EXCEPT ![r] = "started"]
  /\ status' = Status("running", Id(r)) /\ polling' = polling \cup {r}
  /\ UNCHANGED <<server, activeRunId, stopDisabled, callbacks, stopRequest, mishaps>>
StartLoaded(r) ==
  /\ starting[r] = "loading" /\ starting' = [starting EXCEPT ![r] = "started"]
  /\ status' = Status("running", Id(r)) /\ stopDisabled' = FALSE
  /\ polling' = polling \cup {r}
  /\ UNCHANGED <<server, activeRunId, callbacks, stopRequest, mishaps>>

-----------------------------------------------------------------------------
(* Polling *)

\* A callback gets on, or is done.  Two that are in the same place are alike.
Moves(r, c, to) == callbacks' = [callbacks EXCEPT ![r] = (@ \ {c}) \cup to]

\* The interval fires, whether or not earlier callbacks are done.
Tick(r) ==
  /\ r \in polling /\ Cardinality(callbacks[r]) < MaxPolls
  /\ Moves(r, Asked, {Asked})
  /\ UNCHANGED <<server, starting, pageVars, stopRequest, mishaps>>

PollAnswered(r) ==
  /\ Asked \in callbacks[r]
  /\ Moves(r, Asked, {[at |-> "answered", state |-> Answer(r)]})
  /\ UNCHANGED <<server, starting, pageVars, stopRequest, mishaps>>

PollFails(r) ==
  /\ Asked \in callbacks[r] /\ Moves(r, Asked, {})
  /\ UNCHANGED <<server, starting, pageVars, stopRequest, mishaps>>

PollUnknown(r, c) ==
  /\ c = [at |-> "answered", state |-> "unknown"]
  /\ Moves(r, c, {})
  /\ UNCHANGED <<server, starting, pageVars, stopRequest, mishaps>>

PollRunning(r, c) ==
  /\ c = [at |-> "answered", state |-> "RUNNING"]
  /\ Moves(r, c, {}) /\ status' = Status("running", r)
  /\ Note("late", r \notin polling)
  /\ UNCHANGED <<server, starting, activeRunId, polling, stopDisabled, stopRequest>>

\* Mutant: the run stays the active one.
PollEnded_keepsActive(r, c) ==
  /\ c.at = "answered" /\ c.state \in Outcome
  /\ Moves(r, c, {[c EXCEPT !.at = "loading"]})
  /\ polling' = polling \ {r}
  /\ UNCHANGED <<server, starting, activeRunId, stopDisabled, status, stopRequest, mishaps>>
\* Mutant: the interval is not cleared.
PollEnded_keepsInterval(r, c) ==
  /\ c.at = "answered" /\ c.state \in Outcome
  /\ Moves(r, c, {[c EXCEPT !.at = "loading"]})
  /\ activeRunId' = IF activeRunId = r THEN None ELSE activeRunId
  /\ UNCHANGED <<server, starting, polling, stopDisabled, status, stopRequest, mishaps>>
PollEnded(r, c) ==
  /\ c.at = "answered" /\ c.state \in Outcome
  /\ Moves(r, c, {[c EXCEPT !.at = "loading"]})
  /\ polling' = polling \ {r}
  /\ activeRunId' = IF activeRunId = r THEN None ELSE activeRunId
  /\ UNCHANGED <<server, starting, stopDisabled, status, stopRequest, mishaps>>

\* The loads are done: the outcome is shown.
\* Mutant: the Stop button stays as it was.
PollLoaded_leavesStop(r, c) ==
  /\ c.at = "loading" /\ Moves(r, c, {})
  /\ status' = Status(c.state, r)
  /\ UNCHANGED <<server, starting, activeRunId, polling, stopDisabled, stopRequest, mishaps>>
PollLoaded(r, c) ==
  /\ c.at = "loading" /\ Moves(r, c, {})
  /\ stopDisabled' = TRUE /\ status' = Status(c.state, r)
  /\ UNCHANGED <<server, starting, activeRunId, polling, stopRequest, mishaps>>

-----------------------------------------------------------------------------
(* Stop, clear and the language *)

\* Bound: one stop is under way at a time.
Stop ==
  /\ ~stopDisabled /\ activeRunId # None /\ stopRequest = NoStop
  /\ stopRequest' = [at |-> "asked", run |-> activeRunId]
  /\ UNCHANGED <<server, starting, pageVars, callbacks, mishaps>>

ServerStops ==
  /\ stopRequest.at = "asked" /\ stopRequest' = [stopRequest EXCEPT !.at = "answered"]
  /\ server' = [server EXCEPT ![stopRequest.run] = IF @ = "RUNNING" THEN "ending" ELSE @]
  /\ UNCHANGED <<starting, pageVars, callbacks, mishaps>>

StopFails ==
  /\ stopRequest.at = "asked" /\ stopRequest' = NoStop
  /\ UNCHANGED <<server, starting, pageVars, callbacks, mishaps>>

\* What is shown names the run that is active by now.
StopAnswered ==
  /\ stopRequest.at = "answered" /\ stopRequest' = NoStop
  /\ status' = Status("stopping", activeRunId)
  /\ Note("stopLate", activeRunId # stopRequest.run)
  /\ UNCHANGED <<server, starting, activeRunId, polling, stopDisabled, callbacks>>

\* The polls go on.
Clear ==
  /\ activeRunId' = None
  /\ UNCHANGED <<server, starting, polling, stopDisabled, status, callbacks,
                 stopRequest, mishaps>>

\* applyTranslations() writes the initial text into #run-status.
SetLanguage ==
  /\ status' = [status EXCEPT !.text = "idle"]
  /\ Note("translated", status.text \in Outcome)
  /\ UNCHANGED <<server, starting, activeRunId, polling, stopDisabled, callbacks, stopRequest>>

-----------------------------------------------------------------------------
Callback(r) ==
  \E c \in callbacks[r] :
    PollUnknown(r, c) \/ PollRunning(r, c) \/ PollEnded(r, c) \/ PollLoaded(r, c)

Next ==
  \/ \E r \in Run :
       \/ Ends(r) \/ Ended(r)
       \/ Start(r) \/ ServerStarts(r) \/ StartFails(r) \/ AfterStart(r) \/ StartLoaded(r)
       \/ Tick(r) \/ PollAnswered(r) \/ PollFails(r) \/ Callback(r)
  \/ Restart \/ Stop \/ ServerStops \/ StopFails \/ StopAnswered \/ Clear \/ SetLanguage

\* The interval fires on and on, runs end, handlers run, and polls that are
\* sent again and again are answered some time.
Fairness ==
  \A r \in Run :
    /\ WF_vars(Ends(r) \/ Ended(r)) /\ WF_vars(Tick(r))
    /\ WF_vars(Callback(r)) /\ SF_vars(PollAnswered(r))

Spec == Init /\ [][Next]_vars
FairSpec == Spec /\ Fairness

-----------------------------------------------------------------------------
TypeOK ==
  /\ server \in [Run -> Outcome \cup {"new", "refused", "RUNNING", "ending", "gone"}]
  /\ starting \in [Run -> {"new", "asked", "answered", "loading", "started", "failed"}]
  /\ activeRunId \in Run \cup {None} /\ polling \subseteq Run
  /\ callbacks \in [Run -> SUBSET [at : {"asked", "answered", "loading"},
                                   state : Outcome \cup {"none", "unknown", "RUNNING"}]]
  /\ stopRequest \in [at : {"free", "asked", "answered"}, run : Run \cup {None}]
  /\ stopDisabled \in BOOLEAN
  /\ status \in [text : Outcome \cup {"idle", "running", "stopping"}, run : Run \cup {None}]
  /\ mishaps \subseteq Mishap

\* The active run is one that the page is about to poll or polls: it cannot
\* stay the active one for ever, whatever is started or ends in between.
ActiveIsWatched ==
  activeRunId # None => starting[activeRunId] = "loading" \/ activeRunId \in polling

\* While the active run is polled it can be stopped, unless the end of another
\* run has disabled the button.
ActiveCanBeStopped ==
  ("two" \notin mishaps /\ activeRunId \in polling) => ~stopDisabled

\* Once nothing is under way any more the page shows the outcome of a run,
\* the one the server knows, and has no active run and no Stop button; unless
\* an answer was handled too late or the status was overwritten.
Settled == stopRequest = NoStop /\ \A r \in Run : ~Watched(r)
SettledStatusIsOutcome ==
  (Settled /\ mishaps \cap {"late", "stopLate", "translated"} = {}
    /\ \E r \in Run : starting[r] = "started") =>
    /\ activeRunId = None /\ stopDisabled
    /\ status.run \in Run /\ server[status.run] \in {status.text, "gone"}

\* A run that is polled is reported to have ended, or the server does not know
\* it (any more); then it is polled for ever.
PollsEnd ==
  \A r \in Run : r \in polling ~> (r \notin polling \/ server[r] \in {"gone", "refused"})
==============================================================================
