------------------------------- MODULE PageProofs -------------------------------
(***************************************************************************)
(* What the page promises of the runs it watches, for any number of runs,  *)
(* overlapping polls and outcomes: the active run is watched, it can be    *)
(* stopped, and the outcome shown in the end is the server's.  And of what *)
(* it works out, for any rules, addresses, templates, times, texts and     *)
(* tables of translations: its functions return what they ought to.        *)
(***************************************************************************)
EXTENDS RunControl, PageFunctions, TLAPS, WellFoundedInduction,
        FiniteSetTheorems, SequenceTheorems

-----------------------------------------------------------------------------
(* The runs it watches                                                     *)

\* A run is only polled once its start is over.
PolledIsStarted ==
  \A r \in Run : r \in polling \/ callbacks[r] # {} => starting[r] = "started"

\* An outcome that a callback holds is the server's, and the interval of a run
\* is cleared before its outcome is shown.
OutcomesAreTrue ==
  \A r \in Run : \A c \in callbacks[r] :
    /\ c.at = "loading" => c.state \in Outcome /\ r \notin polling
    /\ c.state \in Outcome => server[r] \in {c.state, "gone"}

\* Without the mishap "two" the page watches one run at a time.
OneIsWatched ==
  "two" \notin mishaps => \A q, r \in Run : Watched(q) /\ Watched(r) => q = r

\* The Stop handler has a run to stop.
StopHasRun == stopRequest.at # "free" => stopRequest.run \in Run

\* The run whose handlers will still show something.
WillShow(r) ==
  starting[r] = "loading" \/ r \in polling \/ \E c \in callbacks[r] : c.at = "loading"

\* A status that is an outcome is true; any other will be replaced.
StatusIsDue ==
  mishaps \cap {"late", "stopLate", "translated"} = {} =>
    IF status.text \in Outcome
      THEN /\ stopDisabled /\ status.run \in Run /\ starting[status.run] = "started"
           /\ server[status.run] \in {status.text, "gone"}
      ELSE (\E r \in Run : starting[r] = "started") => \E r \in Run : WillShow(r)

\* The inductive invariant.
Inv ==
  /\ TypeOK /\ ActiveIsWatched /\ PolledIsStarted /\ OutcomesAreTrue
  /\ OneIsWatched /\ StopHasRun /\ ActiveCanBeStopped /\ StatusIsDue

-----------------------------------------------------------------------------
\* The page starts with nothing to watch.
LEMMA InitInv == Init => Inv
<1>. SUFFICES ASSUME Init PROVE Inv
  OBVIOUS
<1>. USE RunControlAssumption DEF Init
<1>1. TypeOK
  BY DEF TypeOK, NoStop, Status, Mishap
<1>2. ActiveIsWatched /\ PolledIsStarted /\ OutcomesAreTrue /\ OneIsWatched
  BY DEF ActiveIsWatched, PolledIsStarted, OutcomesAreTrue, OneIsWatched, Watched
<1>3. StopHasRun /\ ActiveCanBeStopped /\ StatusIsDue
  BY DEF StopHasRun, ActiveCanBeStopped, StatusIsDue, NoStop, Status
<1>. QED
  BY <1>1, <1>2, <1>3 DEF Inv

-----------------------------------------------------------------------------
\* Every step keeps every variable's type.
LEMMA TypeStep == Inv /\ [Next]_vars => TypeOK'
<1>. SUFFICES ASSUME Inv, [Next]_vars PROVE TypeOK'
  OBVIOUS
<1>. USE RunControlAssumption DEF TypeOK, Inv
<1>1. \A what, when : what \in Mishap => (mishaps \cup {m \in {what} : when}) \subseteq Mishap
  OBVIOUS
<1>2. ASSUME NEW r \in Run, Ends(r) \/ Ended(r) PROVE TypeOK'
  BY <1>2 DEF Ends, Ended, pageVars
<1>3. CASE Restart
  BY <1>3 DEF Restart, pageVars
<1>4. ASSUME NEW r \in Run, Start(r) PROVE TypeOK'
  <2>1. mishaps' \subseteq Mishap
    BY <1>4, <1>1 DEF Start, Note, Mishap
  <2>. QED
    BY <1>4, <2>1 DEF Start, pageVars
<1>5. ASSUME NEW r \in Run, ServerStarts(r) PROVE TypeOK'
  BY <1>5 DEF ServerStarts, pageVars
<1>6. ASSUME NEW r \in Run, StartFails(r) PROVE TypeOK'
  BY <1>6 DEF StartFails, pageVars
<1>7. ASSUME NEW r \in Run, AfterStart(r) PROVE TypeOK'
  BY <1>7 DEF AfterStart, Id
<1>8. ASSUME NEW r \in Run, StartLoaded(r) PROVE TypeOK'
  <2>1. stopDisabled' \in BOOLEAN
    BY <1>8 DEF StartLoaded
  <2>. QED
    BY <1>8, <2>1 DEF StartLoaded, Id, Status
<1>9. ASSUME NEW r \in Run, Tick(r) \/ PollAnswered(r) \/ PollFails(r) PROVE TypeOK'
  BY <1>9 DEF Tick, PollAnswered, PollFails, Moves, Asked, Answer, pageVars
<1>10. ASSUME NEW r \in Run, NEW c \in callbacks[r], PollUnknown(r, c)
      PROVE  TypeOK'
  BY <1>10 DEF PollUnknown, Moves, pageVars
<1>11. ASSUME NEW r \in Run, NEW c \in callbacks[r], PollRunning(r, c)
      PROVE  TypeOK'
  <2>1. mishaps' \subseteq Mishap
    BY <1>11, <1>1 DEF PollRunning, Note, Mishap
  <2>. QED
    BY <1>11, <2>1 DEF PollRunning, Moves, Status
<1>12. ASSUME NEW r \in Run, NEW c \in callbacks[r], PollEnded(r, c)
      PROVE  TypeOK'
  BY <1>12 DEF PollEnded, Moves
<1>13. ASSUME NEW r \in Run, NEW c \in callbacks[r], PollLoaded(r, c)
      PROVE  TypeOK'
  <2>1. stopDisabled' \in BOOLEAN
    BY <1>13 DEF PollLoaded
  <2>2. c.state \in Outcome
    BY <1>13 DEF PollLoaded, OutcomesAreTrue
  <2>. QED
    BY <1>13, <2>1, <2>2 DEF PollLoaded, Moves, Status
<1>14. ASSUME Stop \/ ServerStops \/ StopFails \/ StopAnswered PROVE TypeOK'
  BY <1>14 DEF Stop, ServerStops, StopFails, StopAnswered, StopHasRun, NoStop, pageVars,
              Note, Mishap, Status
<1>15. ASSUME Clear \/ SetLanguage PROVE TypeOK'
  BY <1>15 DEF Clear, SetLanguage, Note, Mishap, Status
<1>16. CASE UNCHANGED vars
  BY <1>16 DEF vars, pageVars
<1>. QED
  BY <1>2, <1>3, <1>4, <1>5, <1>6, <1>7, <1>8, <1>9, <1>10, <1>11, <1>12, <1>13, <1>14,
     <1>15, <1>16 DEF Next, Callback

\* The active run stays watched until it is no longer the active one.
LEMMA ActiveStep == Inv /\ [Next]_vars => ActiveIsWatched'
<1>. SUFFICES ASSUME Inv, [Next]_vars PROVE ActiveIsWatched'
  OBVIOUS
<1>. USE RunControlAssumption DEF Inv, TypeOK, ActiveIsWatched
<1>1. CASE \E r \in Run : AfterStart(r)
  BY <1>1 DEF AfterStart, Id
<1>2. CASE \E r \in Run : StartLoaded(r)
  BY <1>2 DEF StartLoaded
<1>3. CASE \E r \in Run : \E c \in callbacks[r] : PollEnded(r, c)
  BY <1>3 DEF PollEnded
<1>4. CASE Clear
  BY <1>4 DEF Clear
<1>5. CASE UNCHANGED <<activeRunId, polling>> /\ \E r \in Run :
             Start(r) \/ ServerStarts(r) \/ StartFails(r)
  BY <1>5, ZenonT(40) DEF Start, ServerStarts, StartFails
<1>6. CASE UNCHANGED <<activeRunId, polling, starting>>
  BY <1>6
<1>. QED
  BY <1>1, <1>2, <1>3, <1>4, <1>5, <1>6
  DEF Next, Callback, Ends, Ended, Restart, Start, ServerStarts, StartFails, Tick,
      PollAnswered, PollFails, PollUnknown, PollRunning, PollLoaded, Stop, ServerStops,
      StopFails, StopAnswered, SetLanguage, vars, pageVars

\* Polls and their callbacks only exist for runs whose start is over.
LEMMA PolledStep == Inv /\ [Next]_vars => PolledIsStarted'
<1>. SUFFICES ASSUME Inv, [Next]_vars, NEW r \in Run,
                     r \in polling' \/ callbacks'[r] # {}
              PROVE  starting'[r] = "started"
  BY DEF PolledIsStarted
<1>. USE DEF Inv, TypeOK, PolledIsStarted
<1>1. CASE \E q \in Run : Start(q) \/ ServerStarts(q) \/ StartFails(q) \/ AfterStart(q)
  BY <1>1, ZenonT(40) DEF Start, ServerStarts, StartFails, AfterStart, pageVars
<1>2. CASE \E q \in Run : StartLoaded(q)
  BY <1>2 DEF StartLoaded
<1>3. CASE \E q \in Run : Tick(q) \/ PollAnswered(q) \/ PollFails(q)
  BY <1>3 DEF Tick, PollAnswered, PollFails, Moves, pageVars
<1>4. CASE \E q \in Run : \E c \in callbacks[q] :
             PollUnknown(q, c) \/ PollRunning(q, c) \/ PollEnded(q, c) \/ PollLoaded(q, c)
  BY <1>4 DEF PollUnknown, PollRunning, PollEnded, PollLoaded, Moves, pageVars
<1>5. CASE UNCHANGED <<polling, callbacks, starting>>
  BY <1>5
<1>. QED
  BY <1>1, <1>2, <1>3, <1>4, <1>5
  DEF Next, Callback, Ends, Ended, Restart, Stop, ServerStops,
      StopFails, StopAnswered, Clear, SetLanguage, vars, pageVars

\* A callback keeps the outcome that the server has for its run.
LEMMA OutcomesStep == Inv /\ [Next]_vars => OutcomesAreTrue'
<1>. SUFFICES ASSUME Inv, [Next]_vars, NEW r \in Run, NEW c \in callbacks'[r]
              PROVE  /\ c.at = "loading" => c.state \in Outcome /\ r \notin polling'
                     /\ c.state \in Outcome => server'[r] \in {c.state, "gone"}
  BY DEF OutcomesAreTrue
<1>. USE RunControlAssumption DEF Inv, TypeOK, OutcomesAreTrue, PolledIsStarted
<1>1. CASE \E q \in Run : Ends(q) \/ Ended(q)
  BY <1>1 DEF Ends, Ended, pageVars
<1>2. CASE Restart
  BY <1>2 DEF Restart, pageVars
<1>3. CASE \E q \in Run : ServerStarts(q)
  BY <1>3 DEF ServerStarts, pageVars
<1>4. CASE \E q \in Run : StartLoaded(q)
  BY <1>4 DEF StartLoaded
<1>5. CASE \E q \in Run : Tick(q) \/ PollFails(q)
  BY <1>5 DEF Tick, PollFails, Moves, Asked, pageVars
<1>6. CASE \E q \in Run : PollAnswered(q)
  BY <1>6 DEF PollAnswered, Moves, Answer, Asked, pageVars
<1>7. CASE \E q \in Run : \E d \in callbacks[q] : PollUnknown(q, d) \/ PollRunning(q, d)
  BY <1>7 DEF PollUnknown, PollRunning, Moves, pageVars
<1>8. CASE \E q \in Run : \E d \in callbacks[q] : PollEnded(q, d)
  BY <1>8 DEF PollEnded, Moves
<1>9. CASE \E q \in Run : \E d \in callbacks[q] : PollLoaded(q, d)
  BY <1>9 DEF PollLoaded, Moves
<1>10. CASE ServerStops
  BY <1>10 DEF ServerStops, pageVars, StopHasRun
<1>11. CASE UNCHANGED <<polling, callbacks, server>>
  BY <1>11
<1>. QED
  BY <1>1, <1>2, <1>3, <1>4, <1>5, <1>6, <1>7, <1>8, <1>9, <1>10, <1>11
  DEF Next, Callback, Start, StartFails, AfterStart, Stop, StopFails, StopAnswered,
      Clear, SetLanguage, vars, pageVars

\* A run that is watched after a step was watched before it, or was started by
\* it, which is a mishap if another was watched.
LEMMA OneStep == Inv /\ [Next]_vars => OneIsWatched'
<1>. SUFFICES ASSUME Inv, [Next]_vars, "two" \notin mishaps'
              PROVE  \A q, r \in Run : Watched(q)' /\ Watched(r)' => q = r
  BY DEF OneIsWatched
<1>1. "two" \notin mishaps
  BY DEF Next, Callback, Ends, Ended, Restart, Start, ServerStarts, StartFails,
         AfterStart, StartLoaded, Tick, PollAnswered, PollFails, PollUnknown, PollRunning,
         PollEnded, PollLoaded, Stop, ServerStops, StopFails, StopAnswered, Clear,
         SetLanguage, Note, vars, pageVars
<1>2. ASSUME NEW q \in Run, Start(q) PROVE \A r \in Run : Watched(r)' => r = q
  BY <1>2 DEF Start, Note, Watched, pageVars, Inv, TypeOK
<1>3. ASSUME NEW q \in Run, ServerStarts(q) \/ StartFails(q) \/ AfterStart(q) \/ StartLoaded(q)
      PROVE  \A r \in Run : Watched(r)' => Watched(r)
  BY <1>3 DEF ServerStarts, StartFails, AfterStart, StartLoaded, Watched, pageVars, Inv, TypeOK
<1>4. ASSUME NEW q \in Run, Tick(q) \/ PollAnswered(q) \/ PollFails(q)
      PROVE  \A r \in Run : Watched(r)' => Watched(r)
  BY <1>4 DEF Tick, PollAnswered, PollFails, Moves, Watched, pageVars, Inv, TypeOK
<1>5. ASSUME NEW q \in Run, NEW c \in callbacks[q],
             PollUnknown(q, c) \/ PollRunning(q, c) \/ PollEnded(q, c) \/ PollLoaded(q, c)
      PROVE  \A r \in Run : Watched(r)' => Watched(r)
  BY <1>5 DEF PollUnknown, PollRunning, PollEnded, PollLoaded, Moves, Watched, pageVars, Inv, TypeOK
<1>6. ASSUME UNCHANGED <<starting, polling, callbacks>>
      PROVE  \A r \in Run : Watched(r)' => Watched(r)
  BY <1>6 DEF Watched
<1>7. CASE \E q \in Run : Start(q)
  BY <1>2, <1>7
<1>8. CASE \A r \in Run : Watched(r)' => Watched(r)
  BY <1>1, <1>8 DEF Inv, OneIsWatched
<1>. QED
  BY <1>3, <1>4, <1>5, <1>6, <1>7, <1>8
  DEF Next, Callback, Ends, Ended, Restart, Stop, ServerStops, StopFails, StopAnswered,
      Clear, SetLanguage, vars, pageVars

\* What the Stop handler waits for is about a run.
LEMMA StopStep == Inv /\ [Next]_vars => StopHasRun'
<1>. SUFFICES ASSUME Inv, [Next]_vars PROVE StopHasRun'
  OBVIOUS
<1>. USE DEF Inv, TypeOK, StopHasRun, NoStop
<1>1. CASE Stop \/ ServerStops \/ StopFails \/ StopAnswered
  BY <1>1 DEF Stop, ServerStops, StopFails, StopAnswered
<1>2. CASE UNCHANGED stopRequest
  BY <1>2
<1>. QED
  BY <1>1, <1>2
  DEF Next, Callback, Ends, Ended, Restart, Start, ServerStarts, StartFails, AfterStart,
      StartLoaded, Tick, PollAnswered, PollFails, PollUnknown, PollRunning, PollEnded,
      PollLoaded, Clear, SetLanguage, vars, pageVars

\* The button is only disabled by the end of a run, and without the mishap that
\* run is the one that was watched.
LEMMA StoppableStep == Inv /\ [Next]_vars => ActiveCanBeStopped'
<1>. SUFFICES ASSUME Inv, [Next]_vars, "two" \notin mishaps', activeRunId' \in polling'
              PROVE  ~stopDisabled'
  BY DEF ActiveCanBeStopped
<1>. USE RunControlAssumption DEF Inv, TypeOK, ActiveCanBeStopped
<1>1. "two" \notin mishaps
  BY DEF Next, Callback, Ends, Ended, Restart, Start, ServerStarts, StartFails,
         AfterStart, StartLoaded, Tick, PollAnswered, PollFails, PollUnknown, PollRunning,
         PollEnded, PollLoaded, Stop, ServerStops, StopFails, StopAnswered, Clear,
         SetLanguage, Note, vars, pageVars
<1>2. CASE \E r \in Run : AfterStart(r)
  BY <1>2 DEF AfterStart, Id, PolledIsStarted
<1>3. CASE \E r \in Run : StartLoaded(r)
  BY <1>3 DEF StartLoaded
<1>4. ASSUME NEW r \in Run, NEW c \in callbacks[r], PollLoaded(r, c) PROVE FALSE
  <2>1. activeRunId \in polling /\ activeRunId \in Run /\ c.at = "loading"
    BY <1>4 DEF PollLoaded
  <2>2. Watched(activeRunId) /\ Watched(r)
    BY <2>1 DEF Watched
  <2>3. activeRunId = r
    BY <1>1, <2>1, <2>2 DEF OneIsWatched
  <2>. QED
    BY <2>1, <2>3 DEF OutcomesAreTrue
<1>5. CASE \E r \in Run : \E c \in callbacks[r] : PollEnded(r, c)
  BY <1>1, <1>5 DEF PollEnded
<1>6. CASE Clear
  BY <1>6 DEF Clear
<1>7. CASE UNCHANGED <<activeRunId, polling, stopDisabled>>
  BY <1>1, <1>7
<1>. QED
  BY <1>2, <1>3, <1>4, <1>5, <1>6, <1>7
  DEF Next, Callback, Ends, Ended, Restart, Start, ServerStarts, StartFails, Tick,
      PollAnswered, PollFails, PollUnknown, PollRunning, Stop, ServerStops,
      StopFails, StopAnswered, SetLanguage, vars, pageVars

\* An outcome that is shown stays true, and while none is shown some handler
\* is left to show one.
LEMMA StatusStep == Inv /\ [Next]_vars => StatusIsDue'
<1>. DEFINE Bad == {"late", "stopLate", "translated"}
<1>. SUFFICES ASSUME Inv, [Next]_vars, mishaps' \cap Bad = {}
              PROVE  IF status.text' \in Outcome
      THEN /\ stopDisabled' /\ status.run' \in Run /\ starting'[status.run'] = "started"
           /\ server'[status.run'] \in {status.text', "gone"}
      ELSE (\E r \in Run : starting'[r] = "started") => \E r \in Run : WillShow(r)'
  BY DEF StatusIsDue
<1>. USE RunControlAssumption DEF Inv, TypeOK
<1>1. mishaps \cap Bad = {}
  BY DEF Next, Callback, Ends, Ended, Restart, Start, ServerStarts, StartFails,
         AfterStart, StartLoaded, Tick, PollAnswered, PollFails, PollUnknown, PollRunning,
         PollEnded, PollLoaded, Stop, ServerStops, StopFails, StopAnswered, Clear,
         SetLanguage, Note, vars, pageVars
<1>2. IF status.text \in Outcome
      THEN /\ stopDisabled /\ status.run \in Run /\ starting[status.run] = "started"
           /\ server[status.run] \in {status.text, "gone"}
      ELSE (\E r \in Run : starting[r] = "started") => \E r \in Run : WillShow(r)
  BY <1>1 DEF StatusIsDue
<1>. HIDE DEF Bad
<1>3. CASE \E q \in Run : Ends(q) \/ Ended(q)
  BY <1>2, <1>3 DEF Ends, Ended, pageVars, WillShow
<1>4. CASE Restart
  BY <1>2, <1>4 DEF Restart, pageVars, WillShow
<1>5. CASE \E q \in Run : Start(q) \/ StartFails(q) \/ AfterStart(q)
  <2>1. PICK q \in Run : Start(q) \/ StartFails(q) \/ AfterStart(q)
    BY <1>5
  <2>2. /\ UNCHANGED <<server, polling, stopDisabled, status, callbacks>>
        /\ starting[q] \notin {"started", "loading"} /\ starting'[q] # "started"
        /\ \A r \in Run \ {q} : starting'[r] = starting[r]
    BY <2>1, ZenonT(40) DEF Start, StartFails, AfterStart, pageVars
  <2>3. \A r \in Run : starting'[r] = "started" => starting[r] = "started"
    BY <2>2
  <2>4. \A r \in Run : WillShow(r) => WillShow(r)'
    BY <2>2 DEF WillShow
  <2>5. status.run \in Run /\ starting[status.run] = "started" => starting'[status.run] = "started"
    BY <2>2
  <2>. QED
    BY <1>2, <2>2, <2>3, <2>4, <2>5
<1>6. CASE \E q \in Run : ServerStarts(q)
  BY <1>2, <1>6 DEF ServerStarts, pageVars, WillShow
<1>7. CASE \E q \in Run : StartLoaded(q)
  BY <1>7 DEF StartLoaded, Status, WillShow
<1>8. CASE \E q \in Run : Tick(q) \/ PollAnswered(q) \/ PollFails(q)
  BY <1>2, <1>8 DEF Tick, PollAnswered, PollFails, Moves, Asked, pageVars, WillShow
<1>9. CASE \E q \in Run : \E d \in callbacks[q] : PollUnknown(q, d)
  BY <1>2, <1>9 DEF PollUnknown, Moves, pageVars, WillShow
<1>10. CASE \E q \in Run : \E d \in callbacks[q] : PollRunning(q, d)
  BY <1>10 DEF PollRunning, Status, WillShow, Note, Bad
<1>11. CASE \E q \in Run : \E d \in callbacks[q] : PollEnded(q, d)
  <2>1. PICK q \in Run : \E d \in callbacks[q] : PollEnded(q, d)
    BY <1>11
  <2>2. PICK d \in callbacks[q] : PollEnded(q, d)
    BY <2>1
  <2>3. WillShow(q)'
    <3>1. [d EXCEPT !.at = "loading"] \in callbacks'[q]
      BY <2>2 DEF PollEnded, Moves
    <3>2. [d EXCEPT !.at = "loading"].at = "loading"
      BY <2>2
    <3>. QED
      BY <3>1, <3>2 DEF WillShow
  <2>4. UNCHANGED <<server, starting, stopDisabled, status>>
    BY <2>2 DEF PollEnded
  <2>. QED
    BY <1>2, <2>3, <2>4
<1>12. CASE \E q \in Run : \E d \in callbacks[q] : PollLoaded(q, d)
  BY <1>12 DEF PollLoaded, Status, OutcomesAreTrue, PolledIsStarted
<1>13. CASE Stop \/ StopFails \/ Clear
  BY <1>2, <1>13 DEF Stop, StopFails, Clear, pageVars, WillShow
<1>14. CASE ServerStops
  BY <1>2, <1>14 DEF ServerStops, pageVars, StopHasRun, WillShow
<1>15. CASE StopAnswered
  BY <1>15 DEF StopAnswered, Status, Note, Bad, StopHasRun, ActiveIsWatched, WillShow
<1>16. CASE SetLanguage
  BY <1>2, <1>16 DEF SetLanguage, Note, Bad, WillShow
<1>17. CASE UNCHANGED vars
  BY <1>2, <1>17 DEF vars, pageVars, WillShow
<1>. QED
  BY <1>3, <1>4, <1>5, <1>6, <1>7, <1>8, <1>9, <1>10, <1>11, <1>12, <1>13, <1>14, <1>15,
     <1>16, <1>17 DEF Next, Callback

-----------------------------------------------------------------------------
\* The invariant holds in every reachable state, with any number of runs,
\* callbacks under way and outcomes.
THEOREM Invariance == Spec => []Inv
<1>1. Inv /\ [Next]_vars => Inv'
  BY TypeStep, ActiveStep, PolledStep, OutcomesStep, OneStep, StopStep, StoppableStep,
     StatusStep DEF Inv
<1>. QED
  BY InitInv, <1>1, PTL DEF Spec

\* Every variable of the page keeps its type.
THEOREM TypeCorrect == Spec => []TypeOK
BY Invariance, PTL DEF Inv

\* pollStatus() and afterStart() never leave an active run that nobody polls
\* or is about to poll.
THEOREM ActiveRunIsWatched == Spec => []ActiveIsWatched
BY Invariance, PTL DEF Inv

\* The Stop button is enabled while the active run is polled, if the user
\* starts runs one after the other.
THEOREM ActiveRunCanBeStopped == Spec => []ActiveCanBeStopped
BY Invariance, PTL DEF Inv

\* When all polls are over the status line is true: an outcome, the server's.
THEOREM StatusIsTrueInTheEnd == Spec => []SettledStatusIsOutcome
<1>1. Inv => SettledStatusIsOutcome
  <2>. SUFFICES ASSUME Inv, Settled, mishaps \cap {"late", "stopLate", "translated"} = {},
                       \E r \in Run : starting[r] = "started"
                PROVE  /\ activeRunId = None /\ stopDisabled /\ status.run \in Run
                       /\ server[status.run] \in {status.text, "gone"}
    BY DEF SettledStatusIsOutcome
  <2>1. activeRunId = None
    BY DEF Inv, Settled, Watched, ActiveIsWatched, TypeOK
  <2>2. \A r \in Run : ~WillShow(r)
    BY DEF Settled, Watched, WillShow
  <2>. QED
    BY <2>1, <2>2 DEF Inv, StatusIsDue
<1>. QED
  BY Invariance, <1>1, PTL

-----------------------------------------------------------------------------
(* What the page works out                                                 *)

\* The arguments of a call are from the sets of the instance.
CallTyped ==
  /\ Called("match") => /\ call.url \in Url
                        /\ call.pattern \in Pattern /\ call.other \in Pattern
  /\ Called("rules") => call.packet \in Packets /\ call.rules \in RuleLists
  /\ Called("template") => call.template \in Template /\ call.headers \in Headers
  /\ Called("window") => /\ call.time \in Time \cup {Nothing}
                         /\ call.now \in Time /\ call.win \in Window
  /\ Called("cookie") => call.set \in BOOLEAN /\ call.segments \in Segments
  /\ Called("bar") => /\ call.connect \in Duration /\ call.latency \in Duration
                      /\ call.elapsed \in Duration /\ call.max \in Duration
  /\ Called("xml") => call.lines \in Markup
  /\ Called("plural") => call.n \in Count
  /\ Called("label") => call.nodes \in Nodes /\ call.key \in LabelKey

LEMMA CallsAreTyped == CallSpec => []CallTyped
<1>1. CallInit => CallTyped
  BY DEF CallInit, CallTyped, Called
<1>2. CallTyped /\ [CallNext]_call => CallTyped'
  <2>. SUFFICES ASSUME CallTyped, CallNext PROVE CallTyped'
    BY DEF CallTyped, Called
  <2>1. ASSUME NEW u \in Url, NEW p \in Pattern, NEW q \in Pattern,
               Calls([fn |-> "match", url |-> u, pattern |-> p, other |-> q])
        PROVE  CallTyped'
    BY <2>1 DEF CallTyped, Called, Calls
  <2>2. ASSUME NEW p \in Packets, NEW rs \in RuleLists,
               Calls([fn |-> "rules", packet |-> p, rules |-> rs])
        PROVE  CallTyped'
    BY <2>2 DEF CallTyped, Called, Calls
  <2>3. ASSUME NEW tp \in Template, NEW h \in Headers,
               Calls([fn |-> "template", template |-> tp, headers |-> h])
        PROVE  CallTyped'
    BY <2>3 DEF CallTyped, Called, Calls
  <2>4. ASSUME NEW time \in Time \cup {Nothing}, NEW now \in Time, NEW win \in Window,
               Calls([fn |-> "window", time |-> time, now |-> now, win |-> win])
        PROVE  CallTyped'
    BY <2>4 DEF CallTyped, Called, Calls
  <2>5. ASSUME NEW b \in BOOLEAN, NEW s \in Segments,
               Calls([fn |-> "cookie", set |-> b, segments |-> s])
        PROVE  CallTyped'
    BY <2>5 DEF CallTyped, Called, Calls
  <2>6. ASSUME NEW c \in Duration, NEW l \in Duration, NEW e \in Duration, NEW m \in Duration,
               Calls([fn |-> "bar", connect |-> c, latency |-> l, elapsed |-> e, max |-> m])
        PROVE  CallTyped'
    BY <2>6 DEF CallTyped, Called, Calls
  <2>7. ASSUME NEW n \in Count, Calls([fn |-> "plural", n |-> n]) PROVE CallTyped'
    BY <2>7 DEF CallTyped, Called, Calls
  <2>8. ASSUME NEW ns \in Nodes, NEW k \in LabelKey,
               Calls([fn |-> "label", nodes |-> ns, key |-> k])
        PROVE  CallTyped'
    BY <2>8 DEF CallTyped, Called, Calls
  <2>9. ASSUME NEW lines \in Markup, Calls([fn |-> "xml", lines |-> lines]) PROVE CallTyped'
    BY <2>9 DEF CallTyped, Called, Calls
  <2>10. ASSUME NEW c \in BodyCalls, Calls(c) PROVE CallTyped'
    BY <2>10, PageFunctionsAssumption DEF CallTyped, Called, Calls
  <2>. QED
    BY <2>1, <2>2, <2>3, <2>4, <2>5, <2>6, <2>7, <2>8, <2>9, <2>10 DEF CallNext
<1>. QED
  BY <1>1, <1>2, PTL DEF CallSpec

\* A set of numbers has a least one.
LEMMA LeastIsIn ==
  ASSUME NEW T, T \subseteq Nat, T # {}
  PROVE  Min(T) \in T /\ \A y \in T : Min(T) <= y
<1>. DEFINE R == OpToRel(<, Nat)
<1>1. IsWellFoundedOn(R, Nat)
  BY NatLessThanWellFounded
<1>2. \A x, y \in Nat : x < y => <<x, y>> \in R
  BY DEF OpToRel
<1>. HIDE DEF R
<1>3. PICK x \in T : \A y \in T : ~ (<<y, x>> \in R)
  BY <1>1, WFMin
<1>4. \A y \in T : ~(y < x)
  BY <1>2, <1>3
<1>5. \A y \in T : x <= y
  BY <1>4
<1>. QED
  BY <1>5 DEF Min

\* What holds of 0, and with a number of the next one, holds of all.
LEMMA InductionOverNat ==
  ASSUME NEW P, 0 \in P, \A n \in Nat : n \in P => n + 1 \in P
  PROVE  Nat \subseteq P
<1>. SUFFICES ASSUME Nat \ P # {} PROVE FALSE
  OBVIOUS
<1>1. Min(Nat \ P) \in Nat \ P /\ \A y \in Nat \ P : Min(Nat \ P) <= y
  BY LeastIsIn
<1>. DEFINE x == Min(Nat \ P)
<1>. HIDE DEF x
<1>2. x \in Nat \ P /\ \A y \in Nat \ P : x <= y
  BY <1>1 DEF x
<1>3. x - 1 \in Nat /\ x - 1 \in P
  BY <1>2
<1>. QED
  BY <1>2, <1>3

LEMMA TwoNumbers ==
  ASSUME NEW a \in Int, NEW b \in Int
  PROVE  /\ Max({a, b}) = IF a >= b THEN a ELSE b
         /\ Min({a, b}) = IF a <= b THEN a ELSE b
<1>1. Max({a, b}) = IF a >= b THEN a ELSE b
  <2>1. \E x \in {a, b} : \A y \in {a, b} : x >= y
    OBVIOUS
  <2>2. Max({a, b}) \in {a, b} /\ Max({a, b}) >= a /\ Max({a, b}) >= b
    BY <2>1 DEF Max
  <2>. QED
    BY <2>2
<1>2. Min({a, b}) = IF a <= b THEN a ELSE b
  <2>1. \E x \in {a, b} : \A y \in {a, b} : x <= y
    OBVIOUS
  <2>2. Min({a, b}) \in {a, b} /\ Min({a, b}) <= a /\ Min({a, b}) <= b
    BY <2>1 DEF Min
  <2>. QED
    BY <2>2
<1>. QED
  BY <1>1, <1>2

-----------------------------------------------------------------------------
\* A wildcard takes a place out of those that decide, and none in.
LEMMA PatternsDo == CallTyped => PatternsGeneralise
<1>. SUFFICES ASSUME CallTyped, Called("match") PROVE PatternsGeneralise
  BY DEF PatternsGeneralise
<1>. DEFINE u == call.url
            p == call.pattern
            q == call.other
            Bad(n, r) == Nothing \in {Decoded[u.path[n]], Decoded[r.path[n]]}
            Deciding(r) == {n \in DOMAIN r.path :
                              /\ r.path[n] \notin Wild
                              /\ Bad(n, r) \/ Decoded[u.path[n]] # Decoded[r.path[n]]}
            Query(r) == \A c \in Range(r.query) :
                          c.key \in KeysOf(u.query) /\ c.value \in {Star, At(u.query, c.key)}
<1>1. /\ u.path \in Seq(Range(u.path)) /\ p.path \in Seq(Range(p.path))
      /\ q.path \in Seq(Range(q.path))
  BY PageFunctionsAssumption DEF CallTyped
<1>2. \A r : MatchesUrlPattern(u, r) =
               IF Len(u.path) # Len(r.path) THEN "no"
               ELSE IF Deciding(r) # {} THEN IF Bad(Min(Deciding(r)), r) THEN "throws" ELSE "no"
               ELSE IF Query(r) THEN "yes" ELSE "no"
  BY DEF MatchesUrlPattern
<1>3. ASSUME MatchesUrlPattern(u, p) = "yes" PROVE Len(u.path) = Len(p.path) /\ Deciding(p) = {} /\ Query(p)
  <2>. HIDE DEF Deciding, Query, u, p, Bad
  <2>. QED
    BY <1>2, <1>3
<1>4. ASSUME MatchesUrlPattern(u, p) = "yes", MoreGeneral(q, p)
      PROVE  MatchesUrlPattern(u, q) = "yes"
  <2>1. Len(u.path) = Len(p.path) /\ Deciding(p) = {} /\ Query(p)
    BY <1>3, <1>4
  <2>2. Len(u.path) = Len(q.path)
    BY <2>1, <1>4 DEF MoreGeneral
  <2>3. Deciding(q) = {}
    <3>1. DOMAIN q.path = DOMAIN p.path
      BY <1>1, <1>4 DEF MoreGeneral
    <3>2. \A n \in DOMAIN q.path : q.path[n] \notin Wild => q.path[n] = p.path[n]
      BY <1>4 DEF MoreGeneral
    <3>. QED
      BY <2>1, <3>1, <3>2
  <2>4. Query(q)
    BY <2>1, <1>4 DEF MoreGeneral
  <2>. HIDE DEF Deciding, Query, u, q, Bad
  <2>. QED
    BY <1>2, <2>2, <2>3, <2>4
<1>5. ASSUME MatchesUrlPattern(u, p) = "throws" PROVE Malformed(u) \/ Malformed(p)
  <2>1. Len(u.path) = Len(p.path) /\ Deciding(p) # {} /\ Bad(Min(Deciding(p)), p)
    <3>. HIDE DEF Deciding, Query, u, p, Bad
    <3>. QED
      BY <1>2, <1>5
  <2>2. Deciding(p) \subseteq Nat
    BY <1>1
  <2>3. Min(Deciding(p)) \in DOMAIN p.path
    <3>1. Min(Deciding(p)) \in Deciding(p)
      <4>. HIDE DEF Deciding
      <4>. QED
        BY <2>1, <2>2, LeastIsIn
    <3>. QED
      BY <3>1
  <2>4. DOMAIN u.path = DOMAIN p.path
    <3>1. DOMAIN u.path = 1 .. Len(u.path) /\ DOMAIN p.path = 1 .. Len(p.path)
      BY <1>1
    <3>. QED
      BY <2>1, <3>1
  <2>. QED
    BY <2>1, <2>3, <2>4 DEF Malformed
<1>. QED
  BY <1>3, <1>4, <1>5 DEF PatternsGeneralise

\* The results of a side are those of the rules that apply to it.
LEMMA BadgesDo == CallTyped => BadgesAgree
<1>. SUFFICES ASSUME CallTyped, Called("rules"),
                     ComputeValidation(call.packet, call.rules) # Nothing
              PROVE  BadgesAgree
  BY DEF BadgesAgree
<1>. DEFINE v == ComputeValidation(call.packet, call.rules)
            Applies(r) == MatchesUrlPattern(call.packet.url, r.pattern) = "yes"
            Rules(t) == {r \in Range(call.rules) : r.target = t /\ Applies(r)}
            Result(r) == [target |-> r.target, errors |-> Errors(call.packet[r.target], r.schema)]
            results == {Result(r) : r \in {r \in Range(call.rules) : Applies(r)}}
            Of(t) == {r \in results : r.target = t}
<1>1. \A r \in Range(call.rules) : r.target \in Side
  BY PageFunctionsAssumption DEF CallTyped
<1>2. /\ v.results = results
      /\ \A t \in Side : v.paths[t] = UNION {r.errors : r \in Of(t)}
  BY DEF ComputeValidation, Applied
<1>3. ASSUME NEW t \in Side
      PROVE  Of(t) = {Result(r) : r \in Rules(t)}
  OBVIOUS
<1>4. ASSUME NEW t \in Side
      PROVE  /\ (BodyValidationState(v, t) = Nothing) = (Rules(t) = {})
             /\ (BodyValidationState(v, t) = "invalid")
                  = (\E r \in Rules(t) : Errors(call.packet[t], r.schema) # {})
             /\ (BodyValidationState(v, t) = "invalid") = (v.paths[t] # {})
             /\ BodyValidationState(v, t) \in {Nothing, "valid", "invalid"}
  <2>1. BodyValidationState(v, t) = Verdict(Of(t))
    BY <1>2 DEF BodyValidationState
  <2>2. (Of(t) = {}) = (Rules(t) = {})
    <3>. HIDE DEF Of, Rules, Result
    <3>. QED
      BY <1>3
  <2>3. (\E r \in Of(t) : r.errors # {}) = (\E r \in Rules(t) : Errors(call.packet[t], r.schema) # {})
    <3>1. \A r \in Rules(t) : Result(r).errors = Errors(call.packet[t], r.schema)
      OBVIOUS
    <3>. HIDE DEF Of, Rules, Result
    <3>. QED
      BY <1>3, <3>1
  <2>4. (\E r \in Of(t) : r.errors # {}) = (v.paths[t] # {})
    <3>1. v.paths[t] = UNION {r.errors : r \in Of(t)}
      BY <1>2
    <3>2. ASSUME NEW r \in Of(t), r.errors # {} PROVE v.paths[t] # {}
      <4>. HIDE DEF Of, v
      <4>. QED
        BY <3>1, <3>2
    <3>3. ASSUME v.paths[t] # {} PROVE \E r \in Of(t) : r.errors # {}
      <4>. HIDE DEF Of, v
      <4>. QED
        BY <3>1, <3>3
    <3>. QED
      BY <3>2, <3>3
  <2>5. (\E r \in Of(t) : r.errors # {}) => Of(t) # {}
    OBVIOUS
  <2>. HIDE DEF Of, Rules, v
  <2>. QED
    BY <2>1, <2>2, <2>3, <2>4, <2>5, RuleMatchingAssumption DEF Verdict
<1>5. RowShield(v) = LET states == {BodyValidationState(v, t) : t \in Side}
                     IN  IF "invalid" \in states THEN "invalid"
                         ELSE IF "valid" \in states THEN "valid" ELSE Nothing
  <2>1. RowShield(v) = Verdict(results)
    BY <1>2 DEF RowShield
  <2>2. \A r \in results : r.target \in Side
    BY <1>1
  <2>3. \A t \in Side : BodyValidationState(v, t) = Verdict(Of(t))
    BY <1>2 DEF BodyValidationState
  <2>4. (\E r \in results : r.errors # {}) = (\E t \in Side : Verdict(Of(t)) = "invalid")
    <3>. HIDE DEF results
    <3>. QED
      BY <2>2, RuleMatchingAssumption DEF Verdict
  <2>5. (results # {}) = (\E t \in Side : Verdict(Of(t)) # Nothing)
    <3>. HIDE DEF results
    <3>. QED
      BY <2>2, RuleMatchingAssumption DEF Verdict
  <2>6. \A t \in Side : Verdict(Of(t)) \in {Nothing, "valid", "invalid"}
    <3>. HIDE DEF Of
    <3>. QED
      BY DEF Verdict
  <2>. HIDE DEF Of, results, v
  <2>. QED
    BY <2>1, <2>3, <2>4, <2>5, <2>6, RuleMatchingAssumption DEF Verdict
<1>. QED
  BY <1>4, <1>5 DEF BadgesAgree

\* Whatever the rules, URLs, bodies and kinds of errors: a rule is applied to
\* the packets whose URLs its pattern means, wherever a wildcard stands, and
\* shield and frames sum up what the rules find.
THEOREM RulesApplyRight == CallSpec => []RulesAreAppliedRight
<1>1. CallTyped => RulesAreAppliedRight
  BY PatternsDo, BadgesDo DEF RulesAreAppliedRight
<1>. QED
  BY <1>1, CallsAreTyped, PTL

-----------------------------------------------------------------------------
\* lookupHeader() finds a header that there is, but for the case of its name.
LEMMA HeaderIsFound ==
  ASSUME NEW headers, headers \in Seq(Range(headers)), NEW name,
         NEW h \in Range(headers), Lower[h.name] = Lower[name]
  PROVE  \E g \in Range(headers) :
           Lower[g.name] = Lower[name] /\ LookupHeader(headers, name) = g.value
<1>. DEFINE I == {i \in 1 .. Len(headers) : Lower[headers[i].name] = Lower[name]}
<1>1. PICK k \in DOMAIN headers : headers[k] = h
  BY DEF Range
<1>2. DOMAIN headers = 1 .. Len(headers) /\ Len(headers) \in Nat
  OBVIOUS
<1>3. I \subseteq Nat /\ k \in I
  BY <1>1, <1>2
<1>4. Min(I) \in I
  <2>. HIDE DEF I
  <2>. QED
    BY <1>3, LeastIsIn
<1>5. LookupHeader(headers, name) = headers[Min(I)].value
  <2>1. SelectInSeq(headers, LAMBDA x : Lower[x.name] = Lower[name]) = Min(I)
    <3>1. SelectInSeq(headers, LAMBDA x : Lower[x.name] = Lower[name])
            = IF I # {} THEN Min(I) ELSE 0
      BY DEF SelectInSeq
    <3>. HIDE DEF I
    <3>. QED
      BY <1>3, <3>1
  <2>2. Min(I) # 0
    BY <1>4
  <2>. HIDE DEF I
  <2>. QED
    BY <2>1, <2>2 DEF LookupHeader
<1>. QED
  BY <1>2, <1>4, <1>5 DEF Range

\* Placeholders that the preview explains are header values or variables.
LEMMA TemplatesDo == CallTyped => TemplatesResolve
<1>. SUFFICES ASSUME CallTyped, Called("template") PROVE TemplatesResolve
  BY DEF TemplatesResolve
<1>. DEFINE vars1 == DashboardVars(PacketOf(0), 1, 0, Nothing)
            vars2 == TraceVars("v", vars1)
            headers == [m \in {"reqHeader", "respHeader"} |-> call.headers]
            result == ApplyTemplate(call.template, vars2, headers)
<1>1. DOMAIN vars2 = TimeVars \cup PacketVars \cup {"value"}
  BY DEF DashboardVars, TraceVars
<1>. SUFFICES ASSUME NEW n \in DOMAIN call.template, "name" \in DOMAIN call.template[n]
              PROVE  LET p == call.template[n] IN
                     /\ PreviewKnows(p) => "value" \in DOMAIN result[n]
                     /\ "left" \in DOMAIN result[n] => p = result[n].left /\ ~PreviewKnows(p)
                     /\ IsHeaderVar(p) =>
                          \A h \in Range(call.headers) :
                            (Lower[h.name] = Lower[p.arg]) =>
                              \E g \in Range(call.headers) :
                                Lower[g.name] = Lower[h.name] /\ result[n].value = g.value
  BY DEF TemplatesResolve
<1>. DEFINE p == call.template[n]
<1>2. DOMAIN p \in {{"literal"}, {"name", "arg"}} /\ call.headers \in Seq(Range(call.headers))
  BY PageFunctionsAssumption DEF CallTyped
<1>3. "literal" \notin DOMAIN p
  BY <1>2
<1>4. result[n] = IF IsHeaderVar(p) THEN [value |-> LookupHeader(headers[p.name], p.arg)]
                  ELSE IF p.name \in DOMAIN vars2 THEN [value |-> vars2[p.name]]
                  ELSE [left |-> p]
  BY <1>3 DEF ApplyTemplate
<1>5. PreviewKnows(p) => IsHeaderVar(p) \/ p.name \in DOMAIN vars2
  BY <1>1 DEF PreviewKnows, DashboardVarHints
<1>. HIDE DEF vars2, result
<1>6. PreviewKnows(p) => "value" \in DOMAIN result[n]
  BY <1>4, <1>5
<1>7. "left" \in DOMAIN result[n] => p = result[n].left /\ ~PreviewKnows(p)
  BY <1>4, <1>5
<1>8. ASSUME IsHeaderVar(p), NEW h \in Range(call.headers), Lower[h.name] = Lower[p.arg]
      PROVE  \E g \in Range(call.headers) :
               Lower[g.name] = Lower[h.name] /\ result[n].value = g.value
  <2>1. headers[p.name] = call.headers
    BY <1>8 DEF IsHeaderVar
  <2>2. result[n].value = LookupHeader(call.headers, p.arg)
    BY <1>4, <1>8, <2>1
  <2>. DEFINE hs == call.headers
              name == p.arg
  <2>3. hs \in Seq(Range(hs)) /\ h \in Range(hs) /\ Lower[h.name] = Lower[name]
    BY <1>2, <1>8
  <2>4. \E g \in Range(hs) : Lower[g.name] = Lower[name] /\ LookupHeader(hs, name) = g.value
    <3>. HIDE DEF hs, name
    <3>. QED
      BY <2>3, HeaderIsFound
  <2>. QED
    BY <1>8, <2>2, <2>4
<1>. QED
  BY <1>6, <1>7, <1>8

\* Whole seconds are rounded down, and rounding keeps an order.
LEMMA SecondsRound ==
  ASSUME NEW a \in Int, NEW b \in Int, a <= b
  PROVE  /\ a \div 1000 \in Int /\ (a \div 1000) * 1000 <= a
         /\ a < (a \div 1000 + 1) * 1000 /\ a \div 1000 <= b \div 1000
OBVIOUS

LEMMA WindowsDo == CallTyped => WindowIsAround
<1>. SUFFICES ASSUME CallTyped, Called("window") PROVE WindowIsAround
  BY DEF WindowIsAround
<1>. DEFINE packet == PacketOf(call.time)
            center == IF call.time \in {Nothing, 0} THEN call.now ELSE call.time
            vars1 == DashboardVars(packet, call.win, call.now, Nothing)
<1>1. call.time \in Nat \cup {Nothing} /\ call.now \in Nat /\ call.win \in Nat
  BY PageFunctionsAssumption DEF CallTyped
<1>2. center \in Nat
  BY <1>1
<1>3. packet # Nothing /\ packet.time = call.time
  BY PageFunctionsAssumption DEF CallTyped, PacketOf
<1>4. /\ vars1.fromMs = center - call.win /\ vars1.toMs = center + call.win
      /\ vars1.fromSec = (center - call.win) \div 1000
      /\ vars1.toSec = (center + call.win) \div 1000
      /\ vars1.epochMs = center /\ vars1.epochSec = center \div 1000
  <2>1. (IF packet = Nothing \/ packet.time \in {Nothing, 0} THEN call.now ELSE packet.time)
          = center
    BY <1>3
  <2>. HIDE DEF center, packet
  <2>. QED
    BY <1>3, <2>1 DEF DashboardVars, TimeVars, PacketVars
<1>. HIDE DEF center, vars1, packet
<1>5. /\ (center - call.win) \div 1000 <= center \div 1000
      /\ center \div 1000 <= (center + call.win) \div 1000
      /\ ((center - call.win) \div 1000) * 1000 <= center - call.win
      /\ center - call.win < ((center - call.win) \div 1000 + 1) * 1000
  BY <1>1, <1>2, SecondsRound
<1>6. /\ (center - call.win) + (center + call.win) = 2 * center
      /\ (center + call.win) - (center - call.win) = 2 * call.win
  BY <1>1, <1>2
<1>. QED
  BY <1>4, <1>5, <1>6 DEF WindowIsAround, center, vars1, packet

\* Whatever the template, the headers, the time of the packet and the window:
\* no placeholder is left that the preview explained, and the window lies
\* around the packet, in milliseconds and in whole seconds.
THEOREM LinksAreComplete == CallSpec => []LinksAreFilledIn
<1>1. CallTyped => LinksAreFilledIn
  BY TemplatesDo, WindowsDo DEF LinksAreFilledIn
<1>. QED
  BY <1>1, CallsAreTyped, PTL

-----------------------------------------------------------------------------
\* The first and the rest of a list are the list.
LEMMA FirstAndRest ==
  ASSUME NEW S, NEW s \in Seq(S)
  PROVE  SubSeq(s, 1, Min({1, Len(s)})) \o SubSeq(s, 2, Len(s)) = s
<1>. DEFINE N == Len(s)
<1>0. N \in Nat
  OBVIOUS
<1>1. Min({1, N}) = IF 1 <= N THEN 1 ELSE N
  <2>1. \A a, b \in Int : Min({a, b}) = IF a <= b THEN a ELSE b
    BY TwoNumbers
  <2>. HIDE DEF N
  <2>. QED
    BY <1>0, <2>1
<1>2. CASE Len(s) = 0
  BY <1>1, <1>2
<1>3. CASE Len(s) # 0
  <2>. DEFINE f == SubSeq(s, 1, 1)
              g == SubSeq(s, 2, N)
  <2>1. f \in Seq(S) /\ Len(f) = 1 /\ f[1] = s[1]
    BY <1>3
  <2>2. g \in Seq(S) /\ Len(g) = N - 1 /\ \A i \in 1 .. N - 1 : g[i] = s[i + 1]
    <3>1. \A i \in 2 .. N : s[i] \in S
      OBVIOUS
    <3>2. /\ g \in Seq(S) /\ Len(g) = IF 2 <= N THEN N - 2 + 1 ELSE 0
          /\ \A i \in 1 .. N - 2 + 1 : g[i] = s[2 + i - 1]
      <4>. HIDE DEF N
      <4>. QED
        BY <1>0, <3>1, SubSeqProperties
    <3>3. N # 0
      BY <1>3
    <3>. HIDE DEF N, g
    <3>4. N - 2 + 1 = N - 1 /\ Len(g) = N - 1 /\ \A i \in 1 .. N - 1 : 2 + i - 1 = i + 1
      BY <1>0, <3>2, <3>3
    <3>. QED
      BY <3>2, <3>4
  <2>. HIDE DEF f, g
  <2>. DEFINE h == f \o g
  <2>3. /\ h \in Seq(S) /\ Len(h) = 1 + (N - 1)
        /\ \A i \in 1 .. 1 + (N - 1) : h[i] = IF i <= 1 THEN f[i] ELSE g[i - 1]
    <3>1. /\ h \in Seq(S) /\ Len(h) = Len(f) + Len(g)
          /\ \A i \in 1 .. Len(f) + Len(g) :
               h[i] = IF i <= Len(f) THEN f[i] ELSE g[i - Len(f)]
      <4>1. f \in Seq(S) /\ g \in Seq(S)
        BY <2>1, <2>2
      <4>. QED
        BY <4>1, ConcatProperties DEF h
    <3>. QED
      BY <2>1, <2>2, <3>1
  <2>. HIDE DEF h
  <2>4. Len(h) = Len(s) /\ \A i \in 1 .. Len(s) : h[i] = s[i]
    BY <1>0, <1>3, <2>1, <2>2, <2>3
  <2>5. h = s
    BY <2>3, <2>4, SeqEqual
  <2>6. Min({1, N}) = 1
    BY <1>0, <1>1, <1>3
  <2>. QED
    BY <2>5, <2>6 DEF h, f, g
<1>. QED
  BY <1>2, <1>3

\* A cookie is told from its attributes by splitting one list.
LEMMA CookiesDo == CallTyped => CookiesLoseNothing
<1>. SUFFICES ASSUME CallTyped, Called("cookie") PROVE CookiesLoseNothing
  BY DEF CookiesLoseNothing
<1>. DEFINE segments == call.segments
            filled == Only(segments, {s \in Range(segments) : Filled(s)})
            pairs == [n \in DOMAIN filled |-> Pair(filled[n])]
            parsed == ParseCookie(call.set, segments)
<1>1. /\ segments \in Seq(Range(segments))
      /\ \A c \in Range(segments) : c = [name |-> c.name, value |-> c.value]
  BY PageFunctionsAssumption DEF CallTyped
<1>2. filled = Only(segments, {s \in Range(segments) : s # [name |-> Blank, value |-> NoArg]})
  <2>1. \A c \in Range(segments) : Filled(c) <=> c # [name |-> Blank, value |-> NoArg]
    BY <1>1 DEF Filled
  <2>2. {s \in Range(segments) : Filled(s)}
          = {s \in Range(segments) : s # [name |-> Blank, value |-> NoArg]}
    BY <2>1
  <2>. QED
    BY <2>2
<1>3. \E N \in Nat : DOMAIN filled = 1 .. N
  <2>. DEFINE I == {i \in 1 .. Len(segments) : segments[i] \in {s \in Range(segments) : Filled(s)}}
  <2>1. Len(segments) \in Nat
    BY <1>1
  <2>2. IsFiniteSet(1 .. Len(segments)) /\ I \subseteq 1 .. Len(segments)
    BY <2>1, FS_Interval
  <2>3. Cardinality(I) \in Nat
    <3>. HIDE DEF I
    <3>. QED
      BY <2>2, FS_Subset, FS_CardinalityType
  <2>4. DOMAIN filled = 1 .. Cardinality(I)
    BY DEF Only, Arranged
  <2>. QED
    BY <2>3, <2>4
<1>. HIDE DEF filled
<1>4. pairs \in Seq({pairs[n] : n \in DOMAIN pairs})
  BY <1>3
<1>5. parsed.pairs \o parsed.attributes = pairs
  <2>1. CASE call.set
    <3>1. /\ parsed.pairs = SubSeq(pairs, 1, Min({1, Len(pairs)}))
          /\ parsed.attributes = SubSeq(pairs, 2, Len(pairs))
      BY <2>1 DEF ParseCookie, filled
    <3>. HIDE DEF pairs, parsed
    <3>. QED
      BY <1>4, <3>1, FirstAndRest
  <2>2. CASE ~call.set
    <3>1. parsed.pairs = pairs /\ parsed.attributes = <<>>
      BY <2>2 DEF ParseCookie, filled
    <3>. HIDE DEF pairs, parsed
    <3>. QED
      BY <1>4, <3>1
  <2>. QED
    BY <2>1, <2>2 DEF CallTyped
<1>6. [n \in DOMAIN pairs |-> pairs[n].name] = [n \in DOMAIN filled |-> filled[n].name]
  BY DEF Pair
<1>. HIDE DEF pairs, parsed
<1>. QED
  BY <1>2, <1>5, <1>6 DEF CookiesLoseNothing, parsed

LEMMA BarsDo == CallTyped => BarsAddUp
<1>. SUFFICES ASSUME CallTyped, Called("bar") PROVE BarsAddUp
  BY DEF BarsAddUp
<1>. DEFINE c == call.connect
            l == call.latency
            e == call.elapsed
            m == call.max
            bar == BuildWaterfall(c, l, e)
<1>1. c \in Int /\ l \in Int /\ e \in Int /\ m \in Int
  BY PageFunctionsAssumption DEF CallTyped
<1>. HIDE DEF c, l, e, m
<1>2. /\ bar.connect = IF 0 >= c THEN 0 ELSE c
      /\ bar.wait = IF 0 >= l - bar.connect THEN 0 ELSE l - bar.connect
      /\ bar.proc = IF 0 >= e - l THEN 0 ELSE e - l
  <2>1. Max({0, c}) = IF 0 >= c THEN 0 ELSE c
    BY <1>1, TwoNumbers
  <2>2. Max({0, l - Max({0, c})}) = IF 0 >= l - Max({0, c}) THEN 0 ELSE l - Max({0, c})
    BY <1>1, <2>1, TwoNumbers
  <2>3. Max({0, e - l}) = IF 0 >= e - l THEN 0 ELSE e - l
    BY <1>1, TwoNumbers
  <2>. QED
    BY <2>1, <2>2, <2>3 DEF BuildWaterfall
<1>. HIDE DEF bar
<1>3. ASSUME NEW ms \in Nat, ms <= m PROVE Width(ms, m) = ms
  <2>1. Max({m, 1}) = IF m >= 1 THEN m ELSE 1
    BY <1>1, TwoNumbers
  <2>2. Min({ms, Max({m, 1})}) = ms
    BY <1>1, <1>3, <2>1, TwoNumbers
  <2>. QED
    BY <2>2 DEF Width
<1>4. bar.connect >= 0 /\ bar.wait >= 0 /\ bar.proc >= 0
  BY <1>1, <1>2
<1>5. ASSUME 0 <= c, c <= l, l <= e, e <= m
      PROVE  Width(bar.connect, m) + Width(bar.wait, m) + Width(bar.proc, m) = e
  <2>1. bar.connect = c /\ bar.wait = l - c /\ bar.proc = e - l
    BY <1>1, <1>2, <1>5
  <2>2. Width(c, m) = c /\ Width(l - c, m) = l - c /\ Width(e - l, m) = e - l
    BY <1>1, <1>3, <1>5
  <2>. QED
    BY <1>1, <2>1, <2>2
<1>. QED
  BY <1>4, <1>5 DEF BarsAddUp, bar, c, l, e, m

-----------------------------------------------------------------------------
\* A line more begins an element, ends one, or does neither.
LEMMA CountedOn ==
  ASSUME NEW lines, NEW n \in Nat \ {0}
  PROVE  /\ OpenedBy(lines, n) = OpenedBy(lines, n - 1) + IF lines[n] = "open" THEN 1 ELSE 0
         /\ ClosedBy(lines, n) = ClosedBy(lines, n - 1) + IF lines[n] = "close" THEN 1 ELSE 0
         /\ OpenedBy(lines, n - 1) \in Nat /\ ClosedBy(lines, n - 1) \in Nat
<1>1. ASSUME NEW k
      PROVE  LET S(i) == {m \in 1 .. i : lines[m] = k} IN
             /\ Cardinality(S(n - 1)) \in Nat
             /\ Cardinality(S(n)) = Cardinality(S(n - 1)) + IF lines[n] = k THEN 1 ELSE 0
  <2>. DEFINE S(i) == {m \in 1 .. i : lines[m] = k}
  <2>1. IsFiniteSet(1 .. n - 1) /\ S(n - 1) \subseteq 1 .. n - 1
    BY FS_Interval
  <2>2. IsFiniteSet(S(n - 1)) /\ n \notin S(n - 1)
    <3>1. n \notin 1 .. n - 1
      OBVIOUS
    <3>. QED
      BY <2>1, <3>1, FS_Subset
  <2>3. S(n) = IF lines[n] = k THEN S(n - 1) \cup {n} ELSE S(n - 1)
    <3>1. 1 .. n = (1 .. n - 1) \cup {n}
      OBVIOUS
    <3>. QED
      BY <3>1
  <2>. HIDE DEF S
  <2>4. Cardinality(S(n - 1)) \in Nat
    BY <2>2, FS_CardinalityType
  <2>5. Cardinality(S(n - 1) \cup {n}) = Cardinality(S(n - 1)) + 1
    BY <2>2, FS_AddElement
  <2>6. Cardinality(S(n)) = Cardinality(S(n - 1)) + IF lines[n] = k THEN 1 ELSE 0
    BY <2>3, <2>4, <2>5
  <2>. QED
    BY <2>4, <2>6 DEF S
<1>. QED
  BY <1>1 DEF OpenedBy, ClosedBy

\* The depth that is counted on from line to line is the number of elements that
\* have begun and not ended: it is never lowered at 0 in a document.
LEMMA IndentDoes == CallTyped => IndentIsNesting
<1>. SUFFICES ASSUME CallTyped, Called("xml"),
                     \A n \in DOMAIN call.lines : ClosedBy(call.lines, n) <= OpenedBy(call.lines, n)
              PROVE  LET lines == call.lines IN
                     PrettyDepths(lines) = [n \in DOMAIN lines |-> OpenedBy(lines, n - 1) - ClosedBy(lines, n)]
  BY DEF IndentIsNesting
<1>. DEFINE lines == call.lines
            L == Len(lines)
            Counted(d, n) == CASE lines[n] = "open" -> d + 1
                               [] lines[n] = "close" -> Max({0, d - 1})
                               [] OTHER -> d
            Follows(f) == f = [n \in 0 .. L |-> IF n = 0 THEN 0 ELSE Counted(f[n - 1], n)]
            after == CHOOSE f : Follows(f)
            depth == [n \in 0 .. L |-> OpenedBy(lines, n) - ClosedBy(lines, n)]
<1>1. L \in Nat /\ DOMAIN lines = 1 .. L
  BY PageFunctionsAssumption DEF CallTyped
<1>2. depth[0] = 0
  <2>1. OpenedBy(lines, 0) = 0 /\ ClosedBy(lines, 0) = 0
    <3>1. \A k : {m \in 1 .. 0 : lines[m] = k} = {}
      OBVIOUS
    <3>. QED
      BY <3>1, FS_EmptySet DEF OpenedBy, ClosedBy
  <2>. HIDE DEF L, lines
  <2>. QED
    BY <1>1, <2>1
<1>3. ASSUME NEW n \in 1 .. L PROVE depth[n] = Counted(depth[n - 1], n)
  <2>1. n \in Nat \ {0} /\ n - 1 \in 0 .. L /\ n \in 0 .. L
    BY <1>1
  <2>2. /\ OpenedBy(lines, n) = OpenedBy(lines, n - 1) + IF lines[n] = "open" THEN 1 ELSE 0
        /\ ClosedBy(lines, n) = ClosedBy(lines, n - 1) + IF lines[n] = "close" THEN 1 ELSE 0
        /\ OpenedBy(lines, n - 1) \in Nat /\ ClosedBy(lines, n - 1) \in Nat
    BY <2>1, CountedOn
  <2>3. ClosedBy(lines, n) <= OpenedBy(lines, n)
    BY <1>1
  <2>4. /\ depth[n] = OpenedBy(lines, n) - ClosedBy(lines, n)
        /\ depth[n - 1] = OpenedBy(lines, n - 1) - ClosedBy(lines, n - 1)
    BY <2>1
  <2>. HIDE DEF depth, lines
  <2>5. CASE lines[n] = "close"
    <3>1. depth[n] = depth[n - 1] - 1 /\ depth[n] >= 0 /\ depth[n - 1] \in Int
      BY <2>2, <2>3, <2>4, <2>5
    <3>2. Max({0, depth[n - 1] - 1}) = depth[n]
      BY <3>1, TwoNumbers
    <3>. QED
      BY <2>5, <3>2
  <2>6. CASE lines[n] = "open"
    BY <2>2, <2>4, <2>6
  <2>7. CASE lines[n] \notin {"open", "close"}
    BY <2>2, <2>4, <2>7
  <2>. QED
    BY <2>5, <2>6, <2>7
<1>4. Follows(depth)
  <2>. HIDE DEF L, lines, Counted
  <2>1. ASSUME NEW n \in 0 .. L
        PROVE  depth[n] = IF n = 0 THEN 0 ELSE Counted(depth[n - 1], n)
    <3>. HIDE DEF depth
    <3>1. CASE n = 0
      BY <1>2, <3>1
    <3>2. CASE n # 0
      <4>1. n \in 1 .. L
        BY <1>1, <3>2
      <4>. QED
        BY <1>3, <3>2, <4>1
    <3>. QED
      BY <3>1, <3>2
  <2>2. depth = [n \in 0 .. L |-> depth[n]]
    OBVIOUS
  <2>. HIDE DEF depth
  <2>. QED
    BY <2>1, <2>2
<1>5. Follows(after)
  <2>. HIDE DEF Follows, depth
  <2>. QED
    BY <1>4
<1>6. ASSUME NEW n \in 0 .. L PROVE after[n] = depth[n]
  <2>. HIDE DEF L, lines, Counted, depth, after
  <2>. DEFINE P == {m \in Nat : m <= L => after[m] = depth[m]}
  <2>1. 0 \in P
    BY <1>1, <1>2, <1>5
  <2>2. ASSUME NEW m \in Nat, m \in P, m + 1 <= L PROVE after[m + 1] = depth[m + 1]
    <3>1. m + 1 \in 1 .. L /\ m + 1 \in 0 .. L /\ m + 1 - 1 = m /\ m + 1 # 0 /\ m <= L
      BY <1>1, <2>2
    <3>2. after[m + 1] = Counted(after[m], m + 1)
      BY <1>5, <3>1
    <3>3. depth[m + 1] = Counted(depth[m], m + 1)
      BY <1>3, <3>1
    <3>. QED
      BY <2>2, <3>1, <3>2, <3>3
  <2>3. \A m \in Nat : m \in P => m + 1 \in P
    BY <2>2
  <2>. HIDE DEF P
  <2>4. Nat \subseteq P
    BY <2>1, <2>3, InductionOverNat
  <2>. QED
    BY <1>1, <2>4 DEF P
<1>7. PrettyDepths(lines)
        = [n \in DOMAIN lines |-> IF lines[n] = "close" THEN after[n] ELSE after[n - 1]]
  BY DEF PrettyDepths
<1>8. ASSUME NEW n \in 1 .. L
      PROVE  (IF lines[n] = "close" THEN after[n] ELSE after[n - 1])
               = OpenedBy(lines, n - 1) - ClosedBy(lines, n)
  <2>1. n \in Nat \ {0} /\ n - 1 \in 0 .. L /\ n \in 0 .. L
    BY <1>1
  <2>. HIDE DEF after
  <2>2. /\ after[n] = OpenedBy(lines, n) - ClosedBy(lines, n)
        /\ after[n - 1] = OpenedBy(lines, n - 1) - ClosedBy(lines, n - 1)
    BY <1>6, <2>1
  <2>3. /\ OpenedBy(lines, n) = OpenedBy(lines, n - 1) + IF lines[n] = "open" THEN 1 ELSE 0
        /\ ClosedBy(lines, n) = ClosedBy(lines, n - 1) + IF lines[n] = "close" THEN 1 ELSE 0
        /\ OpenedBy(lines, n - 1) \in Nat /\ ClosedBy(lines, n - 1) \in Nat
    BY <2>1, CountedOn
  <2>. HIDE DEF lines
  <2>. QED
    BY <2>2, <2>3
<1>. HIDE DEF after, L, lines
<1>. QED
  BY <1>1, <1>7, <1>8 DEF lines

\* Whatever the header, the times and the document: every part of a cookie
\* header that is not empty is shown, once and in order, the parts of a timing
\* bar make up the packet's time, and each line of a document, however long,
\* is written as deep as the elements around it are.
THEOREM LayoutLosesNothing == CallSpec => []LayoutIsFaithful
<1>1. CallTyped => LayoutIsFaithful
  BY CookiesDo, BarsDo, IndentDoes DEF LayoutIsFaithful
<1>. QED
  BY <1>1, CallsAreTyped, PTL

-----------------------------------------------------------------------------
LEMMA PluralDo == CallTyped => PluralIsRussian
<1>. SUFFICES ASSUME CallTyped, Called("plural") PROVE PluralIsRussian
  BY DEF PluralIsRussian
<1>. DEFINE n == call.n
<1>1. n \in Nat
  BY PageFunctionsAssumption DEF CallTyped
<1>. HIDE DEF n
<1>2. (n % 100) % 10 = n % 10 /\ n % 100 \in 0 .. 99 /\ n % 10 \in 0 .. 9
  BY <1>1
<1>3. RussianPlural(n) = IF n % 100 > 10 /\ n % 100 < 20 THEN 3
                         ELSE IF n % 10 = 1 THEN 1 ELSE IF n % 10 > 1 /\ n % 10 < 5 THEN 2 ELSE 3
  BY <1>1, <1>2 DEF RussianPlural
<1>. DEFINE Ending(k, m) == n % 10 = k /\ n % 100 # m
<1>4. (n % 100 > 10 /\ n % 100 < 20) <=> n % 100 \in 11 .. 19
  BY <1>2
<1>5. n % 100 \in 11 .. 19 => n % 10 = (n % 100) - 10
  BY <1>2
<1>6. n % 100 \notin 11 .. 19 => \A k \in 1 .. 4 : n % 10 = k => n % 100 # k + 10
  OBVIOUS
<1>7. RussianPlural(n) = IF Ending(1, 11) THEN 1
        ELSE IF Ending(2, 12) \/ Ending(3, 13) \/ Ending(4, 14) THEN 2 ELSE 3
  <2>1. CASE n % 100 \in 11 .. 19
    BY <1>2, <1>3, <1>4, <1>5, <2>1
  <2>2. CASE n % 100 \notin 11 .. 19
    BY <1>2, <1>3, <1>4, <1>6, <2>2
  <2>. QED
    BY <2>1, <2>2
<1>. QED
  BY <1>7 DEF PluralIsRussian, n

\* What is written into a label is found again at the same place.
LEMMA LabelReplaced ==
  ASSUME NEW nodes, nodes \in Seq(Range(nodes)), NEW a, a # Blank, NEW b
  PROVE  ReplaceLabel(ReplaceLabel(nodes, a), b) = ReplaceLabel(nodes, b)
<1>. DEFINE I(s) == {i \in 1 .. Len(s) : "text" \in DOMAIN s[i] /\ s[i].text # Blank}
            at == Min(I(nodes))
            A == [text |-> a]
            B == [text |-> b]
            once == ReplaceLabel(nodes, a)
<1>1. \A s, text : ReplaceLabel(s, text) =
                     LET k == IF I(s) # {} THEN Min(I(s)) ELSE 0
                     IN  IF k = 0 THEN <<[text |-> text]>> \o s
                         ELSE [s EXCEPT ![k] = [text |-> text]]
  BY DEF ReplaceLabel, SelectInSeq
<1>2. CASE I(nodes) = {}
  <2>1. once = <<A>> \o nodes /\ ReplaceLabel(nodes, b) = <<B>> \o nodes
    <3>. HIDE DEF I
    <3>. QED
      BY <1>1, <1>2
  <2>2. Len(once) = Len(nodes) + 1 /\ once[1] = A /\ DOMAIN once = 1 .. Len(nodes) + 1
    BY <2>1
  <2>3. 1 \in I(once) /\ I(once) \subseteq Nat /\ \A i \in I(once) : 1 <= i
    BY <2>2
  <2>4. Min(I(once)) = 1
    <3>. HIDE DEF I, once
    <3>. QED
      BY <2>3, LeastIsIn
  <2>5. ReplaceLabel(once, b) = [once EXCEPT ![1] = B]
    <3>1. ReplaceLabel(once, b) = [once EXCEPT ![Min(I(once))] = B]
      <4>1. I(once) # {} /\ Min(I(once)) # 0
        BY <2>3, <2>4
      <4>. HIDE DEF I, once
      <4>. QED
        BY <1>1, <4>1
    <3>. QED
      BY <2>4, <3>1
  <2>6. [once EXCEPT ![1] = B] = <<B>> \o nodes
    <3>. DEFINE S == Range(nodes) \cup {A, B}
                r1 == [once EXCEPT ![1] = B]
                r2 == <<B>> \o nodes
    <3>1. nodes \in Seq(S) /\ <<A>> \in Seq(S) /\ <<B>> \in Seq(S) /\ B \in S
      BY DEF Range
    <3>2. /\ once \in Seq(S) /\ Len(once) = 1 + Len(nodes)
          /\ \A i \in 1 .. 1 + Len(nodes) : once[i] = IF i <= 1 THEN <<A>>[i] ELSE nodes[i - 1]
      <4>. HIDE DEF S, once
      <4>. QED
        BY <2>1, <3>1, ConcatProperties
    <3>3. /\ r2 \in Seq(S) /\ Len(r2) = 1 + Len(nodes)
          /\ \A i \in 1 .. 1 + Len(nodes) : r2[i] = IF i <= 1 THEN <<B>>[i] ELSE nodes[i - 1]
      <4>. HIDE DEF S
      <4>. QED
        BY <3>1, ConcatProperties
    <3>. HIDE DEF S, once, r2
    <3>4. /\ r1 \in Seq(S) /\ Len(r1) = 1 + Len(nodes)
          /\ \A i \in 1 .. 1 + Len(nodes) : r1[i] = IF i <= 1 THEN B ELSE nodes[i - 1]
      BY <3>1, <3>2
    <3>. HIDE DEF r1
    <3>5. Len(r1) = Len(r2) /\ \A i \in 1 .. Len(r1) : r1[i] = r2[i]
      <4>1. \A i \in 1 .. 1 + Len(nodes) : i <= 1 => i = 1
        OBVIOUS
      <4>. QED
        BY <3>3, <3>4, <4>1
    <3>6. r1 = r2
      BY <3>3, <3>4, <3>5, SeqEqual
    <3>. QED
      BY <3>6 DEF r1, r2
  <2>. QED
    BY <2>1, <2>5, <2>6
<1>3. CASE I(nodes) # {}
  <2>1. I(nodes) \subseteq Nat \ {0} /\ at \in I(nodes)
    <3>1. I(nodes) \subseteq Nat \ {0}
      OBVIOUS
    <3>. HIDE DEF I
    <3>. QED
      BY <1>3, <3>1, LeastIsIn
  <2>2. once = [nodes EXCEPT ![at] = A] /\ ReplaceLabel(nodes, b) = [nodes EXCEPT ![at] = B]
    <3>. HIDE DEF I
    <3>. QED
      BY <1>1, <1>3, <2>1
  <2>3. at \in DOMAIN nodes /\ Len(once) = Len(nodes)
    BY <2>1, <2>2
  <2>4. I(once) = I(nodes)
    <3>1. \A i \in 1 .. Len(nodes) : i # at => once[i] = nodes[i]
      BY <2>2
    <3>2. "text" \in DOMAIN once[at] /\ once[at].text # Blank
      BY <2>2, <2>3
    <3>. HIDE DEF once, at
    <3>. QED
      BY <2>1, <2>3, <3>1, <3>2
  <2>5. ReplaceLabel(once, b) = [once EXCEPT ![at] = B]
    <3>. HIDE DEF I, once
    <3>. QED
      BY <1>1, <1>3, <2>1, <2>4
  <2>6. [once EXCEPT ![at] = B] = [nodes EXCEPT ![at] = B]
    BY <2>2
  <2>. QED
    BY <2>2, <2>5, <2>6
<1>. QED
  BY <1>2, <1>3

LEMMA LabelKeepsElements ==
  ASSUME NEW nodes, nodes \in Seq(Range(nodes)), NEW b,
         \A n \in DOMAIN nodes : DOMAIN nodes[n] \in {{"text"}, {"element"}}
  PROVE  KeepsElements(nodes, ReplaceLabel(nodes, b))
<1>. DEFINE I == {i \in 1 .. Len(nodes) : "text" \in DOMAIN nodes[i] /\ nodes[i].text # Blank}
            new == ReplaceLabel(nodes, b)
<1>1. new = LET k == IF I # {} THEN Min(I) ELSE 0
            IN  IF k = 0 THEN <<[text |-> b]>> \o nodes ELSE [nodes EXCEPT ![k] = [text |-> b]]
  BY DEF ReplaceLabel, SelectInSeq
<1>2. DOMAIN nodes = 1 .. Len(nodes) /\ Len(nodes) \in Nat
  OBVIOUS
<1>3. CASE I = {}
  <2>1. new = <<[text |-> b]>> \o nodes
    <3>. HIDE DEF I
    <3>. QED
      BY <1>1, <1>3
  <2>2. DOMAIN new = 1 .. Len(nodes) + 1 /\ new[1] = [text |-> b]
    BY <2>1
  <2>3. \A n \in DOMAIN nodes : new[n + 1] = nodes[n]
    BY <2>1
  <2>4. \A n \in DOMAIN new : n # 1 => n - 1 \in DOMAIN nodes /\ nodes[n - 1] = new[n]
    BY <2>1
  <2>5. "element" \notin DOMAIN new[1]
    BY <2>2
  <2>. HIDE DEF new
  <2>. QED
    BY <1>2, <2>2, <2>3, <2>4, <2>5 DEF KeepsElements, new
<1>4. CASE I # {}
  <2>1. PICK k \in I : new = [nodes EXCEPT ![k] = [text |-> b]]
    <3>1. I \subseteq Nat \ {0}
      OBVIOUS
    <3>. HIDE DEF I
    <3>. QED
      BY <1>1, <1>4, <3>1, LeastIsIn
  <2>2. k \in DOMAIN nodes /\ "text" \in DOMAIN nodes[k]
    OBVIOUS
  <2>3. "element" \notin DOMAIN nodes[k] /\ "element" \notin DOMAIN new[k]
    BY <2>1, <2>2
  <2>4. DOMAIN new = DOMAIN nodes /\ \A n \in DOMAIN nodes : n # k => new[n] = nodes[n]
    BY <2>1
  <2>5. \A n \in DOMAIN nodes : n + 0 = n /\ n - 0 = n
    BY <1>2
  <2>. HIDE DEF new
  <2>. QED
    BY <2>3, <2>4, <2>5 DEF KeepsElements, new
<1>. QED
  BY <1>3, <1>4

LEMMA LabelsDo == CallTyped => LabelsSwitch
<1>. SUFFICES ASSUME CallTyped, Called("label"), NEW a \in {"en", "ru"}, NEW b \in {"en", "ru"}
              PROVE  LET In(nodes, language) == ReplaceLabel(nodes, Translate(call.key, language))
                         twice == In(In(call.nodes, a), b)
                     IN  twice = In(call.nodes, b) /\ KeepsElements(call.nodes, twice)
  BY DEF LabelsSwitch
<1>. DEFINE nodes == call.nodes
            A == Translate(call.key, a)
            B == Translate(call.key, b)
<1>1. /\ nodes \in Seq(Range(nodes))
      /\ \A n \in DOMAIN nodes : DOMAIN nodes[n] \in {{"text"}, {"element"}}
  BY PageFunctionsAssumption DEF CallTyped
<1>2. A # Blank
  <2>1. A \in LabelKey \cup Range(English) \cup Range(Russian)
    BY DEF CallTyped, Translate, Range
  <2>. QED
    BY <2>1, PageFunctionsAssumption
<1>. HIDE DEF nodes, A, B
<1>3. ReplaceLabel(ReplaceLabel(nodes, A), B) = ReplaceLabel(nodes, B)
  BY <1>1, <1>2, LabelReplaced
<1>4. KeepsElements(nodes, ReplaceLabel(nodes, B))
  BY <1>1, LabelKeepsElements
<1>. QED
  BY <1>3, <1>4 DEF nodes, A, B

\* Whatever the tables of translations and the labels: Russian plurals follow
\* the rules of Russian, and a label that was switched any number of times
\* reads as if drawn in the last language, its icons and fields in place.
THEOREM LanguagesStaySeparate == CallSpec => []LanguagesAreKept
<1>1. CallTyped => LanguagesAreKept
  BY PluralDo, LabelsDo DEF LanguagesAreKept
<1>. QED
  BY <1>1, CallsAreTyped, PTL
==============================================================================
