--------------------------- MODULE TestRunService ---------------------------
(***************************************************************************)
(* The test runs the server executes itself.  start() registers a run,     *)
(* subscribes its packet counter to the bus and queues its plan on one     *)
(* executor thread; JMeter's sampler threads publish packets; the run      *)
(* ends when its plan does, or when stop() is called.                      *)
(*                                                                         *)
(* Threads: the HTTP threads in start(), stop() and clear(), the executor  *)
(* thread, and the sampler threads, which execute the bus and the run's    *)
(* counter.  A step is one access to a shared map, counter or list; start  *)
(* registers in one step, because nobody can name the run before.          *)
(*                                                                         *)
(* JMeter and the executor are external: a plan ends on its own when its   *)
(* samplers are idle; a plan whose thread was interrupted may end at any   *)
(* point; stopEngine() stops whatever engine runs in this JVM.  The plans  *)
(* buildPlan makes have no auto-stop element.                              *)
(***************************************************************************)
EXTENDS Integers, Sequences, FiniteSets

CONSTANTS
  Run,         \* ids of the runs that may be started
  Sampler,     \* sampler threads
  RunOf,       \* the run each sampler thread belongs to
  Stoppable,   \* bound: the runs somebody may stop, each of them once
  Clearing,    \* bound: whether anybody clears the history
  MaxSamples,  \* bound on the samples of one thread
  Nobody       \* no run, no status, no summary

ASSUME RunAssumption ==
  /\ IsFiniteSet(Sampler)
  /\ RunOf \in [Sampler -> Run]
  /\ Stoppable \subseteq Run
  /\ Clearing \in BOOLEAN
  /\ MaxSamples \in Nat
  /\ Nobody \notin Run

VARIABLES
  startPc,   \* where the thread in start(r) is
  active,    \* keys of the map runs
  counters,  \* runs whose counter is subscribed to the bus
  captured,  \* captured counter of each run
  errors,    \* error counter of each run
  list,      \* run list: what RunRepository holds for each run
  finished,  \* map finished: the status of the runs that ended
  queue,     \* runs waiting for the executor thread
  worker,    \* the run in execute(), or Nobody
  plan,      \* its plan: "off", "starting", "running", "stopping", "ended"
  cancelled, \* runs whose task was cancelled
  finPc,     \* where finish(r) is, once it has removed r from the map
  finBy,     \* who executes finish(r): "execute" or "stop"
  finState,  \* the state finish(r) writes
  stopPc,    \* where the thread in stop(r) is
  samPc,     \* where each sampler thread is
  samOk,     \* whether its sample succeeded
  held,      \* what its counter has read
  taken,     \* samples each thread has taken
  samples,   \* history: the samples stored for each run
  failures,  \* history: those of them that failed
  halted     \* history: runs whose engine was told to stop

sampleVars == <<taken, samples, failures>>
threadVars == <<samPc, samOk, held, sampleVars>>
stopVars   == <<stopPc, cancelled, halted>>
finVars    == <<finPc, finBy, finState, finished>>
execVars   == <<queue, worker, plan>>
countVars  == <<captured, errors>>
vars == <<startPc, active, counters, list, threadVars, stopVars, finVars,
          execVars, countVars>>

Summary(s, c, e) == [state |-> s, captured |-> c, errors |-> e]
EndState == {"FINISHED", "FAILED", "STOPPED"}
Final     == [state : EndState, captured : Nat, errors : Nat]
Running   == [state : {"RUNNING"}, captured : Nat, errors : Nat]

ASSUME NobodyAssumption == Nobody \notin Final \cup Running

Init ==
  /\ startPc = [r \in Run |-> "idle"]
  /\ active = {} /\ counters = {}
  /\ captured = [r \in Run |-> 0] /\ errors = [r \in Run |-> 0]
  /\ list = [r \in Run |-> Nobody] /\ finished = [r \in Run |-> Nobody]
  /\ queue = <<>> /\ worker = Nobody /\ plan = "off" /\ cancelled = {}
  /\ finPc = [r \in Run |-> "none"]
  /\ finBy = [r \in Run |-> Nobody] /\ finState = [r \in Run |-> Nobody]
  /\ stopPc = [r \in Run |-> "idle"]
  /\ samPc = [t \in Sampler |-> "idle"] /\ samOk = [t \in Sampler |-> TRUE]
  /\ held = [t \in Sampler |-> Summary("RUNNING", 0, 0)]
  /\ taken = [t \in Sampler |-> 0]
  /\ samples = [r \in Run |-> 0] /\ failures = [r \in Run |-> 0]
  /\ halted = {}

-----------------------------------------------------------------------------
(* start() *)

\* The counter is subscribed, the run enters the map and the run list.
Register(r) ==
  /\ startPc[r] = "idle"
  /\ startPc' = [startPc EXCEPT ![r] = "registered"]
  /\ counters' = counters \cup {r}
  /\ active' = active \cup {r}
  /\ list' = [list EXCEPT ![r] = Summary("RUNNING", 0, 0)]
  /\ UNCHANGED <<threadVars, stopVars, finVars, execVars, countVars>>

\* The plan is queued on the executor.
Submit(r) ==
  /\ startPc[r] = "registered"
  /\ startPc' = [startPc EXCEPT ![r] = "submitted"]
  /\ queue' = Append(queue, r)
  /\ UNCHANGED <<active, counters, list, worker, plan,
                 threadVars, stopVars, finVars, countVars>>

\* run.task is assigned; start() returns.
Return(r) ==
  /\ startPc[r] = "submitted"
  /\ startPc' = [startPc EXCEPT ![r] = "returned"]
  /\ UNCHANGED <<active, counters, list,
                 threadVars, stopVars, finVars, execVars, countVars>>

-----------------------------------------------------------------------------
(* finish(): runs.remove decides which of its callers goes on. *)

\* Mutant: finish() goes on although another thread removed the run.
Remove_always(r, s, by) ==
  /\ active' = active \ {r}
  /\ finPc' = [finPc EXCEPT ![r] = "removed"]
  /\ finState' = [finState EXCEPT ![r] = s]
  /\ finBy' = [finBy EXCEPT ![r] = by]

\* The run leaves the map; a caller that finds it gone returns.
Remove(r, s, by) ==
  IF r \in active
    THEN /\ active' = active \ {r}
         /\ finPc' = [finPc EXCEPT ![r] = "removed"]
         /\ finState' = [finState EXCEPT ![r] = s]
         /\ finBy' = [finBy EXCEPT ![r] = by]
    ELSE UNCHANGED <<active, finPc, finState, finBy>>

\* The counter is unsubscribed; a delivery under way still reaches it.
CloseCounter(r) ==
  /\ finPc[r] = "removed"
  /\ finPc' = [finPc EXCEPT ![r] = "closed"]
  /\ counters' = counters \ {r}
  /\ UNCHANGED <<startPc, active, list, finBy, finState, finished,
                 threadVars, stopVars, execVars, countVars>>

\* The final status is put where status() looks first.
PutStatus(r) ==
  /\ finPc[r] = "closed"
  /\ finPc' = [finPc EXCEPT ![r] = "put"]
  /\ finished' = [finished EXCEPT ![r] =
                    Summary(finState[r], captured[r], errors[r])]
  /\ UNCHANGED <<startPc, active, counters, list, finBy, finState,
                 threadVars, stopVars, execVars, countVars>>

\* The final summary enters the run list; finish() returns to its caller.
ListFinal(r) ==
  /\ finPc[r] = "put"
  /\ finPc' = [finPc EXCEPT ![r] = "done"]
  /\ list' = [list EXCEPT ![r] =
                Summary(finState[r], captured[r], errors[r])]
  /\ IF finBy[r] = "execute"
       THEN worker' = Nobody /\ plan' = "off"
       ELSE stopPc' = [stopPc EXCEPT ![r] = "done"]
  /\ IF finBy[r] = "execute" THEN UNCHANGED stopPc ELSE UNCHANGED <<worker, plan>>
  /\ UNCHANGED <<startPc, active, counters, finBy, finState, finished, queue,
                 cancelled, halted, threadVars, countVars>>

-----------------------------------------------------------------------------
(* execute(), on the executor thread, and the plan it runs *)

InFlight(r) == \E t \in Sampler : RunOf[t] = r /\ samPc[t] # "idle"

\* The executor takes the next task; a cancelled one is passed over.
TakeTask ==
  /\ worker = Nobody
  /\ queue # <<>>
  /\ queue' = Tail(queue)
  /\ IF Head(queue) \in cancelled
       THEN UNCHANGED <<worker, plan>>
       ELSE worker' = Head(queue) /\ plan' = "starting"
  /\ UNCHANGED <<startPc, active, counters, list,
                 threadVars, stopVars, finVars, countVars>>

\* From here stopEngine() finds the engine of this plan.
EngineStarts ==
  /\ plan = "starting"
  /\ plan' = "running"
  /\ UNCHANGED <<startPc, active, counters, list, queue, worker,
                 threadVars, stopVars, finVars, countVars>>

\* testPlan.run() returns or throws.
PlanEnds ==
  /\ plan \in {"starting", "running", "stopping"}
  /\ ~InFlight(worker) \/ worker \in cancelled
  /\ plan' = "ended"
  /\ UNCHANGED <<startPc, active, counters, list, queue, worker,
                 threadVars, stopVars, finVars, countVars>>

\* execute() calls finish() with the state of the catch clause it is in.
ExecuteFinishes(s) ==
  /\ plan = "ended"
  /\ finBy[worker] # "execute"
  /\ Remove(worker, s, "execute")
  /\ IF worker \in active
       THEN UNCHANGED <<worker, plan>>
       ELSE worker' = Nobody /\ plan' = "off"
  /\ UNCHANGED <<startPc, counters, list, finished, queue,
                 threadVars, stopVars, countVars>>

-----------------------------------------------------------------------------
(* stop() *)

\* The run is looked up; an unknown one answers 404 (no step).
StopFinds(r) ==
  /\ stopPc[r] = "idle"
  /\ r \in Stoppable \cap active
  /\ stopPc' = [stopPc EXCEPT ![r] = "found"]
  /\ UNCHANGED <<startPc, active, counters, list, cancelled, halted,
                 threadVars, finVars, execVars, countVars>>

\* The static stopEngine() stops the engine that runs, if one does.
StopEngine(r) ==
  /\ stopPc[r] = "found"
  /\ stopPc' = [stopPc EXCEPT ![r] = "engine"]
  /\ IF plan = "running"
       THEN plan' = "stopping" /\ halted' = halted \cup {worker}
       ELSE UNCHANGED <<plan, halted>>
  /\ UNCHANGED <<startPc, active, counters, list, cancelled, queue, worker,
                 threadVars, finVars, countVars>>

\* run.task.cancel(true): a queued task never runs, a running one is
\* interrupted.  The call fails while start() has not assigned the task.
CancelTask(r) ==
  /\ stopPc[r] = "engine"
  /\ IF startPc[r] = "returned"
       THEN /\ stopPc' = [stopPc EXCEPT ![r] = "cancelled"]
            /\ cancelled' = cancelled \cup {r}
       ELSE /\ stopPc' = [stopPc EXCEPT ![r] = "failed"]
            /\ UNCHANGED cancelled
  /\ UNCHANGED <<startPc, active, counters, list, halted,
                 threadVars, finVars, execVars, countVars>>

\* Mutant: stop() leaves finishing to execute().
StopFinishes_never(r) ==
  /\ stopPc[r] = "cancelled"
  /\ stopPc' = [stopPc EXCEPT ![r] = "done"]
  /\ UNCHANGED <<startPc, active, counters, list, finVars, cancelled, halted,
                 threadVars, execVars, countVars>>

\* stop() finishes the run, unless execute() was first.
StopFinishes(r) ==
  /\ stopPc[r] = "cancelled"
  /\ Remove(r, "STOPPED", "stop")
  /\ stopPc' = [stopPc EXCEPT ![r] = IF r \in active THEN "finishing" ELSE "done"]
  /\ UNCHANGED <<startPc, counters, list, finished, cancelled, halted,
                 threadVars, execVars, countVars>>

-----------------------------------------------------------------------------
(* A sampler thread: the bus stores the packet, then calls the subscribers *)
(* it finds; the run's counter counts and rewrites the run's summary.      *)

\* A sample is taken and its packet stored: while the engine runs, while it is
\* stopping, and, of a plan that was interrupted, even after it has returned.
Store(t, ok) ==
  /\ samPc[t] = "idle" /\ worker = RunOf[t]
  /\ \/ plan \in {"running", "stopping"}
     \/ plan = "ended" /\ worker \in cancelled
  /\ taken[t] < MaxSamples
  /\ samPc' = [samPc EXCEPT ![t] = "stored"]
  /\ samOk' = [samOk EXCEPT ![t] = ok]
  /\ taken' = [taken EXCEPT ![t] = @ + 1]
  /\ samples' = [samples EXCEPT ![worker] = @ + 1]
  /\ failures' = [failures EXCEPT ![worker] = IF ok THEN @ ELSE @ + 1]
  /\ UNCHANGED <<startPc, active, counters, list, held,
                 stopVars, finVars, execVars, countVars>>

\* The bus iterates over the subscribers of this moment; of their counters
\* only the one of the packet's run counts it.
Deliver(t) ==
  /\ samPc[t] = "stored"
  /\ samPc' = [samPc EXCEPT ![t] = IF RunOf[t] \in counters THEN "count" ELSE "idle"]
  /\ UNCHANGED <<startPc, active, counters, list, samOk, held, sampleVars,
                 stopVars, finVars, execVars, countVars>>

\* Mutant: only successful samples are counted as captured.
CountCaptured_successes(t) ==
  /\ samPc[t] = "count"
  /\ captured' = [captured EXCEPT ![RunOf[t]] = IF samOk[t] THEN @ + 1 ELSE @]
  /\ samPc' = [samPc EXCEPT ![t] = IF samOk[t] THEN "read" ELSE "countError"]
  /\ UNCHANGED <<startPc, active, counters, list, errors, samOk, held, sampleVars,
                 stopVars, finVars, execVars>>

\* Mutant: one counter for all runs.
CountCaptured_shared(t) ==
  /\ samPc[t] = "count"
  /\ captured' = [r \in Run |-> captured[r] + 1]
  /\ samPc' = [samPc EXCEPT ![t] = IF samOk[t] THEN "read" ELSE "countError"]
  /\ UNCHANGED <<startPc, active, counters, list, errors, samOk, held, sampleVars,
                 stopVars, finVars, execVars>>

\* The atomic increment of captured.
CountCaptured(t) ==
  /\ samPc[t] = "count"
  /\ captured' = [captured EXCEPT ![RunOf[t]] = @ + 1]
  /\ samPc' = [samPc EXCEPT ![t] = IF samOk[t] THEN "read" ELSE "countError"]
  /\ UNCHANGED <<startPc, active, counters, list, errors, samOk, held, sampleVars,
                 stopVars, finVars, execVars>>

CountError(t) ==
  /\ samPc[t] = "countError"
  /\ errors' = [errors EXCEPT ![RunOf[t]] = @ + 1]
  /\ samPc' = [samPc EXCEPT ![t] = "read"]
  /\ UNCHANGED <<startPc, active, counters, list, captured, samOk, held, sampleVars,
                 stopVars, finVars, execVars>>

\* toSummary() reads one counter, then the other.
ReadCaptured(t) ==
  /\ samPc[t] = "read"
  /\ held' = [held EXCEPT ![t].captured = captured[RunOf[t]]]
  /\ samPc' = [samPc EXCEPT ![t] = "readErrors"]
  /\ UNCHANGED <<startPc, active, counters, list, samOk, sampleVars,
                 stopVars, finVars, execVars, countVars>>

ReadErrors(t) ==
  /\ samPc[t] = "readErrors"
  /\ held' = [held EXCEPT ![t].errors = errors[RunOf[t]]]
  /\ samPc' = [samPc EXCEPT ![t] = "upsert"]
  /\ UNCHANGED <<startPc, active, counters, list, samOk, sampleVars,
                 stopVars, finVars, execVars, countVars>>

\* upsert(): the last write wins.
ListRunning(t) ==
  /\ samPc[t] = "upsert"
  /\ list' = [list EXCEPT ![RunOf[t]] = held[t]]
  /\ held' = [held EXCEPT ![t] = Summary("RUNNING", 0, 0)]
  /\ samPc' = [samPc EXCEPT ![t] = "idle"]
  /\ samOk' = [samOk EXCEPT ![t] = TRUE]
  /\ UNCHANGED <<startPc, active, counters, sampleVars,
                 stopVars, finVars, execVars, countVars>>

-----------------------------------------------------------------------------
\* DELETE /api/packets empties the run list.
Clear ==
  /\ Clearing
  /\ list' = [r \in Run |-> Nobody]
  /\ UNCHANGED <<startPc, active, counters,
                 threadVars, stopVars, finVars, execVars, countVars>>

Starts(r)   == Submit(r) \/ Return(r)
Finishes(r) == CloseCounter(r) \/ PutStatus(r) \/ ListFinal(r)
Stops(r)    == StopEngine(r) \/ CancelTask(r) \/ StopFinishes(r)
Executes    == \/ TakeTask \/ EngineStarts \/ PlanEnds
               \/ \E s \in EndState \ {"STOPPED"} : ExecuteFinishes(s)
Counter(t)  == \/ Deliver(t) \/ CountCaptured(t) \/ CountError(t)
               \/ ReadCaptured(t) \/ ReadErrors(t) \/ ListRunning(t)

Next ==
  \/ \E r \in Run : \/ Register(r) \/ Starts(r)
                    \/ Finishes(r)
                    \/ StopFinds(r) \/ Stops(r)
  \/ Executes
  \/ \E t \in Sampler : Counter(t) \/ \E ok \in BOOLEAN : Store(t, ok)
  \/ Clear

\* Threads that have begun an operation complete it, the executor takes
\* the tasks it has, and a plan, whose iterations are finite, ends.  Nobody
\* is obliged to start, stop or clear anything, nor to take a sample.
Fairness ==
  /\ \A r \in Run : WF_vars(Starts(r)) /\ WF_vars(Finishes(r)) /\ WF_vars(Stops(r))
  /\ WF_vars(Executes)
  /\ \A t \in Sampler : WF_vars(Counter(t))

Spec == Init /\ [][Next]_vars
FairSpec == Spec /\ Fairness
-----------------------------------------------------------------------------
FinPlace     == {"none", "removed", "closed", "put", "done"}
StopPlace    == {"idle", "found", "engine", "cancelled", "finishing", "failed", "done"}
CounterPlace == {"idle", "stored", "count", "countError", "read", "readErrors", "upsert"}

\* Every variable has its type (the fields of TestRunService and ActiveRun,
\* the run list, and the places the threads can be at).
TypeOK ==
  /\ startPc \in [Run -> {"idle", "registered", "submitted", "returned"}]
  /\ active \subseteq Run /\ counters \subseteq Run
  /\ captured \in [Run -> Nat] /\ errors \in [Run -> Nat]
  /\ list \in [Run -> Final \cup Running \cup {Nobody}]
  /\ finished \in [Run -> Final \cup {Nobody}]
  /\ queue \in Seq(Run)
  /\ worker \in Run \cup {Nobody}
  /\ plan \in {"off", "starting", "running", "stopping", "ended"}
  /\ cancelled \subseteq Run /\ halted \subseteq Run
  /\ finPc \in [Run -> FinPlace]
  /\ finBy \in [Run -> {Nobody, "execute", "stop"}]
  /\ finState \in [Run -> EndState \cup {Nobody}]
  /\ stopPc \in [Run -> StopPlace]
  /\ samPc \in [Sampler -> CounterPlace]
  /\ samOk \in [Sampler -> BOOLEAN]
  /\ held \in [Sampler -> Running]
  /\ taken \in [Sampler -> Nat]
  /\ samples \in [Run -> Nat] /\ failures \in [Run -> Nat]

\* execute() and stop() may both call finish(r): exactly one of them goes
\* through it, it goes through it once, and while it does the other has
\* left.  A run that has not ended is in the map and counted, and only the
\* thread that removed it puts its status.
InFinish(r) == finPc[r] \in {"removed", "closed", "put"}
OneFinisher ==
  \A r \in Run :
    /\ r \in active <=> startPc[r] # "idle" /\ finPc[r] = "none"
    /\ r \in counters <=> r \in active \/ finPc[r] = "removed"
    /\ finished[r] # Nobody <=> finPc[r] \in {"put", "done"}
    /\ stopPc[r] = "finishing" <=> InFinish(r) /\ finBy[r] = "stop"
    /\ InFinish(r) /\ finBy[r] = "execute" => worker = r /\ plan = "ended"

\* A run that nobody asked to stop ends with exactly the samples that were
\* stored for it, in its status and, unless it was cleared, in the run
\* list: the summaries its samplers write concurrently are all older.
FinalCountsExact ==
  \A r \in Run : finPc[r] = "done" /\ stopPc[r] = "idle" =>
    /\ finished[r].captured = samples[r]
    /\ finished[r].errors = failures[r]
    /\ list[r] \in {Nobody, finished[r]}

\* No summary or status ever counts more samples or failures than were
\* stored for that very run, stopped or not.
CountsBackedBySamples ==
  \A r \in Run : \A s \in {list[r], finished[r]} \ {Nobody} :
    s.captured <= samples[r] /\ s.errors <= failures[r]

\* A run that is still in the map is in somebody's hands: start() has yet to
\* queue it, the executor will take its task, execute() has it, or stop() is
\* about to finish it.  A run that everybody has let go of would stay RUNNING,
\* and its counter on the bus, for good: nothing in the code looks for it.
InTheQueue(r) == r \notin cancelled /\ \E i \in DOMAIN queue : queue[i] = r
UnfinishedIsInHand ==
  \A r \in active :
    startPc[r] = "registered" \/ InTheQueue(r) \/ worker = r \/ stopPc[r] = "cancelled"

\* Of all that may finish a run, one is sure to come and no more than one gets
\* through: no run is left RUNNING by everybody, and none is finished twice.
HasOneFinisher == OneFinisher /\ UnfinishedIsInHand

\* Every run that was started ends, queued or running, stopped or not.
EveryRunEnds ==
  \A r \in Run : startPc[r] # "idle" ~> finPc[r] = "done"

\* The life of a run as its status tells it.  Between the removal from the
\* map and the final status neither map has the run (status() answers 404);
\* the run counts as running until the final status is there.
Phase(r) == IF startPc[r] = "idle" THEN "absent"
            ELSE IF finished[r] = Nobody THEN "running" ELSE "ended"

Lifecycle ==
  INSTANCE RunLifecycle WITH
    Result <- Final, NoResult <- Nobody,
    phase <- [r \in Run |-> Phase(r)], result <- finished

IsARunLifecycle == Lifecycle!Spec

\* The API documents POST /api/runs/{id}/stop as stopping that running
\* test: no engine is stopped but the one of a run somebody stopped.
OnlyStoppedRunsAreHalted == \A r \in halted : stopPc[r] # "idle"

=============================================================================
