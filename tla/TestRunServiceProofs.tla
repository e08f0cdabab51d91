------------------------ MODULE TestRunServiceProofs ------------------------
(***************************************************************************)
(* Proofs about test runs, for every number of runs and sampler threads:   *)
(* execute() and stop() never both finish a run, the state and counts a    *)
(* run ends with are final (TestRunService implements RunLifecycle), no    *)
(* summary counts more than was stored, a run that nobody stops ends with  *)
(* the counts of exactly its samples, and no unfinished run is forgotten.  *)
(*                                                                         *)
(* OneFinisher is not inductive alone.  IInv adds that the executor's plan *)
(* is "off" exactly when it executes no run, that a run in finish() has    *)
(* been started, and which states finish() may have been called with.      *)
(* CInv, the invariant of the counts, relates the counters to the samples  *)
(* on their way to them, and says why the last sampler is idle before an   *)
(* unstopped run is finished: it is queued once, and its plan has ended.   *)
(* HInv, which hands every unfinished run from start() to the queue, to    *)
(* the executor or to stop(), adds that a task is cancelled only once      *)
(* start() has returned: a run that is still to be queued is not passed.   *)
(***************************************************************************)
EXTENDS TestRunService, SequenceTheorems, FiniteSetTheorems, TLAPS

\* The executor executes a run exactly while a plan is under way.
WorkerHasPlan == worker = Nobody <=> plan = "off"

\* Who finishes a run has started it, is known, and has a state to write.
FinisherKnown ==
  \A r \in Run :
    /\ finPc[r] # "none" => startPc[r] # "idle" /\ finState[r] \in EndState
    /\ finPc[r] = "none" => finBy[r] = Nobody
    /\ finPc[r] # "none" => finBy[r] \in {"execute", "stop"}

\* The inductive invariant.
IInv == TypeOK /\ OneFinisher /\ WorkerHasPlan /\ FinisherKnown

LEMMA SummaryType ==
  ASSUME NEW c \in Nat, NEW e \in Nat
  PROVE  /\ Summary("RUNNING", c, e) \in Running
         /\ \A s \in EndState : Summary(s, c, e) \in Final
         /\ Nobody # Summary("RUNNING", c, e)
         /\ \A s \in EndState : Nobody # Summary(s, c, e)
<1>1. /\ Summary("RUNNING", c, e) \in Running
      /\ \A s \in EndState : Summary(s, c, e) \in Final
  BY DEF Summary, Running, Final
<1> QED
  BY <1>1, NobodyAssumption

-----------------------------------------------------------------------------
LEMMA InitIInv == Init => IInv
<1> SUFFICES ASSUME Init PROVE IInv
  OBVIOUS
<1>1. TypeOK
  BY SummaryType, EmptySeq, SMT
  DEF Init, TypeOK, FinPlace, StopPlace, CounterPlace
<1>2. OneFinisher
  BY SMT DEF Init, OneFinisher, InFinish
<1>3. WorkerHasPlan /\ FinisherKnown
  BY SMT DEF Init, WorkerHasPlan, FinisherKnown
<1> QED
  BY <1>1, <1>2, <1>3 DEF IInv

\* Every step keeps every variable's type.
LEMMA NextTypeOK == IInv /\ [Next]_vars => TypeOK'
<1> SUFFICES ASSUME IInv, [Next]_vars PROVE TypeOK'
  OBVIOUS
<1> USE DEF IInv
<1>1. ASSUME NEW r \in Run, Register(r) PROVE TypeOK'
  BY <1>1, SummaryType, SMTT(30) DEF Register, TypeOK, FinPlace, StopPlace, CounterPlace, threadVars, stopVars, finVars, execVars, countVars, sampleVars
<1>2. ASSUME NEW r \in Run, Submit(r) PROVE TypeOK'
  BY <1>2, SummaryType, SMTT(30) DEF Submit, TypeOK, FinPlace, StopPlace, CounterPlace, threadVars, stopVars, finVars, execVars, countVars, sampleVars
<1>3. ASSUME NEW r \in Run, Return(r) PROVE TypeOK'
  BY <1>3, SummaryType, SMT DEF Return, TypeOK, FinPlace, StopPlace, CounterPlace, threadVars, stopVars, finVars, execVars, countVars, sampleVars
<1>4. ASSUME NEW r \in Run, CloseCounter(r) PROVE TypeOK'
  BY <1>4, SMTT(60) DEF CloseCounter, TypeOK, FinPlace, threadVars, stopVars, finVars, execVars, countVars, sampleVars
<1>5. ASSUME NEW r \in Run, PutStatus(r) PROVE TypeOK'
  <2>1. finState[r] \in EndState /\ captured[r] \in Nat /\ errors[r] \in Nat
    BY <1>5 DEF PutStatus, TypeOK, FinisherKnown
  <2>2. Summary(finState[r], captured[r], errors[r]) \in Final
    BY <2>1, SummaryType
  <2> QED
    BY <1>5, <2>1, <2>2, SMT DEF PutStatus, TypeOK, FinPlace, StopPlace, CounterPlace, threadVars, stopVars, finVars, execVars, countVars, sampleVars
<1>6. ASSUME NEW r \in Run, ListFinal(r) PROVE TypeOK'
  <2>1. finState[r] \in EndState /\ captured[r] \in Nat /\ errors[r] \in Nat
    BY <1>6 DEF ListFinal, TypeOK, FinisherKnown
  <2>2. Summary(finState[r], captured[r], errors[r]) \in Final
    BY <2>1, SummaryType
  <2>3. CASE finBy[r] = "execute"
    BY <1>6, <2>2, <2>3, SMT DEF ListFinal, TypeOK, FinPlace, threadVars, stopVars, finVars, execVars, countVars, sampleVars
  <2>4. CASE finBy[r] # "execute"
    <3>1. stopPc' \in [Run -> StopPlace]
      BY <1>6, <2>4 DEF ListFinal, TypeOK, StopPlace
    <3> QED
      BY <1>6, <2>2, <2>4, <3>1, SMT DEF ListFinal, TypeOK, FinPlace, threadVars, stopVars, finVars, execVars, countVars, sampleVars
  <2> QED
    BY <2>3, <2>4
<1>7. ASSUME TakeTask PROVE TypeOK'
  BY <1>7, SMTT(60) DEF TakeTask, TypeOK, threadVars, stopVars, finVars, execVars, countVars, sampleVars
<1>8. ASSUME EngineStarts PROVE TypeOK'
  BY <1>8, SummaryType, SMT DEF EngineStarts, TypeOK, FinPlace, StopPlace, CounterPlace, threadVars, stopVars, finVars, execVars, countVars, sampleVars
<1>9. ASSUME PlanEnds PROVE TypeOK'
  BY <1>9, SummaryType, SMTT(30) DEF PlanEnds, TypeOK, FinPlace, StopPlace, CounterPlace, threadVars, stopVars, finVars, execVars, countVars, sampleVars
<1>10. ASSUME NEW s \in EndState \ {"STOPPED"}, ExecuteFinishes(s) PROVE TypeOK'
  <2>1. worker \in Run
    BY <1>10 DEF ExecuteFinishes, WorkerHasPlan, TypeOK
  <2>2. active' \subseteq Run /\ finPc' \in [Run -> FinPlace]
    BY <1>10, <2>1 DEF ExecuteFinishes, Remove, TypeOK, FinPlace
  <2>3. /\ finBy' \in [Run -> {Nobody, "execute", "stop"}]
        /\ finState' \in [Run -> EndState \cup {Nobody}]
    <3>1. CASE worker \in active
      <4>1. /\ finBy' = [finBy EXCEPT ![worker] = "execute"]
            /\ finState' = [finState EXCEPT ![worker] = s]
        BY <1>10, <3>1 DEF ExecuteFinishes, Remove
      <4>2. "execute" \in {Nobody, "execute", "stop"}
        OBVIOUS
      <4>3. s \in EndState \cup {Nobody}
        BY <2>1
      <4> QED
        BY <4>1, <4>2, <4>3, Zenon DEF TypeOK
    <3>2. CASE worker \notin active
      BY <1>10, <3>2, SMT DEF ExecuteFinishes, Remove, TypeOK
    <3> QED
      BY <3>1, <3>2
  <2>4. /\ worker' \in Run \cup {Nobody}
        /\ plan' \in {"off", "starting", "running", "stopping", "ended"}
    BY <1>10, <2>1 DEF ExecuteFinishes, TypeOK
  <2> QED
    BY <1>10, <2>2, <2>3, <2>4, SMT DEF ExecuteFinishes, TypeOK, threadVars, stopVars, finVars, execVars, countVars, sampleVars
<1>11. ASSUME NEW r \in Run, StopFinds(r) PROVE TypeOK'
  BY <1>11, SummaryType, SMT DEF StopFinds, TypeOK, FinPlace, StopPlace, CounterPlace, threadVars, stopVars, finVars, execVars, countVars, sampleVars
<1>12. ASSUME NEW r \in Run, StopEngine(r) PROVE TypeOK'
  <2>1. plan' \in {"off", "starting", "running", "stopping", "ended"}
    BY <1>12 DEF StopEngine, TypeOK
  <2>2. halted' \subseteq Run
    BY <1>12 DEF StopEngine, TypeOK, WorkerHasPlan
  <2>3. stopPc' \in [Run -> StopPlace]
    BY <1>12 DEF StopEngine, TypeOK, StopPlace
  <2> QED
    BY <1>12, <2>1, <2>2, <2>3, SMTT(30) DEF StopEngine, TypeOK, threadVars, stopVars, finVars, execVars, countVars, sampleVars
<1>13. ASSUME NEW r \in Run, CancelTask(r) PROVE TypeOK'
  <2>1. stopPc' \in [Run -> StopPlace]
    <3>1. "cancelled" \in StopPlace /\ "failed" \in StopPlace
      BY DEF StopPlace
    <3>2. CASE startPc[r] = "returned"
      BY <1>13, <3>1, <3>2, Zenon DEF CancelTask, TypeOK
    <3>3. CASE startPc[r] # "returned"
      BY <1>13, <3>1, <3>3, Zenon DEF CancelTask, TypeOK
    <3> QED
      BY <3>2, <3>3
  <2>2. cancelled' \subseteq Run
    BY <1>13 DEF CancelTask, TypeOK
  <2> QED
    BY <1>13, <2>1, <2>2, SMTT(30) DEF CancelTask, TypeOK, threadVars, stopVars, finVars, execVars, countVars, sampleVars
<1>14. ASSUME NEW r \in Run, StopFinishes(r) PROVE TypeOK'
  <2>1. "STOPPED" \in EndState
    BY DEF EndState
  <2>2. active' \subseteq Run /\ finPc' \in [Run -> FinPlace]
    BY <1>14 DEF StopFinishes, Remove, TypeOK, FinPlace
  <2>3. /\ finBy' \in [Run -> {Nobody, "execute", "stop"}]
        /\ finState' \in [Run -> EndState \cup {Nobody}]
    <3>1. CASE r \in active
      <4>1. /\ finBy' = [finBy EXCEPT ![r] = "stop"]
            /\ finState' = [finState EXCEPT ![r] = "STOPPED"]
        BY <1>14, <3>1 DEF StopFinishes, Remove
      <4>2. "stop" \in {Nobody, "execute", "stop"}
        OBVIOUS
      <4>3. "STOPPED" \in EndState \cup {Nobody}
        BY <2>1
      <4> QED
        BY <4>1, <4>2, <4>3, Zenon DEF TypeOK
    <3>2. CASE r \notin active
      BY <1>14, <3>2, SMT DEF StopFinishes, Remove, TypeOK
    <3> QED
      BY <3>1, <3>2
  <2>4. stopPc' \in [Run -> StopPlace]
    BY <1>14 DEF StopFinishes, TypeOK, StopPlace
  <2> QED
    BY <1>14, <2>2, <2>3, <2>4, SMTT(30) DEF StopFinishes, TypeOK, threadVars, stopVars, finVars, execVars, countVars, sampleVars
<1>15. ASSUME NEW t \in Sampler, NEW ok \in BOOLEAN, Store(t, ok) PROVE TypeOK'
  <2>1. /\ taken' \in [Sampler -> Nat]
        /\ samples' \in [Run -> Nat] /\ failures' \in [Run -> Nat]
    <3>1. worker \in Run
      BY <1>15, RunAssumption DEF Store
    <3>. QED
      BY <1>15, <3>1, SMTT(30) DEF Store, TypeOK
  <2>2. samPc' \in [Sampler -> CounterPlace] /\ samOk' \in [Sampler -> BOOLEAN]
    <3>1. "stored" \in CounterPlace
      BY DEF CounterPlace
    <3>. QED
      BY <1>15, <3>1, Zenon DEF Store, TypeOK
  <2> QED
    BY <1>15, <2>1, <2>2, SMTT(60) DEF Store, TypeOK, stopVars, finVars, execVars, countVars
<1>16. ASSUME NEW t \in Sampler, Deliver(t) PROVE TypeOK'
  BY <1>16, SummaryType, SMTT(30) DEF Deliver, TypeOK, FinPlace, StopPlace, CounterPlace, threadVars, stopVars, finVars, execVars, countVars, sampleVars
<1>17. ASSUME NEW t \in Sampler, CountCaptured(t) PROVE TypeOK'
  <2>1. RunOf[t] \in Run
    BY RunAssumption
  <2>2. captured' \in [Run -> Nat]
    BY <1>17, <2>1, SMT DEF CountCaptured, TypeOK
  <2>3. samPc' \in [Sampler -> CounterPlace]
    BY <1>17, SMT DEF CountCaptured, TypeOK, CounterPlace
  <2> QED
    BY <1>17, <2>1, <2>2, <2>3, SMTT(60) DEF CountCaptured, TypeOK, FinPlace, StopPlace, CounterPlace, threadVars, stopVars, finVars, execVars, countVars, sampleVars
<1>18. ASSUME NEW t \in Sampler, CountError(t) PROVE TypeOK'
  <2>1. RunOf[t] \in Run
    BY RunAssumption
  <2>2. errors' \in [Run -> Nat]
    BY <1>18, <2>1, SMT DEF CountError, TypeOK
  <2>3. samPc' \in [Sampler -> CounterPlace]
    BY <1>18, SMT DEF CountError, TypeOK, CounterPlace
  <2> QED
    BY <1>18, <2>1, <2>2, <2>3, SMTT(60) DEF CountError, TypeOK, FinPlace, StopPlace, CounterPlace, threadVars, stopVars, finVars, execVars, countVars, sampleVars
<1>19. ASSUME NEW t \in Sampler, ReadCaptured(t) PROVE TypeOK'
  <2>1. captured[RunOf[t]] \in Nat
    BY RunAssumption DEF TypeOK
  <2>2. held' \in [Sampler -> Running]
    <3>1. [held[t] EXCEPT !.captured = captured[RunOf[t]]] \in Running
      BY <2>1, ZenonT(40) DEF TypeOK, Running
    <3> QED
      BY <1>19, <3>1 DEF ReadCaptured, TypeOK
  <2> QED
    BY <1>19, <2>1, <2>2, SMTT(30) DEF ReadCaptured, TypeOK, FinPlace, StopPlace, CounterPlace, threadVars, stopVars, finVars, execVars, countVars, sampleVars
<1>20. ASSUME NEW t \in Sampler, ReadErrors(t) PROVE TypeOK'
  <2>1. errors[RunOf[t]] \in Nat
    BY RunAssumption DEF TypeOK
  <2>2. held' \in [Sampler -> Running]
    <3>1. [held[t] EXCEPT !.errors = errors[RunOf[t]]] \in Running
      BY <2>1, ZenonT(40) DEF TypeOK, Running
    <3> QED
      BY <1>20, <3>1 DEF ReadErrors, TypeOK
  <2> QED
    BY <1>20, <2>1, <2>2, SMTT(30) DEF ReadErrors, TypeOK, FinPlace, StopPlace, CounterPlace, threadVars, stopVars, finVars, execVars, countVars, sampleVars
<1>21. ASSUME NEW t \in Sampler, ListRunning(t) PROVE TypeOK'
  <2>1. RunOf[t] \in Run /\ held[t] \in Running
    BY RunAssumption DEF TypeOK
  <2>2. Summary("RUNNING", 0, 0) \in Running
    BY SummaryType
  <2>3. list' \in [Run -> Final \cup Running \cup {Nobody}] /\ held' \in [Sampler -> Running]
    BY <1>21, <2>1, <2>2 DEF ListRunning, TypeOK
  <2> QED
    BY <1>21, <2>1, <2>2, <2>3, SMTT(30) DEF ListRunning, TypeOK, FinPlace, StopPlace, CounterPlace, threadVars, stopVars, finVars, execVars, countVars, sampleVars
<1>22. ASSUME Clear PROVE TypeOK'
  BY <1>22, SummaryType, SMTT(30) DEF Clear, TypeOK, FinPlace, StopPlace, CounterPlace, threadVars, stopVars, finVars, execVars, countVars, sampleVars
<1>23. CASE UNCHANGED vars
  BY <1>23 DEF vars, TypeOK, FinPlace, StopPlace, CounterPlace, threadVars, stopVars, finVars, execVars, countVars, sampleVars
<1> QED
  BY <1>1, <1>2, <1>3, <1>4, <1>5, <1>6, <1>7, <1>8, <1>9, <1>10, <1>11, <1>12, <1>13, <1>14, <1>15, <1>16, <1>17, <1>18, <1>19, <1>20, <1>21, <1>22, <1>23
  DEF Next, Starts, Finishes, Stops, Executes, Counter

\* Every step keeps the finishers of each run apart.
LEMMA NextFinishers ==
  IInv /\ [Next]_vars => (OneFinisher /\ WorkerHasPlan /\ FinisherKnown)'
<1> SUFFICES ASSUME IInv, [Next]_vars
             PROVE  (OneFinisher /\ WorkerHasPlan /\ FinisherKnown)'
  OBVIOUS
<1> USE DEF IInv
<1>1. ASSUME NEW r \in Run, Register(r)
      PROVE  (OneFinisher /\ WorkerHasPlan /\ FinisherKnown)'
  BY <1>1, SummaryType, RunAssumption, SMT DEF Register, TypeOK, OneFinisher, InFinish, WorkerHasPlan, FinisherKnown, threadVars, stopVars, finVars, execVars, countVars, sampleVars
<1>2. ASSUME NEW r \in Run, Submit(r)
      PROVE  (OneFinisher /\ WorkerHasPlan /\ FinisherKnown)'
  BY <1>2, SummaryType, RunAssumption, SMT DEF Submit, TypeOK, OneFinisher, InFinish, WorkerHasPlan, FinisherKnown, threadVars, stopVars, finVars, execVars, countVars, sampleVars
<1>3. ASSUME NEW r \in Run, Return(r)
      PROVE  (OneFinisher /\ WorkerHasPlan /\ FinisherKnown)'
  BY <1>3, SummaryType, RunAssumption, SMT DEF Return, TypeOK, OneFinisher, InFinish, WorkerHasPlan, FinisherKnown, threadVars, stopVars, finVars, execVars, countVars, sampleVars
<1>4. ASSUME NEW r \in Run, CloseCounter(r)
      PROVE  (OneFinisher /\ WorkerHasPlan /\ FinisherKnown)'
  BY <1>4, SummaryType, RunAssumption, SMT DEF CloseCounter, TypeOK, OneFinisher, InFinish, WorkerHasPlan, FinisherKnown, threadVars, stopVars, finVars, execVars, countVars, sampleVars
<1>5. ASSUME NEW r \in Run, PutStatus(r)
      PROVE  (OneFinisher /\ WorkerHasPlan /\ FinisherKnown)'
  BY <1>5, SummaryType, RunAssumption, SMTT(30) DEF PutStatus, TypeOK, OneFinisher, InFinish, WorkerHasPlan, FinisherKnown, threadVars, stopVars, finVars, execVars, countVars, sampleVars
<1>6. ASSUME NEW r \in Run, ListFinal(r)
      PROVE  (OneFinisher /\ WorkerHasPlan /\ FinisherKnown)'
  BY <1>6, SummaryType, RunAssumption, SMT DEF ListFinal, TypeOK, OneFinisher, InFinish, WorkerHasPlan, FinisherKnown, threadVars, stopVars, finVars, execVars, countVars, sampleVars
<1>7. ASSUME TakeTask
      PROVE  (OneFinisher /\ WorkerHasPlan /\ FinisherKnown)'
  BY <1>7, SummaryType, RunAssumption, SMT DEF TakeTask, TypeOK, OneFinisher, InFinish, WorkerHasPlan, FinisherKnown, threadVars, stopVars, finVars, execVars, countVars, sampleVars
<1>8. ASSUME EngineStarts
      PROVE  (OneFinisher /\ WorkerHasPlan /\ FinisherKnown)'
  BY <1>8, SummaryType, RunAssumption, SMT DEF EngineStarts, TypeOK, OneFinisher, InFinish, WorkerHasPlan, FinisherKnown, threadVars, stopVars, finVars, execVars, countVars, sampleVars
<1>9. ASSUME PlanEnds
      PROVE  (OneFinisher /\ WorkerHasPlan /\ FinisherKnown)'
  BY <1>9, SummaryType, RunAssumption, SMT DEF PlanEnds, TypeOK, OneFinisher, InFinish, WorkerHasPlan, FinisherKnown, threadVars, stopVars, finVars, execVars, countVars, sampleVars
<1>10. ASSUME NEW s \in EndState \ {"STOPPED"}, ExecuteFinishes(s)
      PROVE  (OneFinisher /\ WorkerHasPlan /\ FinisherKnown)'
  <2>1. CASE worker \in active
    <3>1. /\ worker \in Run /\ finPc[worker] = "none" /\ startPc[worker] # "idle"
          /\ worker \in counters /\ counters' = counters
          /\ active' = active \ {worker}
          /\ finPc' = [finPc EXCEPT ![worker] = "removed"]
          /\ finBy' = [finBy EXCEPT ![worker] = "execute"]
          /\ finState' = [finState EXCEPT ![worker] = s]
          /\ UNCHANGED stopPc
          /\ UNCHANGED <<startPc, finished, worker, plan>>
      BY <1>10, <2>1 DEF ExecuteFinishes, Remove, TypeOK, OneFinisher, WorkerHasPlan, threadVars, stopVars, finVars, execVars, countVars, sampleVars
    <3>2. OneFinisher'
      BY <1>10, <3>1, SMT DEF ExecuteFinishes, TypeOK, OneFinisher, InFinish
    <3>3. WorkerHasPlan' /\ FinisherKnown'
      BY <3>1, SMT DEF EndState, TypeOK, WorkerHasPlan, FinisherKnown
    <3> QED
      BY <3>2, <3>3
  <2>2. CASE worker \notin active
    BY <1>10, <2>2, RunAssumption, SMT
    DEF ExecuteFinishes, Remove, TypeOK, OneFinisher, InFinish,
        WorkerHasPlan, FinisherKnown, threadVars, stopVars, finVars, execVars, countVars, sampleVars
  <2> QED
    BY <2>1, <2>2
<1>11. ASSUME NEW r \in Run, StopFinds(r)
      PROVE  (OneFinisher /\ WorkerHasPlan /\ FinisherKnown)'
  BY <1>11, SummaryType, RunAssumption, SMT DEF StopFinds, TypeOK, OneFinisher, InFinish, WorkerHasPlan, FinisherKnown, threadVars, stopVars, finVars, execVars, countVars, sampleVars
<1>12. ASSUME NEW r \in Run, StopEngine(r)
      PROVE  (OneFinisher /\ WorkerHasPlan /\ FinisherKnown)'
  BY <1>12, SummaryType, RunAssumption, SMT DEF StopEngine, TypeOK, OneFinisher, InFinish, WorkerHasPlan, FinisherKnown, threadVars, stopVars, finVars, execVars, countVars, sampleVars
<1>13. ASSUME NEW r \in Run, CancelTask(r)
      PROVE  (OneFinisher /\ WorkerHasPlan /\ FinisherKnown)'
  BY <1>13, SummaryType, RunAssumption, SMT DEF CancelTask, TypeOK, OneFinisher, InFinish, WorkerHasPlan, FinisherKnown, threadVars, stopVars, finVars, execVars, countVars, sampleVars
<1>14. ASSUME NEW r \in Run, StopFinishes(r)
      PROVE  (OneFinisher /\ WorkerHasPlan /\ FinisherKnown)'
  <2>1. CASE r \in active
    <3>1. /\ r \in Run /\ finPc[r] = "none" /\ startPc[r] # "idle"
          /\ r \in counters /\ counters' = counters
          /\ active' = active \ {r}
          /\ finPc' = [finPc EXCEPT ![r] = "removed"]
          /\ finBy' = [finBy EXCEPT ![r] = "stop"]
          /\ finState' = [finState EXCEPT ![r] = "STOPPED"]
          /\ stopPc' = [stopPc EXCEPT ![r] = "finishing"]
          /\ UNCHANGED <<startPc, finished, worker, plan>>
      BY <1>14, <2>1 DEF StopFinishes, Remove, TypeOK, OneFinisher, WorkerHasPlan, threadVars, stopVars, finVars, execVars, countVars, sampleVars
    <3>2. OneFinisher'
      BY <1>14, <3>1, SMT DEF StopFinishes, TypeOK, OneFinisher, InFinish
    <3>3. WorkerHasPlan' /\ FinisherKnown'
      BY <3>1, SMT DEF EndState, TypeOK, WorkerHasPlan, FinisherKnown
    <3> QED
      BY <3>2, <3>3
  <2>2. CASE r \notin active
    BY <1>14, <2>2, RunAssumption, SMT
    DEF StopFinishes, Remove, TypeOK, OneFinisher, InFinish,
        WorkerHasPlan, FinisherKnown, threadVars, stopVars, finVars, execVars, countVars, sampleVars
  <2> QED
    BY <2>1, <2>2
<1>15. ASSUME NEW t \in Sampler, NEW ok \in BOOLEAN, Store(t, ok)
      PROVE  (OneFinisher /\ WorkerHasPlan /\ FinisherKnown)'
  BY <1>15, SummaryType, RunAssumption, SMT DEF Store, TypeOK, OneFinisher, InFinish, WorkerHasPlan, FinisherKnown, threadVars, stopVars, finVars, execVars, countVars, sampleVars
<1>16. ASSUME NEW t \in Sampler, Deliver(t)
      PROVE  (OneFinisher /\ WorkerHasPlan /\ FinisherKnown)'
  BY <1>16, SummaryType, RunAssumption, SMT DEF Deliver, TypeOK, OneFinisher, InFinish, WorkerHasPlan, FinisherKnown, threadVars, stopVars, finVars, execVars, countVars, sampleVars
<1>17. ASSUME NEW t \in Sampler, CountCaptured(t)
      PROVE  (OneFinisher /\ WorkerHasPlan /\ FinisherKnown)'
  BY <1>17, SummaryType, RunAssumption, SMT DEF CountCaptured, TypeOK, OneFinisher, InFinish, WorkerHasPlan, FinisherKnown, threadVars, stopVars, finVars, execVars, countVars, sampleVars
<1>18. ASSUME NEW t \in Sampler, CountError(t)
      PROVE  (OneFinisher /\ WorkerHasPlan /\ FinisherKnown)'
  BY <1>18, SummaryType, RunAssumption, SMT DEF CountError, TypeOK, OneFinisher, InFinish, WorkerHasPlan, FinisherKnown, threadVars, stopVars, finVars, execVars, countVars, sampleVars
<1>19. ASSUME NEW t \in Sampler, ReadCaptured(t)
      PROVE  (OneFinisher /\ WorkerHasPlan /\ FinisherKnown)'
  BY <1>19, SummaryType, RunAssumption, SMT DEF ReadCaptured, TypeOK, OneFinisher, InFinish, WorkerHasPlan, FinisherKnown, threadVars, stopVars, finVars, execVars, countVars, sampleVars
<1>20. ASSUME NEW t \in Sampler, ReadErrors(t)
      PROVE  (OneFinisher /\ WorkerHasPlan /\ FinisherKnown)'
  BY <1>20, SummaryType, RunAssumption, SMT DEF ReadErrors, TypeOK, OneFinisher, InFinish, WorkerHasPlan, FinisherKnown, threadVars, stopVars, finVars, execVars, countVars, sampleVars
<1>21. ASSUME NEW t \in Sampler, ListRunning(t)
      PROVE  (OneFinisher /\ WorkerHasPlan /\ FinisherKnown)'
  BY <1>21, SummaryType, RunAssumption, SMT DEF ListRunning, TypeOK, OneFinisher, InFinish, WorkerHasPlan, FinisherKnown, threadVars, stopVars, finVars, execVars, countVars, sampleVars
<1>22. ASSUME Clear
      PROVE  (OneFinisher /\ WorkerHasPlan /\ FinisherKnown)'
  BY <1>22, SummaryType, RunAssumption, SMT DEF Clear, TypeOK, OneFinisher, InFinish, WorkerHasPlan, FinisherKnown, threadVars, stopVars, finVars, execVars, countVars, sampleVars
<1>23. CASE UNCHANGED vars
  BY <1>23 DEF vars, OneFinisher, InFinish, WorkerHasPlan, FinisherKnown, threadVars, stopVars, finVars, execVars, countVars, sampleVars
<1> QED
  BY <1>1, <1>2, <1>3, <1>4, <1>5, <1>6, <1>7, <1>8, <1>9, <1>10, <1>11, <1>12, <1>13, <1>14, <1>15, <1>16, <1>17, <1>18, <1>19, <1>20, <1>21, <1>22, <1>23
  DEF Next, Starts, Finishes, Stops, Executes, Counter

-----------------------------------------------------------------------------
\* The strengthened invariant holds of every behaviour.
THEOREM RunInvariant == Spec => []IInv
<1>1. IInv /\ [Next]_vars => IInv'
  BY NextTypeOK, NextFinishers DEF IInv
<1> QED
  BY InitIInv, <1>1, PTL DEF Spec

\* Every variable of the run service keeps its type.
THEOREM TypeCorrect == Spec => []TypeOK
<1>1. IInv => TypeOK
  BY DEF IInv
<1> QED
  BY <1>1, RunInvariant, PTL

\* execute() and stop() never finish a run both, however they interleave.
THEOREM FinishedByOne == Spec => []OneFinisher
<1>1. IInv => OneFinisher
  BY DEF IInv
<1> QED
  BY <1>1, RunInvariant, PTL

-----------------------------------------------------------------------------
\* Steps that neither start a run nor put a status are invisible.
LEMMA Invisible ==
  ASSUME finished' = finished,
         \A r \in Run : startPc'[r] = "idle" <=> startPc[r] = "idle"
  PROVE  UNCHANGED Lifecycle!vars
<1>1. \A r \in Run : Phase(r)' = Phase(r)
  BY DEF Phase
<1>2. [r \in Run |-> Phase(r)]' = [r \in Run |-> Phase(r)]
  BY <1>1
<1> QED
  BY <1>2 DEF Lifecycle!vars

LEMMA LifecycleInit == Init => Lifecycle!Init
<1> SUFFICES ASSUME Init PROVE Lifecycle!Init
  OBVIOUS
<1>1. [r \in Run |-> Phase(r)] = [r \in Run |-> "absent"]
  BY DEF Init, Phase
<1> QED
  BY <1>1 DEF Init, Lifecycle!Init

\* Register starts a run, PutStatus ends one, every other step is invisible.
LEMMA LifecycleStep == IInv /\ [Next]_vars => [Lifecycle!Next]_(Lifecycle!vars)
<1> SUFFICES ASSUME IInv, [Next]_vars
             PROVE  [Lifecycle!Next]_(Lifecycle!vars)
  OBVIOUS
<1> DEFINE phase == [r \in Run |-> Phase(r)]
<1>1. ASSUME NEW r \in Run, Register(r) PROVE Lifecycle!Next
  <2>1. startPc[r] = "idle" /\ startPc' = [startPc EXCEPT ![r] = "registered"]
        /\ finished' = finished
    BY <1>1 DEF Register, finVars
  <2>2. finished[r] = Nobody
    BY <2>1, SMT DEF IInv, OneFinisher, FinisherKnown
  <2>3. \A q \in Run : Phase(q)' = IF q = r THEN "running" ELSE Phase(q)
    BY <2>1, <2>2, SMT DEF IInv, TypeOK, Phase
  <2>4. phase[r] = "absent" /\ phase' = [phase EXCEPT ![r] = "running"]
    <3>1. Phase(r) = "absent"
      BY <2>1 DEF Phase
    <3>2. phase' = [q \in Run |-> IF q = r THEN "running" ELSE Phase(q)]
      BY <2>3
    <3> QED
      BY <3>1, <3>2
  <2>5. Lifecycle!Start(r)
    BY <2>1, <2>4 DEF Lifecycle!Start
  <2> QED
    BY <2>5 DEF Lifecycle!Next
<1>2. ASSUME NEW r \in Run, PutStatus(r) PROVE Lifecycle!Next
  <2>1. /\ finPc[r] = "closed" /\ startPc' = startPc
        /\ finished' = [finished EXCEPT ![r] =
                          Summary(finState[r], captured[r], errors[r])]
    BY <1>2 DEF PutStatus
  <2>2. /\ finState[r] \in EndState /\ startPc[r] # "idle"
        /\ finished[r] = Nobody /\ finished \in [Run -> Final \cup {Nobody}]
    <3>1. finPc[r] # "none" /\ finPc[r] \notin {"put", "done"}
      BY <2>1
    <3> QED
      BY <3>1, Zenon DEF IInv, OneFinisher, FinisherKnown, TypeOK
  <2>3. /\ Summary(finState[r], captured[r], errors[r]) \in Final
        /\ Summary(finState[r], captured[r], errors[r]) # Nobody
    BY <2>2, SummaryType DEF IInv, TypeOK
  <2>4. finished'[r] \in Final /\ finished'[r] # Nobody
    BY <2>1, <2>2, <2>3
  <2>5. \A q \in Run : Phase(q)' = IF q = r THEN "ended" ELSE Phase(q)
    BY <2>1, <2>2, <2>4, SMT DEF Phase
  <2>6. phase[r] = "running" /\ phase' = [phase EXCEPT ![r] = "ended"]
    <3>1. Phase(r) = "running"
      BY <2>2 DEF Phase
    <3>2. phase' = [q \in Run |-> IF q = r THEN "ended" ELSE Phase(q)]
      BY <2>5
    <3> QED
      BY <3>1, <3>2
  <2>7. finished' = [finished EXCEPT ![r] = finished'[r]]
    BY <2>1, <2>2
  <2>8. Lifecycle!End(r)
    BY <2>4, <2>6, <2>7 DEF Lifecycle!End
  <2> QED
    BY <2>8 DEF Lifecycle!Next
<1>3. ASSUME NEW r \in Run,
             Submit(r) \/ Return(r) \/ CloseCounter(r) \/ ListFinal(r)
               \/ StopFinds(r) \/ Stops(r)
      PROVE  UNCHANGED Lifecycle!vars
  <2>1. finished' = finished
    BY <1>3 DEF Submit, Return, CloseCounter, ListFinal, StopFinds, Stops,
                StopEngine, CancelTask, StopFinishes, finVars
  <2>2. \A q \in Run : startPc'[q] = "idle" <=> startPc[q] = "idle"
    BY <1>3, SMT DEF Submit, Return, CloseCounter, ListFinal, StopFinds, Stops,
                StopEngine, CancelTask, StopFinishes, IInv, TypeOK
  <2> QED
    BY <2>1, <2>2, Invisible
<1>4. ASSUME Executes \/ Clear \/ UNCHANGED vars PROVE UNCHANGED Lifecycle!vars
  <2>1. finished' = finished /\ startPc' = startPc
    BY <1>4 DEF Executes, TakeTask, EngineStarts, PlanEnds, ExecuteFinishes,
                Clear, vars, finVars
  <2> QED
    BY <2>1, Invisible
<1>5. ASSUME NEW t \in Sampler, Counter(t) \/ \E ok \in BOOLEAN : Store(t, ok)
      PROVE  UNCHANGED Lifecycle!vars
  <2>1. finished' = finished /\ startPc' = startPc
    BY <1>5 DEF Counter, Store, Deliver, CountCaptured, CountError, ReadCaptured,
                ReadErrors, ListRunning, finVars
  <2> QED
    BY <2>1, Invisible
<1> QED
  BY <1>1, <1>2, <1>3, <1>4, <1>5 DEF Next, Starts, Finishes

\* A run started on the server is running until it ends, ends once, and its
\* final state and counts are never revised.
THEOREM ImplementsLifecycle == Spec => IsARunLifecycle
  BY LifecycleInit, LifecycleStep, RunInvariant, PTL
  DEF Spec, IsARunLifecycle, Lifecycle!Spec

-----------------------------------------------------------------------------
(* What the counts are worth. *)

\* The sampler threads of run r whose sample is stored but not yet counted,
\* and those whose failed sample is not yet counted as one.
Uncounted(r) == {t \in Sampler : RunOf[t] = r /\ samPc[t] \in {"stored", "count"}}
UncountedErrors(r) ==
  {t \in Sampler : RunOf[t] = r /\ ~samOk[t] /\ samPc[t] \in {"stored", "count", "countError"}}

\* The samples of run r, and the failures among them, that its counter missed.
Missed(r)       == samples[r] - captured[r] - Cardinality(Uncounted(r))
MissedErrors(r) == failures[r] - errors[r] - Cardinality(UncountedErrors(r))

\* Summary s counts no more than the counters of run r do.
Within(s, r) == s # Nobody => s.captured <= captured[r] /\ s.errors <= errors[r]

\* No counter, and no copy of one, is ahead of what was stored.
CountsBounded ==
  /\ \A r \in Run : /\ Missed(r) >= 0 /\ MissedErrors(r) >= 0
                    /\ Within(list[r], r) /\ Within(finished[r], r)
  /\ \A t \in Sampler : Within(held[t], RunOf[t])

\* A run is queued once, before it is executed, and only a stop finishes it
\* before its plan has ended.
Unfinished(r) == finPc[r] = "none" \/ stopPc[r] # "idle"
Known(r) == startPc[r] \notin {"idle", "registered"}
Queued(r) == \E i \in DOMAIN queue : queue[i] = r
QueuedOnce ==
  /\ \A i, j \in DOMAIN queue : queue[i] = queue[j] => i = j
  /\ \A r \in Run :
       /\ Queued(r) => Known(r) /\ r # worker /\ Unfinished(r)
       /\ worker = r => Known(r) /\ (plan # "ended" => Unfinished(r))
       /\ Known(r) \/ Unfinished(r)

\* A plan that nobody cancelled ends, and its run is finished, after its
\* sampler threads are idle.
Drained ==
  /\ cancelled \subseteq {r \in Run : stopPc[r] # "idle"}
  /\ \A t \in Sampler : samPc[t] # "idle" => startPc[RunOf[t]] # "idle"
  /\ \A r \in Run :
       stopPc[r] = "idle" /\ ((worker = r /\ plan = "ended") \/ finPc[r] # "none") => ~InFlight(r)

\* The counter of a run that nobody stops misses nothing, and the final
\* status and summary hold its counts.
Exact ==
  \A r \in Run : stopPc[r] = "idle" =>
    /\ Missed(r) = 0 /\ MissedErrors(r) = 0
    /\ finPc[r] \in {"put", "done"} =>
         finished[r] = Summary(finState[r], captured[r], errors[r])
    /\ finPc[r] = "done" => list[r] \in {Nobody, finished[r]}

\* Only a failed sample is counted as an error.
FailedOnly == \A t \in Sampler : samPc[t] = "countError" => ~samOk[t]

\* The invariant of the counts, which holds together with IInv.
CInv == FailedOnly /\ CountsBounded /\ QueuedOnce /\ Drained /\ Exact

LEMMA UncountedFinite ==
  ASSUME NEW r
  PROVE  /\ IsFiniteSet(Uncounted(r)) /\ Cardinality(Uncounted(r)) \in Nat
         /\ IsFiniteSet(UncountedErrors(r)) /\ Cardinality(UncountedErrors(r)) \in Nat
<1>1. IsFiniteSet(Uncounted(r)) /\ IsFiniteSet(UncountedErrors(r))
  BY RunAssumption, FS_Subset DEF Uncounted, UncountedErrors
<1>. QED
  BY <1>1, FS_CardinalityType

\* A step moves nothing, stores a sample, or counts one; only a delivery that
\* finds the run's counter unsubscribed makes the counter miss a sample.
LEMMA MissedStep ==
  ASSUME IInv, FailedOnly, [Next]_vars, NEW r \in Run
  PROVE  /\ Missed(r) \in Int /\ MissedErrors(r) \in Int
         /\ Missed(r)' \in Int /\ MissedErrors(r)' \in Int
         /\ Missed(r)' >= Missed(r) /\ MissedErrors(r)' >= MissedErrors(r)
         /\ captured'[r] >= captured[r] /\ errors'[r] >= errors[r]
         /\ r \in counters \/ ~InFlight(r) =>
              Missed(r)' = Missed(r) /\ MissedErrors(r)' = MissedErrors(r)
<1>. DEFINE U == Uncounted(r)
            E == UncountedErrors(r)
            Kept == /\ captured'[r] >= captured[r] /\ errors'[r] >= errors[r]
                    /\ Missed(r)' = Missed(r) /\ MissedErrors(r)' = MissedErrors(r)
            Lost == /\ captured'[r] = captured[r] /\ errors'[r] = errors[r]
                    /\ Missed(r)' >= Missed(r) /\ MissedErrors(r)' >= MissedErrors(r)
                    /\ r \notin counters /\ InFlight(r)
<1>1. /\ samples[r] \in Nat /\ failures[r] \in Nat /\ captured[r] \in Nat /\ errors[r] \in Nat
      /\ samPc \in [Sampler -> CounterPlace] /\ samOk \in [Sampler -> BOOLEAN]
  BY DEF IInv, TypeOK
<1>2. samples'[r] \in Nat /\ failures'[r] \in Nat /\ captured'[r] \in Nat /\ errors'[r] \in Nat
  BY NextTypeOK DEF TypeOK
<1>3. IsFiniteSet(U) /\ Cardinality(U) \in Nat /\ IsFiniteSet(E) /\ Cardinality(E) \in Nat
  BY UncountedFinite
<1>4. \A t \in Sampler :
        /\ t \notin U => Cardinality(U \cup {t}) = Cardinality(U) + 1
        /\ t \in U => Cardinality(U \ {t}) = Cardinality(U) - 1
        /\ t \notin E => Cardinality(E \cup {t}) = Cardinality(E) + 1
        /\ t \in E => Cardinality(E \ {t}) = Cardinality(E) - 1
  BY <1>3, FS_AddElement, FS_RemoveElement
<1>5. ASSUME UNCHANGED <<samples, failures, captured, errors>>, U' = U, E' = E
      PROVE  Kept
  BY <1>1, <1>5 DEF Missed, MissedErrors
<1>6. ASSUME NEW t \in Sampler, NEW ok \in BOOLEAN, Store(t, ok) PROVE Kept
  <2>1. /\ samPc[t] = "idle" /\ samPc' = [samPc EXCEPT ![t] = "stored"]
        /\ samOk' = [samOk EXCEPT ![t] = ok] /\ UNCHANGED <<captured, errors>>
        /\ samples'[r] = IF RunOf[t] = r THEN samples[r] + 1 ELSE samples[r]
        /\ failures'[r] = IF RunOf[t] = r /\ ~ok THEN failures[r] + 1 ELSE failures[r]
    BY <1>6 DEF Store, IInv, TypeOK, countVars
  <2>2. CASE RunOf[t] # r
    <3>1. U' = U /\ E' = E
      BY <1>1, <2>1, <2>2 DEF Uncounted, UncountedErrors
    <3>. QED
      BY <1>1, <2>1, <2>2, <3>1 DEF Missed, MissedErrors
  <2>3. CASE RunOf[t] = r
    <3>1. U' = U \cup {t} /\ t \notin U /\ t \notin E
      BY <1>1, <2>1, <2>3 DEF Uncounted, UncountedErrors
    <3>2. E' = IF ok THEN E ELSE E \cup {t}
      BY <1>1, <2>1, <2>3 DEF UncountedErrors
    <3>3. /\ Cardinality(U') = Cardinality(U) + 1
          /\ Cardinality(E') = IF ok THEN Cardinality(E) ELSE Cardinality(E) + 1
      BY <1>4, <3>1, <3>2
    <3>. QED
      BY <1>1, <1>3, <2>1, <2>3, <3>3 DEF Missed, MissedErrors
  <2>. QED
    BY <2>2, <2>3
<1>7. ASSUME NEW t \in Sampler, Deliver(t) PROVE Kept \/ Lost
  <2>1. /\ samPc[t] = "stored" /\ UNCHANGED <<captured, errors, samples, failures, samOk>>
        /\ samPc' = [samPc EXCEPT ![t] = IF RunOf[t] \in counters THEN "count" ELSE "idle"]
    BY <1>7 DEF Deliver, countVars, sampleVars
  <2>2. CASE RunOf[t] # r \/ r \in counters
    <3>1. U' = U /\ E' = E
      BY <1>1, <2>1, <2>2 DEF Uncounted, UncountedErrors
    <3>. QED
      BY <1>5, <2>1, <3>1
  <2>3. CASE RunOf[t] = r /\ r \notin counters
    <3>1. U' = U \ {t} /\ t \in U
      BY <1>1, <2>1, <2>3 DEF Uncounted
    <3>2. E' = E \ {t}
      BY <1>1, <2>1, <2>3 DEF UncountedErrors
    <3>3. /\ Cardinality(U') = Cardinality(U) - 1
          /\ Cardinality(E') = IF t \in E THEN Cardinality(E) - 1 ELSE Cardinality(E)
      <4>1. t \notin E => E \ {t} = E
        OBVIOUS
      <4>. QED
        BY <1>4, <3>1, <3>2, <4>1
    <3>4. InFlight(r)
      BY <2>1, <2>3 DEF InFlight
    <3>. QED
      BY <1>1, <1>3, <2>1, <2>3, <3>3, <3>4 DEF Missed, MissedErrors
  <2>. QED
    BY <2>2, <2>3
<1>8. ASSUME NEW t \in Sampler, CountCaptured(t) PROVE Kept
  <2>1. /\ samPc[t] = "count" /\ UNCHANGED <<errors, samples, failures, samOk>>
        /\ samPc' = [samPc EXCEPT ![t] = IF samOk[t] THEN "read" ELSE "countError"]
        /\ captured'[r] = IF RunOf[t] = r THEN captured[r] + 1 ELSE captured[r]
    BY <1>8 DEF CountCaptured, sampleVars, IInv, TypeOK
  <2>2. E' = E
    BY <1>1, <2>1 DEF UncountedErrors
  <2>3. CASE RunOf[t] # r
    <3>1. U' = U
      BY <1>1, <2>1, <2>3 DEF Uncounted
    <3>. QED
      BY <1>1, <2>1, <2>2, <2>3, <3>1 DEF Missed, MissedErrors
  <2>4. CASE RunOf[t] = r
    <3>1. U' = U \ {t} /\ t \in U
      BY <1>1, <2>1, <2>4 DEF Uncounted
    <3>2. Cardinality(U') = Cardinality(U) - 1
      BY <1>4, <3>1
    <3>. QED
      BY <1>1, <1>3, <2>1, <2>2, <2>4, <3>2 DEF Missed, MissedErrors
  <2>. QED
    BY <2>3, <2>4
<1>9. ASSUME NEW t \in Sampler, CountError(t) PROVE Kept
  <2>1. /\ samPc[t] = "countError" /\ UNCHANGED <<captured, samples, failures, samOk>>
        /\ samPc' = [samPc EXCEPT ![t] = "read"]
        /\ errors'[r] = IF RunOf[t] = r THEN errors[r] + 1 ELSE errors[r]
    BY <1>9 DEF CountError, sampleVars, IInv, TypeOK
  <2>2. U' = U
    BY <1>1, <2>1 DEF Uncounted
  <2>3. CASE RunOf[t] # r
    <3>1. E' = E
      BY <1>1, <2>1, <2>3 DEF UncountedErrors
    <3>. QED
      BY <1>1, <2>1, <2>2, <2>3, <3>1 DEF Missed, MissedErrors
  <2>4. CASE RunOf[t] = r
    <3>1. E' = E \ {t} /\ t \in E
      BY <1>1, <2>1, <2>4 DEF UncountedErrors, FailedOnly
    <3>2. Cardinality(E') = Cardinality(E) - 1
      BY <1>4, <3>1
    <3>. QED
      BY <1>1, <1>3, <2>1, <2>2, <2>4, <3>2 DEF Missed, MissedErrors
  <2>. QED
    BY <2>3, <2>4
<1>10. ASSUME NEW t \in Sampler, ReadCaptured(t) \/ ReadErrors(t) \/ ListRunning(t) PROVE Kept
  <2>1. /\ samPc[t] \in {"read", "readErrors", "upsert"}
        /\ UNCHANGED <<captured, errors, samples, failures>>
        /\ \E p \in {"readErrors", "upsert", "idle"} : samPc' = [samPc EXCEPT ![t] = p]
        /\ \A u \in Sampler : u # t => samOk'[u] = samOk[u]
    BY <1>10 DEF ReadCaptured, ReadErrors, ListRunning, countVars, sampleVars, IInv, TypeOK
  <2>2. U' = U /\ E' = E
    BY <1>1, <2>1 DEF Uncounted, UncountedErrors
  <2>. QED
    BY <1>5, <2>1, <2>2
<1>11. ASSUME \/ \E q \in Run : \/ Register(q) \/ Starts(q) \/ Finishes(q) \/ StopFinds(q) \/ Stops(q)
              \/ Executes \/ Clear \/ UNCHANGED vars
       PROVE  Kept
  <2>1. UNCHANGED <<samPc, samOk, captured, errors, samples, failures>>
    BY <1>11 DEF Register, Starts, Submit, Return, Finishes, CloseCounter, PutStatus, ListFinal,
       StopFinds, Stops, StopEngine, CancelTask, StopFinishes, Executes, TakeTask, EngineStarts,
       PlanEnds, ExecuteFinishes, Clear, vars, threadVars, sampleVars, countVars
  <2>2. U' = U /\ E' = E
    BY <2>1 DEF Uncounted, UncountedErrors
  <2>. QED
    BY <1>5, <2>1, <2>2
<1>12. Kept \/ Lost
  <2>1. CASE \E q \in Sampler : Counter(q) \/ \E ok \in BOOLEAN : Store(q, ok)
    BY <1>6, <1>7, <1>8, <1>9, <1>10, <2>1 DEF Counter
  <2>2. CASE ~\E q \in Sampler : Counter(q) \/ \E ok \in BOOLEAN : Store(q, ok)
    BY <1>11, <2>2 DEF Next
  <2>. QED
    BY <2>1, <2>2
<1>13. /\ Missed(r) \in Int /\ MissedErrors(r) \in Int
       /\ Missed(r)' \in Int /\ MissedErrors(r)' \in Int
  <2>1. IsFiniteSet(U') /\ IsFiniteSet(E')
    BY RunAssumption, FS_Subset DEF Uncounted, UncountedErrors
  <2>2. Cardinality(U') \in Nat /\ Cardinality(E') \in Nat
    BY <2>1, FS_CardinalityType
  <2>. QED
    BY <1>1, <1>2, <1>3, <2>2 DEF Missed, MissedErrors
<1>. HIDE DEF U, E
<1>. QED
  BY <1>12, <1>13, <1>1, <1>2

LEMMA NextFailedOnly == IInv /\ FailedOnly /\ [Next]_vars => FailedOnly'
<1>. SUFFICES ASSUME IInv, FailedOnly, [Next]_vars PROVE FailedOnly'
  OBVIOUS
<1>1. ASSUME NEW t \in Sampler, Counter(t) \/ \E ok \in BOOLEAN : Store(t, ok) PROVE FailedOnly'
  <2>1. /\ \A u \in Sampler : u # t => samPc'[u] = samPc[u] /\ samOk'[u] = samOk[u]
        /\ samPc'[t] = "countError" => ~samOk[t] /\ samOk' = samOk
    BY <1>1, SMTT(30) DEF Counter, Store, Deliver, CountCaptured, CountError, ReadCaptured, ReadErrors, ListRunning,
       IInv, TypeOK
  <2>. QED
    BY <2>1 DEF FailedOnly
<1>2. CASE ~\E t \in Sampler : Counter(t) \/ \E ok \in BOOLEAN : Store(t, ok)
  <2>1. UNCHANGED <<samPc, samOk>>
    BY <1>2 DEF Next, Register, Starts, Submit, Return, Finishes, CloseCounter, PutStatus, ListFinal,
       StopFinds, Stops, StopEngine, CancelTask, StopFinishes, Executes, TakeTask, EngineStarts,
       PlanEnds, ExecuteFinishes, Clear, vars, threadVars
  <2>. QED
    BY <2>1 DEF FailedOnly
<1>. QED
  BY <1>1, <1>2

\* What finish() and the sampler threads write are copies of the counters.
LEMMA NextCountsBounded ==
  IInv /\ FailedOnly /\ CountsBounded /\ [Next]_vars => CountsBounded'
<1>. SUFFICES ASSUME IInv, FailedOnly, CountsBounded, [Next]_vars PROVE CountsBounded'
  OBVIOUS
<1>1. /\ captured \in [Run -> Nat] /\ errors \in [Run -> Nat]
      /\ \A s \in Final \cup Running : s.captured \in Nat /\ s.errors \in Nat
      /\ list \in [Run -> Final \cup Running \cup {Nobody}]
      /\ finished \in [Run -> Final \cup {Nobody}] /\ held \in [Sampler -> Running]
      /\ RunOf \in [Sampler -> Run]
  BY RunAssumption DEF IInv, TypeOK, Final, Running
<1>2. captured' \in [Run -> Nat] /\ errors' \in [Run -> Nat]
  BY NextTypeOK DEF TypeOK
<1>3. \A r \in Run : /\ Missed(r)' >= 0 /\ MissedErrors(r)' >= 0
                    /\ captured'[r] >= captured[r] /\ errors'[r] >= errors[r]
  BY MissedStep DEF CountsBounded
\* A copy that was within the counters still is, as is a fresh copy of them.
<1>. DEFINE W(s, r) == s # Nobody => s.captured <= captured'[r] /\ s.errors <= errors'[r]
<1>4. ASSUME NEW r \in Run PROVE W(list[r], r) /\ W(finished[r], r)
  BY <1>1, <1>2, <1>3 DEF CountsBounded, Within
<1>5. ASSUME NEW t \in Sampler PROVE W(held[t], RunOf[t])
  BY <1>1, <1>2, <1>3 DEF CountsBounded, Within
<1>6. ASSUME NEW r \in Run, NEW s
      PROVE  W(Summary(s, captured[r], errors[r]), r) /\ W(Summary(s, 0, 0), r)
  BY <1>1, <1>2, <1>3 DEF Summary
<1>7. SUFFICES /\ \A r \in Run : W(list'[r], r) /\ W(finished'[r], r)
               /\ \A t \in Sampler : W(held'[t], RunOf[t])
  BY <1>3 DEF CountsBounded, Within
<1>. HIDE DEF W
<1>8. ASSUME NEW t \in Sampler, ReadCaptured(t) \/ ReadErrors(t)
      PROVE  /\ \A r \in Run : W(list'[r], r) /\ W(finished'[r], r)
             /\ \A u \in Sampler : W(held'[u], RunOf[u])
  <2>1. /\ UNCHANGED <<list, finished>> /\ \A u \in Sampler : u # t => held'[u] = held[u]
        /\ \/ held'[t] = [held[t] EXCEPT !.captured = captured[RunOf[t]]]
           \/ held'[t] = [held[t] EXCEPT !.errors = errors[RunOf[t]]]
    BY <1>1, <1>8 DEF ReadCaptured, ReadErrors, finVars
  <2>2. /\ held'[t].captured \in {held[t].captured, captured[RunOf[t]]}
        /\ held'[t].errors \in {held[t].errors, errors[RunOf[t]]}
    BY <1>1, <2>1 DEF Running
  <2>3. held[t] # Nobody /\ RunOf[t] \in Run
    BY <1>1, NobodyAssumption
  <2>4. W(held'[t], RunOf[t])
    BY <1>1, <1>2, <1>3, <1>5, <2>2, <2>3 DEF W
  <2>. QED
    BY <1>4, <1>5, <2>1, <2>4
<1>9. ASSUME NEW t \in Sampler, ListRunning(t)
      PROVE  /\ \A r \in Run : W(list'[r], r) /\ W(finished'[r], r)
             /\ \A u \in Sampler : W(held'[u], RunOf[u])
  <2>1. /\ list' = [list EXCEPT ![RunOf[t]] = held[t]] /\ finished' = finished
        /\ held' = [held EXCEPT ![t] = Summary("RUNNING", 0, 0)] /\ RunOf[t] \in Run
    BY <1>1, <1>9 DEF ListRunning, finVars
  <2>. QED
    BY <1>1, <1>4, <1>5, <1>6, <2>1
<1>10. ASSUME NEW q \in Run, Register(q) \/ PutStatus(q) \/ ListFinal(q)
       PROVE  /\ \A r \in Run : W(list'[r], r) /\ W(finished'[r], r)
              /\ \A u \in Sampler : W(held'[u], RunOf[u])
  <2>1. /\ held' = held
        /\ \A r \in Run : r # q => list'[r] = list[r] /\ finished'[r] = finished[r]
        /\ list'[q] \in {list[q], Summary("RUNNING", 0, 0), Summary(finState[q], captured[q], errors[q])}
        /\ finished'[q] \in {finished[q], Summary(finState[q], captured[q], errors[q])}
    BY <1>1, <1>10 DEF Register, PutStatus, ListFinal, finVars, threadVars
  <2>. QED
    BY <1>4, <1>5, <1>6, <2>1
<1>11. ASSUME Clear
       PROVE  /\ \A r \in Run : W(list'[r], r) /\ W(finished'[r], r)
              /\ \A u \in Sampler : W(held'[u], RunOf[u])
  BY <1>4, <1>5, <1>11 DEF Clear, finVars, threadVars, W
<1>12. ASSUME UNCHANGED <<list, finished, held>>
       PROVE  /\ \A r \in Run : W(list'[r], r) /\ W(finished'[r], r)
              /\ \A u \in Sampler : W(held'[u], RunOf[u])
  BY <1>4, <1>5, <1>12
<1>13. \/ \E t \in Sampler : ReadCaptured(t) \/ ReadErrors(t) \/ ListRunning(t)
       \/ \E q \in Run : Register(q) \/ PutStatus(q) \/ ListFinal(q)
       \/ Clear
       \/ UNCHANGED <<list, finished, held>>
  BY DEF Next, Register, Starts, Submit, Return, Finishes, CloseCounter, PutStatus, ListFinal,
     StopFinds, Stops, StopEngine, CancelTask, StopFinishes, Executes, TakeTask, EngineStarts,
     PlanEnds, ExecuteFinishes, Clear, Counter, Store, Deliver, CountCaptured, CountError,
     vars, threadVars, finVars
<1>. QED
  BY <1>8, <1>9, <1>10, <1>11, <1>12, <1>13

\* A run that is started, known or stopped stays so.
LEMMA StaysSo ==
  ASSUME IInv, [Next]_vars, NEW r \in Run
  PROVE  /\ Known(r) => Known(r)'
         /\ startPc[r] # "idle" => startPc'[r] # "idle"
         /\ stopPc[r] # "idle" => stopPc'[r] # "idle"
BY DEF Known, IInv, TypeOK,
   Next, Register, Starts, Submit, Return, Finishes, CloseCounter, PutStatus, ListFinal,
   StopFinds, Stops, StopEngine, CancelTask, StopFinishes, Executes, TakeTask, EngineStarts,
   PlanEnds, ExecuteFinishes, Clear, Counter, Store, Deliver, CountCaptured, CountError,
   ReadCaptured, ReadErrors, ListRunning, vars, threadVars, finVars, stopVars

LEMMA NextQueuedOnce == IInv /\ QueuedOnce /\ [Next]_vars => QueuedOnce'
<1>. SUFFICES ASSUME IInv, QueuedOnce, [Next]_vars PROVE QueuedOnce'
  OBVIOUS
<1>1. queue \in Seq(Run) /\ DOMAIN queue = 1..Len(queue) /\ Len(queue) \in Nat
  BY DEF IInv, TypeOK
<1>2. ASSUME NEW r \in Run
      PROVE  (Known(r) => Known(r)') /\ (stopPc[r] # "idle" => stopPc'[r] # "idle")
  BY StaysSo
\* Only execute(), once the plan has ended, finishes a run that nobody stops.
<1>3. ASSUME NEW r \in Run, Unfinished(r), r # worker \/ plan # "ended" PROVE Unfinished(r)'
  <2>1. CASE stopPc[r] # "idle"
    <3>1. stopPc'[r] # "idle"
      BY <1>2, <2>1
    <3>. QED
      BY <3>1 DEF Unfinished
  <2>2. CASE finPc[r] = "none" /\ stopPc[r] = "idle"
    BY <1>3, <2>2 DEF Unfinished, Remove, IInv, TypeOK,
     Next, Register, Starts, Submit, Return, Finishes, CloseCounter, PutStatus, ListFinal,
     StopFinds, Stops, StopEngine, CancelTask, StopFinishes, Executes, TakeTask, EngineStarts,
     PlanEnds, ExecuteFinishes, Clear, Counter, Store, Deliver, CountCaptured, CountError,
     ReadCaptured, ReadErrors, ListRunning, vars, threadVars, finVars, stopVars
  <2>. QED
    BY <1>3, <2>1, <2>2 DEF Unfinished
<1>4. ASSUME queue' = queue, worker' \in {worker, Nobody}, plan = "ended" => plan' = "ended" \/ worker' = Nobody
      PROVE  QueuedOnce'
  <2>. SUFFICES ASSUME NEW r \in Run
                PROVE /\ Queued(r)' =>
                           Known(r)' /\ r # worker' /\ Unfinished(r)'
                      /\ worker' = r => Known(r)' /\ (plan' # "ended" => Unfinished(r)')
                      /\ Known(r)' \/ Unfinished(r)'
    BY <1>4 DEF QueuedOnce, Known, Unfinished, Queued
  <2>1. r # Nobody
    BY RunAssumption
  <2>. QED
    BY <1>2, <1>3, <1>4, <2>1 DEF QueuedOnce, Known, Unfinished, Queued
<1>5. ASSUME NEW q \in Run, Submit(q) PROVE QueuedOnce'
  <2>1. /\ queue' = Append(queue, q) /\ startPc[q] = "registered" /\ startPc'[q] = "submitted"
        /\ UNCHANGED <<worker, plan, finPc, stopPc>>
    BY <1>5 DEF Submit, IInv, TypeOK, finVars, stopVars
  <2>2. /\ DOMAIN queue' = 1..(Len(queue) + 1) /\ queue'[Len(queue) + 1] = q
        /\ \A i \in 1..Len(queue) : queue'[i] = queue[i]
    BY <1>1, <2>1
  <2>3. \A i \in DOMAIN queue : queue[i] # q
    BY <2>1 DEF QueuedOnce, Known, Queued
  <2>4. q # worker /\ Unfinished(q)
    BY <2>1 DEF QueuedOnce, Known, Queued
  <2>5. \A i, j \in DOMAIN queue' : queue'[i] = queue'[j] => i = j
    BY <1>1, <2>2, <2>3 DEF QueuedOnce
  <2>6. ASSUME NEW r \in Run
        PROVE /\ Queued(r)' => Known(r)' /\ r # worker' /\ Unfinished(r)'
              /\ worker' = r => Known(r)' /\ (plan' # "ended" => Unfinished(r)')
              /\ Known(r)' \/ Unfinished(r)'
    <3>1. worker' = worker /\ plan' = plan
      BY <2>1
    <3>2. (Unfinished(r) => Unfinished(r)') /\ (Known(r) => Known(r)')
      BY <1>2, <2>1 DEF Unfinished
    <3>3. Queued(r)' => r = q \/ Queued(r)
      BY <1>1, <2>2 DEF Queued
    <3>4. r = q => Known(r)' /\ r # worker /\ Unfinished(r)
      BY <2>1, <2>4 DEF Known
    <3>5. /\ Queued(r) => Known(r) /\ r # worker /\ Unfinished(r)
          /\ worker = r => Known(r) /\ (plan # "ended" => Unfinished(r))
          /\ Known(r) \/ Unfinished(r)
      BY DEF QueuedOnce
    <3>. QED
      BY <3>1, <3>2, <3>3, <3>4, <3>5
  <2>. QED
    BY <2>5, <2>6 DEF QueuedOnce, Known, Unfinished, Queued
<1>6. ASSUME TakeTask PROVE QueuedOnce'
  <2>1. /\ worker = Nobody /\ queue # <<>> /\ queue' = Tail(queue)
        /\ UNCHANGED <<startPc, finPc, stopPc>>
        /\ worker' \in {worker, Head(queue)}
    BY <1>6 DEF TakeTask, finVars, stopVars
  <2>2. /\ DOMAIN queue' = 1..(Len(queue) - 1) /\ Head(queue) = queue[1] /\ 1 \in DOMAIN queue
        /\ \A i \in 1..(Len(queue) - 1) : queue'[i] = queue[i + 1] /\ i + 1 \in DOMAIN queue
    BY <1>1, <2>1
  <2>3. \A r \in Run : (Unfinished(r)' <=> Unfinished(r)) /\ (Known(r)' <=> Known(r))
    BY <2>1 DEF Unfinished, Known
  <2>4. \A r \in Run : Queued(r)' =>
                        r # Head(queue) /\ Queued(r)
    <3>. SUFFICES ASSUME NEW i \in DOMAIN queue'
                  PROVE queue'[i] # Head(queue) /\ queue'[i] = queue[i + 1] /\ i + 1 \in DOMAIN queue
      BY DEF Queued
    <3>1. queue'[i] = queue[i + 1] /\ i + 1 \in DOMAIN queue /\ i + 1 # 1
      BY <1>1, <2>2
    <3>. QED
      BY <2>2, <3>1 DEF QueuedOnce, Known, Unfinished, Queued
  <2>5. \A i, j \in DOMAIN queue' : queue'[i] = queue'[j] => i = j
    <3>. SUFFICES ASSUME NEW i \in DOMAIN queue', NEW j \in DOMAIN queue', queue'[i] = queue'[j]
                  PROVE i = j
      OBVIOUS
    <3>1. i + 1 = j + 1
      BY <1>1, <2>2 DEF QueuedOnce, Known, Unfinished, Queued
    <3>. QED
      BY <1>1, <2>2, <3>1
  <2>6. ASSUME NEW r \in Run
        PROVE /\ Queued(r)' => Known(r)' /\ r # worker' /\ Unfinished(r)'
              /\ worker' = r => Known(r)' /\ (plan' # "ended" => Unfinished(r)')
              /\ Known(r)' \/ Unfinished(r)'
    <3>1. r # Nobody
      BY RunAssumption
    <3>2. worker' = r => Queued(r)
      BY <2>1, <2>2, <3>1 DEF Queued
    <3>. QED
      BY <2>1, <2>3, <2>4, <3>1, <3>2 DEF QueuedOnce, Known, Unfinished, Queued
  <2>. QED
    BY <2>5, <2>6 DEF QueuedOnce, Known, Unfinished, Queued
<1>7. CASE ~TakeTask /\ ~\E q \in Run : Submit(q)
  <2>1. /\ queue' = queue /\ worker' \in {worker, Nobody}
        /\ plan = "ended" => plan' = "ended" \/ worker' = Nobody
    BY <1>7 DEF 
     Next, Register, Starts, Return, Finishes, CloseCounter, PutStatus, ListFinal,
     StopFinds, Stops, StopEngine, CancelTask, StopFinishes, Executes, EngineStarts,
     PlanEnds, ExecuteFinishes, Clear, Counter, Store, Deliver, CountCaptured, CountError,
     ReadCaptured, ReadErrors, ListRunning, vars, execVars
  <2>. QED
    BY <1>4, <2>1
<1>. QED
  BY <1>5, <1>6, <1>7

LEMMA NextDrained == IInv /\ QueuedOnce /\ Drained /\ [Next]_vars => Drained'
<1>. SUFFICES ASSUME IInv, QueuedOnce, Drained, [Next]_vars PROVE Drained'
  OBVIOUS
<1>1. ASSUME NEW r \in Run
      PROVE  (startPc[r] # "idle" => startPc'[r] # "idle") /\ (stopPc[r] # "idle" => stopPc'[r] # "idle")
  BY StaysSo
<1>2. cancelled' \subseteq {r \in Run : stopPc'[r] # "idle"}
  <2>1. \A r \in cancelled' : r \in cancelled \/ CancelTask(r)
    BY DEF
     Next, Register, Starts, Submit, Return, Finishes, CloseCounter, PutStatus, ListFinal,
     StopFinds, Stops, StopEngine, CancelTask, StopFinishes, Executes, TakeTask, EngineStarts,
     PlanEnds, ExecuteFinishes, Clear, Counter, Store, Deliver, CountCaptured, CountError,
     ReadCaptured, ReadErrors, ListRunning, vars, stopVars
  <2>2. \A r \in Run : CancelTask(r) => stopPc'[r] # "idle"
    BY DEF CancelTask, IInv, TypeOK
  <2>3. cancelled' \subseteq Run
    BY NextTypeOK DEF TypeOK
  <2>. QED
    BY <1>1, <2>1, <2>2, <2>3 DEF Drained
\* Only a thread of the plan that runs becomes busy.
<1>3. ASSUME NEW t \in Sampler, samPc'[t] # "idle"
      PROVE  \/ samPc[t] # "idle"
             \/ /\ plan # "ended" \/ worker \in cancelled
                /\ worker = RunOf[t] /\ UNCHANGED <<worker, plan, startPc, stopPc, finPc>>
  BY <1>3, SMTT(30) DEF Register, Starts, Submit, Return, Finishes, CloseCounter, PutStatus, ListFinal,
     Next, StopFinds, Stops, StopEngine, CancelTask, StopFinishes, Executes, TakeTask, EngineStarts,
     PlanEnds, ExecuteFinishes, Clear, Counter, Store, Deliver, CountCaptured, CountError,
     ReadCaptured, ReadErrors, ListRunning, vars, threadVars, execVars, stopVars, finVars, IInv, TypeOK
<1>4. \A t \in Sampler : samPc'[t] # "idle" => startPc'[RunOf[t]] # "idle"
  <2>. SUFFICES ASSUME NEW t \in Sampler, samPc'[t] # "idle" PROVE startPc[RunOf[t]] # "idle"
    BY <1>1, RunAssumption
  <2>1. RunOf[t] \in Run
    BY RunAssumption
  <2>. QED
    BY <1>3, <2>1 DEF Drained, QueuedOnce, Known
<1>5. ASSUME NEW r \in Run, stopPc'[r] = "idle",
             (worker' = r /\ plan' = "ended") \/ finPc'[r] # "none", InFlight(r)'
      PROVE  FALSE
  <2>1. stopPc[r] = "idle" /\ r \notin cancelled
    BY <1>1, <1>5 DEF Drained
  <2>2. PICK t \in Sampler : RunOf[t] = r /\ samPc'[t] # "idle"
    BY <1>5 DEF InFlight
  <2>3. r # Nobody
    BY RunAssumption
  <2>4. CASE samPc[t] # "idle"
    <3>1. InFlight(r)
      BY <2>2, <2>4 DEF InFlight
    <3>2. ~(worker = r /\ plan = "ended") /\ finPc[r] = "none"
      BY <2>1, <3>1 DEF Drained
    <3>3. ~PlanEnds \/ worker # r
      BY <2>1, <3>1 DEF PlanEnds
    <3>4. finPc'[r] = "none"
      BY <2>1, <1>5, <3>2 DEF Remove, IInv, TypeOK,
       Next, Register, Starts, Submit, Return, Finishes, CloseCounter, PutStatus, ListFinal,
       StopFinds, Stops, StopEngine, CancelTask, StopFinishes, Executes, TakeTask, EngineStarts,
       PlanEnds, ExecuteFinishes, Clear, Counter, Store, Deliver, CountCaptured, CountError,
       ReadCaptured, ReadErrors, ListRunning, vars, threadVars, finVars, stopVars
    <3>5. ~(worker' = r /\ plan' = "ended")
      BY <2>3, <3>2, <3>3 DEF
       Next, Register, Starts, Submit, Return, Finishes, CloseCounter, PutStatus, ListFinal,
       StopFinds, Stops, StopEngine, CancelTask, StopFinishes, Executes, TakeTask, EngineStarts,
       PlanEnds, ExecuteFinishes, Clear, Counter, Store, Deliver, CountCaptured, CountError,
       ReadCaptured, ReadErrors, ListRunning, vars, execVars
    <3>. QED
      BY <1>5, <3>4, <3>5
  <2>5. CASE samPc[t] = "idle"
    <3>1. /\ plan # "ended" /\ worker = r
          /\ UNCHANGED <<worker, plan, stopPc, finPc>>
      BY <1>3, <2>1, <2>2, <2>5
    <3>2. Unfinished(r)
      BY <3>1 DEF QueuedOnce
    <3>. QED
      BY <1>5, <2>1, <3>1, <3>2 DEF Unfinished
  <2>. QED
    BY <2>4, <2>5
<1>. QED
  BY <1>2, <1>4, <1>5 DEF Drained

LEMMA NextExact ==
  IInv /\ FailedOnly /\ QueuedOnce /\ Drained /\ Exact /\ [Next]_vars => Exact'
<1>. SUFFICES ASSUME IInv, FailedOnly, QueuedOnce, Drained, Exact, [Next]_vars,
                     NEW r \in Run, stopPc'[r] = "idle"
              PROVE  /\ Missed(r)' = 0 /\ MissedErrors(r)' = 0
                     /\ finPc'[r] \in {"put", "done"} =>
                          finished'[r] = Summary(finState'[r], captured'[r], errors'[r])
                     /\ finPc'[r] = "done" => list'[r] \in {Nobody, finished'[r]}
  BY DEF Exact
<1>1. stopPc[r] = "idle"
  BY StaysSo
<1>2. Missed(r)' = 0 /\ MissedErrors(r)' = 0
  <2>1. InFlight(r) => startPc[r] # "idle" /\ finPc[r] = "none"
    BY <1>1 DEF InFlight, Drained
  <2>2. r \in counters \/ ~InFlight(r)
    BY <2>1, <1>1 DEF IInv, OneFinisher
  <2>. QED
    BY <1>1, <2>2, MissedStep DEF Exact
<1>3. finPc[r] # "none" => \A t \in Sampler : RunOf[t] = r => samPc[t] = "idle"
  BY <1>1 DEF Drained, InFlight
<1>4. finPc[r] # "none" => captured'[r] = captured[r] /\ errors'[r] = errors[r]
  BY <1>3, SMTT(30) DEF IInv, TypeOK,
     Next, Register, Starts, Submit, Return, Finishes, CloseCounter, PutStatus, ListFinal,
     StopFinds, Stops, StopEngine, CancelTask, StopFinishes, Executes, TakeTask, EngineStarts,
     PlanEnds, ExecuteFinishes, Clear, Counter, Store, Deliver, CountCaptured, CountError,
     ReadCaptured, ReadErrors, ListRunning, vars, countVars
<1>5. finPc[r] # "none" => startPc[r] # "idle" /\ r \notin active
  BY DEF IInv, OneFinisher, FinisherKnown
<1>6. finPc[r] # "none" => finState'[r] = finState[r]
  BY <1>5, SMTT(30) DEF IInv, TypeOK, Remove,
     Next, Register, Starts, Submit, Return, Finishes, CloseCounter, PutStatus, ListFinal,
     StopFinds, Stops, StopEngine, CancelTask, StopFinishes, Executes, TakeTask, EngineStarts,
     PlanEnds, ExecuteFinishes, Clear, Counter, Store, Deliver, CountCaptured, CountError,
     ReadCaptured, ReadErrors, ListRunning, vars, finVars
<1>7. finPc'[r] \in {"put", "done"} =>
        /\ finPc[r] \in {"closed", "put", "done"}
        /\ finPc[r] = "closed" => finished'[r] = Summary(finState[r], captured[r], errors[r])
        /\ finPc[r] # "closed" => finished'[r] = finished[r]
  BY SMTT(30) DEF IInv, TypeOK, Remove,
     Next, Register, Starts, Submit, Return, Finishes, CloseCounter, PutStatus, ListFinal,
     StopFinds, Stops, StopEngine, CancelTask, StopFinishes, Executes, TakeTask, EngineStarts,
     PlanEnds, ExecuteFinishes, Clear, Counter, Store, Deliver, CountCaptured, CountError,
     ReadCaptured, ReadErrors, ListRunning, vars, finVars
<1>8. finPc'[r] \in {"put", "done"} =>
        finished'[r] = Summary(finState'[r], captured'[r], errors'[r])
  BY <1>1, <1>4, <1>6, <1>7 DEF Exact
<1>9. finPc'[r] = "done" =>
        \/ finPc[r] = "put" /\ list'[r] = Summary(finState[r], captured[r], errors[r])
        \/ finPc[r] = "done" /\ list'[r] \in {Nobody, list[r]}
  <2>. SUFFICES ASSUME finPc'[r] = "done"
                PROVE  \/ finPc[r] = "put" /\ list'[r] = Summary(finState[r], captured[r], errors[r])
                       \/ finPc[r] = "done" /\ list'[r] \in {Nobody, list[r]}
    OBVIOUS
  <2>1. finPc[r] \in {"put", "done"} /\ (finPc[r] = "put" => ListFinal(r))
    <3>1. \/ finPc' = finPc
          \/ \E q \in Run : CloseCounter(q) \/ PutStatus(q) \/ ListFinal(q)
          \/ \E q : finPc' = [finPc EXCEPT ![q] = "removed"]
      BY DEF Remove,
       Next, Register, Starts, Submit, Return, Finishes,
       StopFinds, Stops, StopEngine, CancelTask, StopFinishes, Executes, TakeTask, EngineStarts,
       PlanEnds, ExecuteFinishes, Clear, Counter, Store, Deliver, CountCaptured, CountError,
       ReadCaptured, ReadErrors, ListRunning, vars, finVars
    <3>2. \A q \in Run : CloseCounter(q) \/ PutStatus(q) => finPc'[r] # "done" \/ finPc[r] = "done"
      BY DEF CloseCounter, PutStatus, IInv, TypeOK
    <3>3. \A q \in Run : ListFinal(q) /\ q # r => finPc[r] = "done"
      BY DEF ListFinal, IInv, TypeOK
    <3>4. ListFinal(r) => finPc[r] = "put"
      BY DEF ListFinal
    <3>5. \A q : finPc' = [finPc EXCEPT ![q] = "removed"] => finPc[r] = "done"
      BY DEF IInv, TypeOK
    <3>6. finPc[r] = "put" => finPc' # finPc
      OBVIOUS
    <3>. QED
      BY <3>1, <3>2, <3>3, <3>4, <3>5, <3>6
  <2>2. ListFinal(r) => list'[r] = Summary(finState[r], captured[r], errors[r])
    BY DEF ListFinal, IInv, TypeOK
  <2>3. CASE finPc[r] = "done"
    <3>1. \A t \in Sampler : ListRunning(t) => RunOf[t] # r
      BY <1>3, <2>3 DEF ListRunning
    <3>2. ~Register(r) /\ ~ListFinal(r)
      BY <1>5, <2>3 DEF Register, ListFinal
    <3>3. list'[r] \in {Nobody, list[r]}
      <4>1. \/ list' = list \/ Clear
            \/ \E q \in Run : Register(q) \/ ListFinal(q)
            \/ \E t \in Sampler : ListRunning(t)
        BY DEF
         Next, Starts, Submit, Return, Finishes, CloseCounter, PutStatus,
         StopFinds, Stops, StopEngine, CancelTask, StopFinishes, Executes, TakeTask, EngineStarts,
         PlanEnds, ExecuteFinishes, Counter, Store, Deliver, CountCaptured, CountError,
         ReadCaptured, ReadErrors, vars
      <4>2. Clear => list'[r] = Nobody
        BY DEF Clear
      <4>3. \A q \in Run : q # r /\ (Register(q) \/ ListFinal(q)) => list'[r] = list[r]
        BY DEF Register, ListFinal, IInv, TypeOK
      <4>4. \A t \in Sampler : RunOf[t] # r /\ ListRunning(t) => list'[r] = list[r]
        BY DEF ListRunning, IInv, TypeOK
      <4>. QED
        BY <3>1, <3>2, <4>1, <4>2, <4>3, <4>4
    <3>. QED
      BY <2>3, <3>3
  <2>. QED
    BY <2>1, <2>2, <2>3
<1>10. finPc'[r] = "done" => list'[r] \in {Nobody, finished'[r]}
  BY <1>1, <1>7, <1>9 DEF Exact
<1>. QED
  BY <1>2, <1>8, <1>10

-----------------------------------------------------------------------------
LEMMA CountInvariant == Spec => []CInv
<1>1. Init => CInv
  <2>. SUFFICES ASSUME Init PROVE CInv
    OBVIOUS
  <2>1. ASSUME NEW r \in Run
        PROVE  /\ Missed(r) = 0 /\ MissedErrors(r) = 0 /\ ~InFlight(r)
               /\ captured[r] = 0 /\ errors[r] = 0 /\ list[r] = Nobody /\ finished[r] = Nobody
    <3>1. Uncounted(r) = {} /\ UncountedErrors(r) = {} /\ ~InFlight(r)
      BY DEF Init, Uncounted, UncountedErrors, InFlight
    <3>2. Missed(r) = 0 /\ MissedErrors(r) = 0
      BY <3>1, FS_EmptySet DEF Init, Missed, MissedErrors
    <3>. QED
      BY <3>1, <3>2 DEF Init
  <2>2. \A t \in Sampler : Within(held[t], RunOf[t])
    BY RunAssumption DEF Init, Within, Summary
  <2>3. QueuedOnce
    BY RunAssumption DEF Init, QueuedOnce, Queued, Known, Unfinished
  <2>. QED
    BY <2>1, <2>2, <2>3 DEF CInv, FailedOnly, CountsBounded, Within, Drained, Exact, Init
<1>2. IInv /\ CInv /\ [Next]_vars => CInv'
  BY NextFailedOnly, NextCountsBounded, NextQueuedOnce, NextDrained, NextExact DEF CInv
<1>. QED
  BY RunInvariant, <1>1, <1>2, PTL DEF Spec

\* No status or summary ever counts more samples or failures than were stored
\* for its run, whoever reads and writes the counters in between.
THEOREM CountsBacked == Spec => []CountsBackedBySamples
<1>1. IInv /\ CInv => CountsBackedBySamples
  <2>. SUFFICES ASSUME IInv, CInv, NEW r \in Run, NEW s \in {list[r], finished[r]} \ {Nobody}
                PROVE  s.captured <= samples[r] /\ s.errors <= failures[r]
    BY DEF CountsBackedBySamples
  <2>1. /\ s.captured \in Nat /\ s.errors \in Nat /\ samples[r] \in Nat /\ failures[r] \in Nat
        /\ captured[r] \in Nat /\ errors[r] \in Nat
    BY DEF IInv, TypeOK, Final, Running
  <2>2. s.captured <= captured[r] /\ s.errors <= errors[r]
    BY DEF CInv, CountsBounded, Within
  <2>3. captured[r] <= samples[r] /\ errors[r] <= failures[r]
    BY <2>1, UncountedFinite DEF CInv, CountsBounded, Missed, MissedErrors
  <2>. QED
    BY <2>1, <2>2, <2>3
<1>. QED
  BY RunInvariant, CountInvariant, <1>1, PTL

\* A run that nobody stops ends with the counts of exactly its samples, in its
\* status and in the run list.
THEOREM FinalCounts == Spec => []FinalCountsExact
<1>1. IInv /\ CInv => FinalCountsExact
  <2>. SUFFICES ASSUME IInv, CInv, NEW r \in Run, finPc[r] = "done", stopPc[r] = "idle"
                PROVE  /\ finished[r].captured = samples[r] /\ finished[r].errors = failures[r]
                       /\ list[r] \in {Nobody, finished[r]}
    BY DEF FinalCountsExact
  <2>1. Uncounted(r) = {} /\ UncountedErrors(r) = {}
    BY DEF CInv, Drained, InFlight, Uncounted, UncountedErrors
  <2>2. captured[r] = samples[r] /\ errors[r] = failures[r]
    <3>1. Cardinality(Uncounted(r)) = 0 /\ Cardinality(UncountedErrors(r)) = 0
      BY <2>1, FS_EmptySet
    <3>2. Missed(r) = 0 /\ MissedErrors(r) = 0
      BY DEF CInv, Exact
    <3>3. /\ samples[r] \in Nat /\ failures[r] \in Nat /\ captured[r] \in Nat /\ errors[r] \in Nat
      BY DEF IInv, TypeOK
    <3>. QED
      BY <3>1, <3>2, <3>3 DEF Missed, MissedErrors
  <2>3. finished[r] = Summary(finState[r], captured[r], errors[r]) /\ list[r] \in {Nobody, finished[r]}
    BY DEF CInv, Exact
  <2>. QED
    BY <2>2, <2>3 DEF Summary
<1>. QED
  BY RunInvariant, CountInvariant, <1>1, PTL
-----------------------------------------------------------------------------
(* Somebody has every run that is still in the map                         *)

\* A task can only be cancelled once start() has assigned it.
CancelledKnown == \A r \in cancelled : startPc[r] = "returned"

HInv == CancelledKnown /\ UnfinishedIsInHand

LEMMA NextCancelledKnown == IInv /\ CancelledKnown /\ [Next]_vars => CancelledKnown'
<1>. SUFFICES ASSUME IInv, CancelledKnown, [Next]_vars PROVE CancelledKnown'
  OBVIOUS
<1>1. \A r \in cancelled' : r \in cancelled \/ startPc[r] = "returned"
  BY DEF
   Next, Register, Starts, Submit, Return, Finishes, CloseCounter, PutStatus, ListFinal,
   StopFinds, Stops, StopEngine, CancelTask, StopFinishes, Executes, TakeTask, EngineStarts,
   PlanEnds, ExecuteFinishes, Clear, Counter, Store, Deliver, CountCaptured, CountError,
   ReadCaptured, ReadErrors, ListRunning, vars, stopVars
<1>2. \A r \in Run : startPc[r] = "returned" => startPc'[r] = "returned"
  BY DEF IInv, TypeOK,
   Next, Register, Starts, Submit, Return, Finishes, CloseCounter, PutStatus, ListFinal,
   StopFinds, Stops, StopEngine, CancelTask, StopFinishes, Executes, TakeTask, EngineStarts,
   PlanEnds, ExecuteFinishes, Clear, Counter, Store, Deliver, CountCaptured, CountError,
   ReadCaptured, ReadErrors, ListRunning, vars
<1>3. cancelled' \subseteq Run
  BY NextTypeOK DEF TypeOK
<1>. QED
  BY <1>1, <1>2, <1>3 DEF CancelledKnown

\* The step that takes a run out of one hand puts it into another, or out of
\* the map: only TakeTask shortens the queue, and passes over cancelled runs
\* alone; only the run it finished leaves the executor.
LEMMA NextInHand == IInv /\ HInv /\ [Next]_vars => UnfinishedIsInHand'
<1>. SUFFICES ASSUME IInv, HInv, [Next]_vars, NEW r \in active'
              PROVE  (startPc[r] = "registered" \/ InTheQueue(r) \/ worker = r \/ stopPc[r] = "cancelled")'
  BY DEF UnfinishedIsInHand
<1>. DEFINE InHand == startPc[r] = "registered" \/ InTheQueue(r) \/ worker = r \/ stopPc[r] = "cancelled"
<1>1. r \in Run /\ r # Nobody
  BY NextTypeOK, RunAssumption DEF TypeOK
<1>2. queue \in Seq(Run) /\ DOMAIN queue = 1..Len(queue) /\ Len(queue) \in Nat
  BY DEF IInv, TypeOK
<1>3. ASSUME NEW q \in Run, Register(q) PROVE InHand'
  <2>1. CASE q = r
    BY <1>1, <1>3, <2>1 DEF Register, IInv, TypeOK
  <2>2. CASE q # r
    <3>1. r \in active /\ UNCHANGED <<queue, worker, cancelled, stopPc>> /\ startPc'[r] = startPc[r]
      BY <1>1, <1>3, <2>2 DEF Register, IInv, TypeOK, execVars, stopVars
    <3>. QED
      BY <3>1 DEF HInv, UnfinishedIsInHand, InTheQueue
  <2>. QED
    BY <2>1, <2>2
<1>4. ASSUME NEW q \in Run, Submit(q) PROVE InHand'
  <2>1. /\ queue' = Append(queue, q) /\ startPc[q] = "registered" /\ r \in active
        /\ UNCHANGED <<worker, cancelled, stopPc>> /\ (q # r => startPc'[r] = startPc[r])
    BY <1>1, <1>4 DEF Submit, IInv, TypeOK, stopVars
  <2>2. /\ DOMAIN queue' = 1..(Len(queue) + 1) /\ queue'[Len(queue) + 1] = q
        /\ \A i \in 1..Len(queue) : queue'[i] = queue[i]
    BY <1>2, <2>1
  <2>3. CASE q = r
    <3>1. r \notin cancelled'
      BY <2>1, <2>3 DEF HInv, CancelledKnown
    <3>. QED
      BY <1>2, <2>2, <2>3, <3>1 DEF InTheQueue
  <2>4. CASE q # r
    <3>1. InTheQueue(r) => InTheQueue(r)'
      BY <1>2, <2>1, <2>2 DEF InTheQueue
    <3>. QED
      BY <2>1, <2>4, <3>1 DEF HInv, UnfinishedIsInHand
  <2>. QED
    BY <2>3, <2>4
<1>5. ASSUME TakeTask PROVE InHand'
  <2>1. /\ worker = Nobody /\ queue # <<>> /\ queue' = Tail(queue) /\ r \in active
        /\ UNCHANGED <<startPc, stopPc, cancelled>>
        /\ Head(queue) \notin cancelled => worker' = Head(queue)
    BY <1>5 DEF TakeTask, stopVars
  <2>2. /\ DOMAIN queue' = 1..(Len(queue) - 1) /\ Head(queue) = queue[1]
        /\ \A i \in 1..(Len(queue) - 1) : queue'[i] = queue[i + 1]
    BY <1>2, <2>1
  <2>3. InTheQueue(r) => InTheQueue(r)' \/ worker' = r
    <3>. SUFFICES ASSUME r \notin cancelled, NEW i \in DOMAIN queue, queue[i] = r
                  PROVE  InTheQueue(r)' \/ worker' = r
      BY DEF InTheQueue
    <3>1. CASE i = 1
      BY <2>1, <2>2, <3>1
    <3>2. CASE i # 1
      <4>1. i - 1 \in DOMAIN queue' /\ queue'[i - 1] = queue[(i - 1) + 1] /\ (i - 1) + 1 = i
        BY <1>2, <2>2, <3>2
      <4>. QED
        BY <2>1, <4>1 DEF InTheQueue
    <3>. QED
      BY <3>1, <3>2
  <2>. QED
    BY <1>1, <2>1, <2>3 DEF HInv, UnfinishedIsInHand
<1>6. ASSUME NEW q \in Run, CancelTask(q) PROVE InHand'
  <2>1. r \in active /\ UNCHANGED <<startPc, queue, worker>>
    BY <1>6 DEF CancelTask, execVars
  <2>2. CASE q = r
    <3>1. startPc[r] = "returned" => stopPc'[r] = "cancelled"
      BY <1>1, <1>6, <2>2 DEF CancelTask, IInv, TypeOK
    <3>2. startPc[r] # "returned" => cancelled' = cancelled
      BY <1>6, <2>2 DEF CancelTask
    <3>3. stopPc[r] # "cancelled"
      BY <1>6, <2>2 DEF CancelTask
    <3>. QED
      BY <2>1, <3>1, <3>2, <3>3 DEF HInv, UnfinishedIsInHand, InTheQueue
  <2>3. CASE q # r
    <3>1. stopPc'[r] = stopPc[r] /\ (r \in cancelled' => r \in cancelled)
      BY <1>1, <1>6, <2>3 DEF CancelTask, IInv, TypeOK
    <3>. QED
      BY <2>1, <3>1 DEF HInv, UnfinishedIsInHand, InTheQueue
  <2>. QED
    BY <2>2, <2>3
<1>7. CASE /\ ~\E q \in Run : Register(q) \/ Submit(q) \/ CancelTask(q)
           /\ ~TakeTask
  <2>1. r \in active /\ UNCHANGED <<queue, cancelled>>
    BY <1>7 DEF Remove,
     Next, Starts, Return, Finishes, CloseCounter, PutStatus, ListFinal,
     StopFinds, Stops, StopEngine, StopFinishes, Executes, EngineStarts,
     PlanEnds, ExecuteFinishes, Clear, Counter, Store, Deliver, CountCaptured, CountError,
     ReadCaptured, ReadErrors, ListRunning, vars, stopVars, execVars
  <2>2. startPc[r] = "registered" => startPc'[r] = "registered"
    BY <1>1, <1>7 DEF IInv, TypeOK,
     Next, Starts, Return, Finishes, CloseCounter, PutStatus, ListFinal,
     StopFinds, Stops, StopEngine, StopFinishes, Executes, EngineStarts,
     PlanEnds, ExecuteFinishes, Clear, Counter, Store, Deliver, CountCaptured, CountError,
     ReadCaptured, ReadErrors, ListRunning, vars
  <2>3. worker' = worker \/ worker \notin active'
    <3>1. ASSUME NEW q \in Run, ListFinal(q), finBy[q] = "execute" PROVE worker \notin active'
      BY <3>1 DEF ListFinal, IInv, OneFinisher, InFinish
    <3>2. ASSUME NEW q \in Run, ListFinal(q), finBy[q] # "execute" PROVE worker' = worker
      BY <3>2 DEF ListFinal
    <3>3. ASSUME NEW s, ExecuteFinishes(s) PROVE worker' = worker \/ worker \notin active'
      BY <3>3 DEF ExecuteFinishes, Remove
    <3>. QED
      BY <1>7, <3>1, <3>2, <3>3 DEF
       Next, Starts, Return, Finishes, CloseCounter, PutStatus,
       StopFinds, Stops, StopEngine, StopFinishes, Executes, EngineStarts,
       PlanEnds, Clear, Counter, Store, Deliver, CountCaptured, CountError,
       ReadCaptured, ReadErrors, ListRunning, vars, execVars
  <2>4. stopPc[r] = "cancelled" => stopPc'[r] = "cancelled"
    <3>1. ASSUME NEW q \in Run, StopFinishes(q) PROVE q # r
      BY <3>1 DEF StopFinishes, Remove
    <3>2. ASSUME NEW q \in Run, ListFinal(q) PROVE q # r
      BY <3>2, <1>1 DEF ListFinal, IInv, OneFinisher
    <3>3. ASSUME NEW q \in Run, stopPc[r] = "cancelled", StopFinds(q) \/ StopEngine(q)
          PROVE  stopPc'[r] = "cancelled"
      BY <1>1, <3>3 DEF StopFinds, StopEngine, IInv, TypeOK
    <3>4. ASSUME NEW q \in Run, StopFinishes(q) \/ ListFinal(q), q # r
          PROVE  stopPc'[r] = stopPc[r]
      BY <1>1, <3>4 DEF StopFinishes, ListFinal, IInv, TypeOK
    <3>. QED
      BY <1>7, <3>1, <3>2, <3>3, <3>4 DEF
       Next, Starts, Return, Finishes, CloseCounter, PutStatus, Stops, Executes, EngineStarts,
       PlanEnds, ExecuteFinishes, Clear, Counter, Store, Deliver, CountCaptured, CountError,
       ReadCaptured, ReadErrors, ListRunning, vars, stopVars
  <2>. QED
    BY <2>1, <2>2, <2>3, <2>4 DEF HInv, UnfinishedIsInHand, InTheQueue
<1>. QED
  BY <1>3, <1>4, <1>5, <1>6, <1>7

\* Until it has ended, every run that was started is in somebody's hands: the
\* safety half of the promise that it ends.
THEOREM NoRunIsLost == Spec => []UnfinishedIsInHand
<1>1. Init => HInv
  BY DEF Init, HInv, CancelledKnown, UnfinishedIsInHand
<1>2. IInv /\ HInv /\ [Next]_vars => HInv'
  BY NextCancelledKnown, NextInHand DEF HInv
<1>3. HInv => UnfinishedIsInHand
  BY DEF HInv
<1>. QED
  BY RunInvariant, <1>1, <1>2, <1>3, PTL DEF Spec

\* Every run that was started has a finisher to come, and only one gets through.
THEOREM ExactlyOneFinishes == Spec => []HasOneFinisher
<1>1. OneFinisher /\ UnfinishedIsInHand => HasOneFinisher
  BY DEF HasOneFinisher
<1>. QED
  BY FinishedByOne, NoRunIsLost, <1>1, PTL
=============================================================================
