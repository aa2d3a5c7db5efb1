-------------------------- MODULE BacktestRunProofs --------------------------
(***************************************************************************)
(* Theorems about the backtest run plane, for every number of runs,        *)
(* workers, strategies and attempts.                                       *)
(***************************************************************************)
EXTENDS BacktestRun, TLAPS

USE DEF RunTerminal, RunRetryable, RunActive, RunStates, JobTerminal, JobStates,
        EventTypes, Event, Working, requestVars, runVars, jobVars, workerVars

\* The last unit of work comes after the first replay.
LEMMA StepFacts ==
  /\ LastStep \in Nat
  /\ 0 .. LastStep \subseteq Nat
  /\ Items \in 0 .. LastStep
  /\ Items + 1 \in 0 .. LastStep
  /\ 0 \in 0 .. LastStep
  BY ItemsAssumption DEF LastStep

\* A send, kept or lost, keeps the backlog within its bound.
LEMMA SendType ==
  ASSUME NEW r \in Runs, NEW sent \in BOOLEAN, msgs \in [Runs -> 0 .. MaxMessages],
         Send(r, sent)
  PROVE  msgs' \in [Runs -> 0 .. MaxMessages]
  BY BoundsAssumption DEF Send

\* A thread that is not idle holds a delivery of some run.
LEMMA HolderHasRun ==
  ASSUME TypeOK, NEW w \in Workers, pc[w] # "idle"
  PROVE  held[w] \in Runs
  BY DEF TypeOK

\* Releasing a thread keeps the types of the worker columns.
LEMMA ReleaseType ==
  ASSUME TypeOK, NEW w \in Workers, Release(w)
  PROVE  /\ pc' \in [Workers -> {"idle", "received"} \cup Working]
         /\ held' \in [Workers -> Runs \cup {NoRun}]
         /\ \A v \in Workers : pc'[v] = "idle" <=> held'[v] = NoRun
         /\ seenState' \in [Workers -> RunStates]
         /\ seenJob' \in [Workers -> JobStates]
         /\ step' \in [Workers -> 0 .. LastStep]
  BY StepFacts DEF Release, TypeOK

\* The terminal write keeps every type.
LEMMA FinishType ==
  ASSUME TypeOK, NEW w \in Workers, pc[w] # "idle",
         NEW type \in EventTypes, NEW state \in RunStates, NEW status \in JobStates,
         NEW again \in BOOLEAN,
         Finish(w, type, state, status, again), results' \subseteq Runs
  PROVE  TypeOK'
<1>1. held[w] \in Runs /\ seenState[w] \in RunStates
  BY HolderHasRun DEF TypeOK
<1>2. runState' \in [Runs -> RunStates] /\ jobStatus' \in [Runs -> JobStates]
  BY <1>1 DEF Finish, TypeOK, Flush
<1>3. events' \in [Runs -> Seq(Event)]
  BY <1>1 DEF Finish, RecordEvent, TypeOK
<1>4. msgs' \in [Runs -> 0 .. MaxMessages]
  BY <1>1, SendType DEF Finish, TypeOK
<1>5. losses' \in 0 .. MaxLosses
  BY BoundsAssumption DEF Finish, TypeOK
<1> QED BY <1>2, <1>3, <1>4, <1>5, ReleaseType DEF Finish, TypeOK

\* A delivery that ends without a commit keeps every type.
LEMMA UnwindType ==
  ASSUME TypeOK, NEW w \in Workers, NEW retried \in BOOLEAN, pc[w] # "idle",
         Unwind(w, retried), losses' \in 0 .. MaxLosses
  PROVE  TypeOK'
<1>1. msgs' \in [Runs -> 0 .. MaxMessages]
  BY HolderHasRun, SendType DEF Unwind, TypeOK
<1> QED BY <1>1, ReleaseType DEF Unwind, TypeOK

\* Every variable of the run plane keeps its type.
THEOREM TypeCorrect == Spec => []TypeOK
<1>1. Init => TypeOK
  BY BoundsAssumption, StepFacts DEF Init, TypeOK
<1>2. TypeOK /\ [Next]_vars => TypeOK'
  <2> SUFFICES ASSUME TypeOK, [Next]_vars PROVE TypeOK'
    OBVIOUS
  <2>1. ASSUME NEW r \in Runs, NEW o \in Runs \cup {NoRun}, Admit(r, o) PROVE TypeOK'
    BY <2>1 DEF Admit, InsertRun, TypeOK
  <2>2. ASSUME NEW r \in Runs, CancelQueuedRun(r) PROVE TypeOK'
    BY <2>2 DEF CancelQueuedRun, RecordEvent, TypeOK
  <2>3. ASSUME NEW r \in Runs, RequestWorkerCancellation(r) PROVE TypeOK'
    BY <2>3 DEF RequestWorkerCancellation, TypeOK
  <2>4. ASSUME NEW w \in Workers, NEW r \in Runs, Receive(w, r) PROVE TypeOK'
    BY <2>4, BoundsAssumption, NoRunAssumption DEF Receive, TypeOK
  <2>5. ASSUME NEW w \in Workers, ReplayTerminal(w) PROVE TypeOK'
    BY <2>5, ReleaseType DEF ReplayTerminal, TypeOK
  <2>6. ASSUME NEW w \in Workers, Claim(w) PROVE TypeOK'
    <3>1. held[w] \in Runs
      BY <2>6, HolderHasRun DEF Claim
    <3>2. jobStatus' \in [Runs -> JobStates]
      BY <2>6, <3>1 DEF Claim, TypeOK, Flush
    <3>3. events' \in [Runs -> Seq(Event)]
      BY <2>6, <3>1 DEF Claim, RecordEvent, TypeOK
    <3> QED BY <2>6, <3>1, <3>2, <3>3 DEF Claim, TypeOK
  <2>7. ASSUME NEW w \in Workers, Checkpoint(w) PROVE TypeOK'
    BY <2>7, HolderHasRun DEF Checkpoint, TypeOK
  <2>8. ASSUME NEW w \in Workers, NEW again \in BOOLEAN, CancelRun(w, again) PROVE TypeOK'
    <3>1. pc[w] # "idle" /\ results' \subseteq Runs
      BY <2>8 DEF CancelRun, TypeOK
    <3> QED BY <2>8, <3>1, FinishType DEF CancelRun
  <2>9. ASSUME NEW w \in Workers, Resolve(w) PROVE TypeOK'
    BY <2>9, StepFacts DEF Resolve, TypeOK
  <2>10. ASSUME NEW w \in Workers, NEW again \in BOOLEAN, FailRun(w, again) PROVE TypeOK'
    <3>1. pc[w] # "idle" /\ results' \subseteq Runs
      BY <2>10 DEF FailRun, TypeOK
    <3> QED BY <2>10, <3>1, FinishType DEF FailRun
  <2>11. ASSUME NEW w \in Workers, StartReplay(w) PROVE TypeOK'
    <3>1. held[w] \in Runs
      BY <2>11, HolderHasRun DEF StartReplay
    <3>2. runState' \in [Runs -> RunStates]
      BY <2>11, <3>1 DEF StartReplay, TypeOK, Flush
    <3>3. events' \in [Runs -> Seq(Event)]
      BY <2>11, <3>1 DEF StartReplay, RecordEvent, TypeOK
    <3> QED BY <2>11, <3>2, <3>3, StepFacts DEF StartReplay, TypeOK
  <2>12. ASSUME NEW w \in Workers, NEW again \in BOOLEAN, Succeed(w, again) PROVE TypeOK'
    <3>1. pc[w] # "idle" /\ results' \subseteq Runs
      BY <2>12, HolderHasRun DEF Succeed, AtResult, TypeOK
    <3> QED BY <2>12, <3>1, FinishType DEF Succeed
  <2>13. ASSUME NEW w \in Workers, NEW retried \in BOOLEAN, ResultConflict(w, retried)
         PROVE  TypeOK'
    BY <2>13, UnwindType DEF ResultConflict, AtResult, TypeOK
  <2>14. ASSUME NEW w \in Workers, NEW retried \in BOOLEAN, Lose(w, retried)
         PROVE  TypeOK'
    <3>1. pc[w] # "idle" /\ losses' \in 0 .. MaxLosses /\ Unwind(w, retried)
      BY <2>14, BoundsAssumption DEF Lose, TypeOK
    <3> QED BY <3>1, UnwindType
  <2>15. ASSUME NEW r \in Runs, NEW sent \in BOOLEAN, RecoverStaleJob(r, sent)
         PROVE  TypeOK'
    <3>1. msgs' \in [Runs -> 0 .. MaxMessages]
      BY <2>15, SendType DEF RecoverStaleJob, TypeOK
    <3>2. jobStatus' \in [Runs -> JobStates]
      BY <2>15 DEF RecoverStaleJob, TypeOK
    <3>3. attempts[r] + 1 \in 0 .. MaxRecoveries
      BY <2>15, BoundsAssumption DEF RecoverStaleJob, TypeOK
    <3>4. attempts' \in [Runs -> 0 .. MaxRecoveries]
      BY <2>15, <3>3 DEF RecoverStaleJob, TypeOK
    <3> QED BY <2>15, <3>1, <3>2, <3>4 DEF RecoverStaleJob, TypeOK
  <2>16. ASSUME NEW r \in Runs, Redeliver(r) PROVE TypeOK'
    BY <2>16, SendType DEF Redeliver, TypeOK
  <2>17. ASSUME NEW r \in Runs, NEW sent \in BOOLEAN, Dispatch(r, sent) PROVE TypeOK'
    BY <2>17, SendType DEF Dispatch, TypeOK
  <2>18. ASSUME NEW r \in Runs, NEW sent \in BOOLEAN, AdmitByRunner(r, sent) PROVE TypeOK'
    <3>1. msgs' \in [Runs -> 0 .. MaxMessages]
      BY <2>18, SendType DEF AdmitByRunner, TypeOK
    <3> QED BY <2>18, <3>1 DEF AdmitByRunner, InsertRun, TypeOK
  <2>19. ASSUME NEW r \in Runs, DiscardUnknown(r) PROVE TypeOK'
    BY <2>19, BoundsAssumption DEF DiscardUnknown, TypeOK
  <2>20. CASE UNCHANGED vars
    BY <2>20 DEF TypeOK, vars
  <2> QED
    BY <2>1, <2>2, <2>3, <2>4, <2>5, <2>6, <2>7, <2>8, <2>9, <2>10, <2>11, <2>12,
       <2>13, <2>14, <2>15, <2>16, <2>17, <2>18, <2>19, <2>20
    DEF Next, Command, Execute, Sweep
<1> QED
  BY <1>1, <1>2, PTL DEF Spec

-----------------------------------------------------------------------------
(* However deliveries overlap *)

\* A thread claimed r: its stream opens with RUN_STARTED.
Begun(r) == events[r] # <<>> /\ events[r][1].type = "RUN_STARTED"

\* A run no thread claimed and nobody cancelled has no event.
UntouchedHasNoEvent ==
  \A r \in Runs : runState[r] \in {"absent", "queued"} => events[r] = <<>>

\* A thread works only on a run that was claimed, and never sees it queued again.
WorkerBegan ==
  \A w \in Workers :
    pc[w] \in Working => Begun(held[w]) /\ seenState[w] \notin {"absent", "queued"}

\* Once claimed, a run is never cancelled as if it were still queued.
BegunNotCancelledQueued ==
  \A r \in Runs :
    Begun(r) => \A i \in 1 .. Len(events[r]) :
                  events[r][i].type = "RUN_CANCELLED" => events[r][i].prev # "queued"

\* A run with events that no thread claimed was cancelled while queued.
NotBegunIsCancelled ==
  \A r \in Runs :
    events[r] # <<>> /\ ~Begun(r)
      => Len(events[r]) = 1 /\ runState[r] = "cancelled" /\ r \notin results

\* OneResultPerRun without the set of positions.
ResultHasEvent ==
  \A r \in Runs :
    /\ r \in results <=> \E i \in 1 .. Len(events[r]) : events[r][i].type = "RUN_SUCCEEDED"
    /\ \A i, j \in 1 .. Len(events[r]) :
         events[r][i].type = "RUN_SUCCEEDED" /\ events[r][j].type = "RUN_SUCCEEDED" => i = j

StreamInv ==
  /\ UntouchedHasNoEvent
  /\ WorkerBegan
  /\ BegunNotCancelledQueued
  /\ NotBegunIsCancelled
  /\ ResultHasEvent

\* What the invariant says of results and cancellations.
LEMMA StreamInvImplies == TypeOK /\ StreamInv => OneResultPerRun /\ QueuedCancelIsFinal
<1> SUFFICES ASSUME TypeOK, StreamInv PROVE OneResultPerRun /\ QueuedCancelIsFinal
  OBVIOUS
<1>1. OneResultPerRun
  BY DEF StreamInv, ResultHasEvent, OneResultPerRun, EventsOf
<1>2. QueuedCancelIsFinal
  BY DEF StreamInv, BegunNotCancelledQueued, NotBegunIsCancelled, QueuedCancelIsFinal, EventsOf,
         TypeOK
<1> QED BY <1>1, <1>2

\* What one more event does to the stream of r, and to no other stream.
LEMMA RecordFacts ==
  ASSUME TypeOK, NEW r \in Runs, NEW type \in EventTypes, NEW prev \in RunStates,
         NEW state \in RunStates, RecordEvent(r, type, prev, state)
  PROVE  /\ \A q \in Runs \ {r} : events'[q] = events[q]
         /\ Len(events[r]) \in Nat
         /\ Len(events'[r]) = Len(events[r]) + 1
         /\ events'[r] # <<>>
         /\ \A i \in 1 .. Len(events[r]) : events'[r][i] = events[r][i]
         /\ events[r] = <<>> => Len(events[r]) = 0
         /\ events[r] # <<>> => 1 \in 1 .. Len(events[r])
  BY DEF RecordEvent, TypeOK

\* An event of a thread at work on r, or of its claim, keeps the stream facts.
LEMMA RecordKeepsStream ==
  ASSUME TypeOK, StreamInv, NEW r \in Runs, NEW type \in EventTypes,
         NEW prev \in RunStates, NEW state \in RunStates,
         RecordEvent(r, type, prev, state),
         Begun(r) \/ (events[r] = <<>> /\ type = "RUN_STARTED"),
         type = "RUN_CANCELLED" => prev # "queued",
         results' = IF type = "RUN_SUCCEEDED" THEN results \cup {r} ELSE results,
         type = "RUN_SUCCEEDED" => r \notin results,
         \A q \in Runs \ {r} : runState'[q] = runState[q],
         runState'[r] \notin {"absent", "queued"}
  PROVE  /\ UntouchedHasNoEvent'
         /\ BegunNotCancelledQueued'
         /\ NotBegunIsCancelled'
         /\ ResultHasEvent'
         /\ Begun(r)'
         /\ \A q \in Runs : Begun(q) => Begun(q)'
<1> DEFINE n == Len(events[r])
<1>a. \A q \in Runs \ {r} : events'[q] = events[q]
  BY RecordFacts
<1>b. n \in Nat /\ Len(events'[r]) = n + 1 /\ events'[r] # <<>>
  BY RecordFacts
<1>c. \A i \in 1 .. n : events'[r][i] = events[r][i]
  BY RecordFacts
<1>d. events'[r][n + 1].type = type /\ events'[r][n + 1].prev = prev
  BY DEF RecordEvent, TypeOK
<1>e. (events[r] = <<>> => n = 0) /\ (events[r] # <<>> => 1 \in 1 .. n)
  BY RecordFacts
<1>f. 1 .. Len(events'[r]) = 1 .. n \cup {n + 1}
  BY <1>b
<1> HIDE DEF n
<1> USE DEF StreamInv
<1>1. Begun(r)'
  <2>1. CASE Begun(r)
    BY <2>1, <1>b, <1>c, <1>e DEF Begun
  <2>2. CASE events[r] = <<>> /\ type = "RUN_STARTED"
    BY <2>2, <1>b, <1>d, <1>e DEF Begun
  <2> QED BY <2>1, <2>2
<1>2. \A q \in Runs : Begun(q) => Begun(q)'
  BY <1>1, <1>a DEF Begun
<1>3. UntouchedHasNoEvent'
  BY <1>a DEF UntouchedHasNoEvent
<1>4. BegunNotCancelledQueued'
  <2> SUFFICES ASSUME NEW q \in Runs, Begun(q)', NEW i \in 1 .. Len(events'[q]),
                      events'[q][i].type = "RUN_CANCELLED"
               PROVE  events'[q][i].prev # "queued"
    BY DEF BegunNotCancelledQueued
  <2>1. CASE q # r
    BY <2>1, <1>a DEF BegunNotCancelledQueued, Begun
  <2>2. CASE q = r /\ i = n + 1
    BY <2>2, <1>d
  <2>3. CASE q = r /\ i \in 1 .. n
    <3>1. Begun(r)
      BY <2>3, <1>b, <1>e
    <3> QED BY <2>3, <3>1, <1>c DEF BegunNotCancelledQueued, n
  <2> QED BY <2>1, <2>2, <2>3, <1>f
<1>5. NotBegunIsCancelled'
  <2> SUFFICES ASSUME NEW q \in Runs, events'[q] # <<>>, ~Begun(q)'
               PROVE  Len(events'[q]) = 1 /\ runState'[q] = "cancelled" /\ q \notin results'
    BY DEF NotBegunIsCancelled
  <2>1. q # r
    BY <1>1
  <2> QED BY <2>1, <1>a DEF NotBegunIsCancelled, Begun
<1>6. ResultHasEvent'
  <2> SUFFICES ASSUME NEW q \in Runs
               PROVE  /\ q \in results' <=> \E i \in 1 .. Len(events'[q]) :
                                              events'[q][i].type = "RUN_SUCCEEDED"
                      /\ \A i, j \in 1 .. Len(events'[q]) :
                           events'[q][i].type = "RUN_SUCCEEDED"
                           /\ events'[q][j].type = "RUN_SUCCEEDED" => i = j
    BY DEF ResultHasEvent
  <2>1. CASE q # r
    BY <2>1, <1>a DEF ResultHasEvent
  <2>2. CASE q = r
    <3>1. events'[r][n + 1].type = type
      BY <1>d
    <3>2. n + 1 \notin 1 .. n
      BY <1>b
    <3>3. r \in results <=> \E i \in 1 .. n : events[r][i].type = "RUN_SUCCEEDED"
      BY DEF ResultHasEvent, n
    <3>4. \A i, j \in 1 .. n :
            events[r][i].type = "RUN_SUCCEEDED" /\ events[r][j].type = "RUN_SUCCEEDED" => i = j
      BY DEF ResultHasEvent, n
    <3> QED BY <2>2, <3>1, <3>2, <3>3, <3>4, <1>c, <1>f
  <2> QED BY <2>1, <2>2
<1> QED BY <1>1, <1>2, <1>3, <1>4, <1>5, <1>6

\* Steps that write no event, no Result and no run state keep the stream facts.
LEMMA QuietStep ==
  ASSUME StreamInv, UNCHANGED <<runState, events, results>>, WorkerBegan'
  PROVE  StreamInv'
  BY DEF StreamInv, UntouchedHasNoEvent, BegunNotCancelledQueued, NotBegunIsCancelled,
         ResultHasEvent, Begun

\* A thread that only lets go of its delivery is no longer at work.
LEMMA ReleaseKeepsWorkers ==
  ASSUME TypeOK, WorkerBegan, NEW w \in Workers, Release(w),
         \A q \in Runs : Begun(q) => Begun(q)'
  PROVE  WorkerBegan'
  BY HolderHasRun DEF WorkerBegan, Release, TypeOK

\* A thread at work holds a run that was claimed, hence no longer queued.
LEMMA WorkingRun ==
  ASSUME TypeOK, StreamInv, NEW w \in Workers, pc[w] \in Working
  PROVE  /\ held[w] \in Runs
         /\ Begun(held[w])
         /\ runState[held[w]] \notin {"absent", "queued"}
         /\ seenState[w] \in RunStates \ {"absent", "queued"}
  BY HolderHasRun DEF StreamInv, WorkerBegan, UntouchedHasNoEvent, Begun, TypeOK

\* The terminal write keeps the stream facts.
LEMMA FinishKeepsStream ==
  ASSUME TypeOK, StreamInv, NEW w \in Workers, pc[w] \in Working,
         NEW type \in EventTypes, NEW state \in RunTerminal, NEW status,
         NEW again \in BOOLEAN,
         Finish(w, type, state, status, again),
         results' = IF type = "RUN_SUCCEEDED" THEN results \cup {held[w]} ELSE results,
         type = "RUN_SUCCEEDED" => held[w] \notin results
  PROVE  StreamInv'
<1> DEFINE r == held[w]
<1>1. r \in Runs /\ Begun(r) /\ seenState[w] \in RunStates /\ seenState[w] # "queued"
  BY WorkingRun
<1>2. RecordEvent(r, type, seenState[w], state) /\ Release(w)
  BY DEF Finish
<1>3. /\ \A q \in Runs \ {r} : runState'[q] = runState[q]
      /\ runState'[r] \notin {"absent", "queued"}
  BY WorkingRun DEF Finish, Flush, TypeOK
<1>4. /\ UntouchedHasNoEvent' /\ BegunNotCancelledQueued' /\ NotBegunIsCancelled'
      /\ ResultHasEvent'
      /\ \A q \in Runs : Begun(q) => Begun(q)'
  <2> HIDE DEF r
  <2>1. state \in RunStates
    OBVIOUS
  <2>2. results' = IF type = "RUN_SUCCEEDED" THEN results \cup {r} ELSE results
    BY DEF r
  <2>3. type = "RUN_SUCCEEDED" => r \notin results
    BY DEF r
  <2> QED BY <1>1, <1>2, <1>3, <2>1, <2>2, <2>3, RecordKeepsStream
<1>5. WorkerBegan'
  BY <1>2, <1>4, ReleaseKeepsWorkers DEF StreamInv
<1> QED BY <1>4, <1>5 DEF StreamInv

\* No step of the run plane, overlapping deliveries included, breaks the stream facts.
LEMMA StreamStep == TypeOK /\ StreamInv /\ [Next]_vars => StreamInv'
<1> SUFFICES ASSUME TypeOK, StreamInv, [Next]_vars PROVE StreamInv'
  OBVIOUS
<1>1. ASSUME NEW r \in Runs, NEW o \in Runs \cup {NoRun}, InsertRun(r, o) PROVE StreamInv'
  <2>1. /\ events[r] = <<>>
        /\ \A q \in Runs \ {r} : runState'[q] = runState[q]
        /\ UNCHANGED <<events, results, pc, held, seenState>>
    BY <1>1 DEF InsertRun, TypeOK, StreamInv, UntouchedHasNoEvent
  <2>2. UntouchedHasNoEvent'
    BY <2>1 DEF StreamInv, UntouchedHasNoEvent
  <2>3. WorkerBegan' /\ BegunNotCancelledQueued'
    BY <2>1 DEF StreamInv, WorkerBegan, BegunNotCancelledQueued, Begun
  <2>4. NotBegunIsCancelled'
    BY <2>1 DEF StreamInv, NotBegunIsCancelled, Begun
  <2>5. ResultHasEvent'
    BY <2>1 DEF StreamInv, ResultHasEvent
  <2> QED BY <2>2, <2>3, <2>4, <2>5 DEF StreamInv
<1>2. ASSUME NEW r \in Runs, CancelQueuedRun(r) PROVE StreamInv'
  <2>1. events[r] = <<>> /\ r \notin results
    BY <1>2 DEF CancelQueuedRun, StreamInv, UntouchedHasNoEvent, ResultHasEvent
  <2>2. /\ \A q \in Runs \ {r} : events'[q] = events[q] /\ runState'[q] = runState[q]
        /\ Len(events'[r]) = 1 /\ events'[r] # <<>>
        /\ events'[r][1].type = "RUN_CANCELLED"
        /\ runState'[r] = "cancelled"
        /\ results' = results
    BY <1>2, <2>1 DEF CancelQueuedRun, RecordEvent, TypeOK
  <2>3. ~Begun(r)' /\ \A q \in Runs \ {r} : Begun(q)' <=> Begun(q)
    BY <2>2 DEF Begun
  <2>4. UntouchedHasNoEvent' /\ BegunNotCancelledQueued'
    BY <2>2, <2>3 DEF StreamInv, UntouchedHasNoEvent, BegunNotCancelledQueued
  <2>5. NotBegunIsCancelled'
    BY <2>1, <2>2, <2>3 DEF StreamInv, NotBegunIsCancelled
  <2>6. ResultHasEvent'
    BY <2>1, <2>2 DEF StreamInv, ResultHasEvent
  <2>7. WorkerBegan'
    BY <1>2, <2>1, <2>3, HolderHasRun DEF StreamInv, WorkerBegan, Begun, CancelQueuedRun
  <2> QED BY <2>4, <2>5, <2>6, <2>7 DEF StreamInv
<1>3. ASSUME NEW r \in Runs, RequestWorkerCancellation(r) PROVE StreamInv'
  BY <1>3, QuietStep DEF RequestWorkerCancellation, StreamInv, WorkerBegan, Begun
<1>4. ASSUME NEW w \in Workers, NEW r \in Runs, Receive(w, r) PROVE StreamInv'
  BY <1>4, QuietStep DEF Receive, StreamInv, WorkerBegan, Begun, TypeOK
<1>5. ASSUME NEW w \in Workers, Release(w), UNCHANGED <<runState, events, results>>
      PROVE  StreamInv'
  BY <1>5, QuietStep, ReleaseKeepsWorkers DEF StreamInv, Begun
<1>6. ASSUME NEW w \in Workers, Claim(w) PROVE StreamInv'
  <2> DEFINE r == held[w]
  <2>1. r \in Runs
    BY <1>6, HolderHasRun DEF Claim
  <2>2. runState[r] \in RunStates /\ RecordEvent(r, "RUN_STARTED", runState[r], "provisioning")
    BY <1>6, <2>1 DEF Claim, TypeOK
  <2>3. Begun(r) \/ events[r] = <<>>
    BY <1>6, <2>1 DEF Claim, StreamInv, NotBegunIsCancelled
  <2>4. /\ \A q \in Runs \ {r} : runState'[q] = runState[q]
        /\ runState'[r] = "provisioning"
        /\ results' = results
    BY <1>6, <2>1 DEF Claim, TypeOK
  <2>5. /\ UntouchedHasNoEvent' /\ BegunNotCancelledQueued' /\ NotBegunIsCancelled'
        /\ ResultHasEvent'
        /\ \A q \in Runs : Begun(q) \/ q = r => Begun(q)'
    <3> HIDE DEF r
    <3> QED BY <2>1, <2>2, <2>3, <2>4, RecordKeepsStream
  <2>6. WorkerBegan'
    BY <1>6, <2>5, HolderHasRun DEF Claim, StreamInv, WorkerBegan, TypeOK
  <2> QED BY <2>5, <2>6 DEF StreamInv
<1>7. ASSUME NEW w \in Workers, Checkpoint(w) PROVE StreamInv'
  <2>1. WorkerBegan'
    BY <1>7, WorkingRun DEF Checkpoint, StreamInv, WorkerBegan, Begun, TypeOK
  <2> QED BY <1>7, <2>1, QuietStep DEF Checkpoint
<1>8. ASSUME NEW w \in Workers, NEW again \in BOOLEAN, CancelRun(w, again) PROVE StreamInv'
  BY <1>8, FinishKeepsStream DEF CancelRun
<1>9. ASSUME NEW w \in Workers, Resolve(w) PROVE StreamInv'
  BY <1>9, QuietStep DEF Resolve, StreamInv, WorkerBegan, Begun, TypeOK
<1>10. ASSUME NEW w \in Workers, NEW again \in BOOLEAN, FailRun(w, again) PROVE StreamInv'
  BY <1>10, FinishKeepsStream DEF FailRun
<1>11. ASSUME NEW w \in Workers, StartReplay(w) PROVE StreamInv'
  <2> DEFINE r == held[w]
  <2>1. r \in Runs /\ Begun(r)
    BY <1>11, WorkingRun DEF StartReplay
  <2>2. RecordEvent(r, "RUN_STAGE_CHANGED", "provisioning", "running")
    BY <1>11 DEF StartReplay
  <2>3. /\ \A q \in Runs \ {r} : runState'[q] = runState[q]
        /\ runState'[r] \notin {"absent", "queued"}
        /\ results' = results
    BY <1>11, WorkingRun DEF StartReplay, Flush, TypeOK
  <2>4. /\ UntouchedHasNoEvent' /\ BegunNotCancelledQueued' /\ NotBegunIsCancelled'
        /\ ResultHasEvent'
        /\ \A q \in Runs : Begun(q) => Begun(q)'
    <3> HIDE DEF r
    <3> QED BY <2>1, <2>2, <2>3, RecordKeepsStream
  <2>5. WorkerBegan'
    BY <1>11, <2>1, <2>4, HolderHasRun DEF StartReplay, StreamInv, WorkerBegan, TypeOK
  <2> QED BY <2>4, <2>5 DEF StreamInv
<1>12. ASSUME NEW w \in Workers, NEW again \in BOOLEAN, Succeed(w, again) PROVE StreamInv'
  BY <1>12, FinishKeepsStream DEF Succeed, AtResult
<1>13. ASSUME UNCHANGED <<runState, events, results, pc, held, seenState>> PROVE StreamInv'
  BY <1>13, QuietStep DEF StreamInv, WorkerBegan, Begun
<1> QED
  BY <1>1, <1>2, <1>3, <1>4, <1>5, <1>6, <1>7, <1>8, <1>9, <1>10, <1>11, <1>12, <1>13
  DEF Next, Command, Execute, Sweep, Dispatch, Admit, AdmitByRunner, DiscardUnknown,
      ReplayTerminal, ResultConflict, Lose, Unwind, RecoverStaleJob, Redeliver, vars

\* The invariant holds always.
LEMMA StreamInvariant == Spec => [](TypeOK /\ StreamInv)
<1>1. Init => StreamInv
  BY DEF Init, StreamInv, UntouchedHasNoEvent, WorkerBegan, BegunNotCancelledQueued,
         NotBegunIsCancelled, ResultHasEvent, Begun
<1> QED BY <1>1, TypeCorrect, StreamStep, PTL DEF Spec

\* The UNIQUE Result and its RUN_SUCCEEDED event agree, for any overlap of deliveries.
THEOREM OneResult == Spec => []OneResultPerRun
  BY StreamInvariant, StreamInvImplies, PTL

\* No delivery undoes a cancel that found the run queued, for any overlap.
THEOREM QueuedCancelFinal == Spec => []QueuedCancelIsFinal
  BY StreamInvariant, StreamInvImplies, PTL

-----------------------------------------------------------------------------
(* When deliveries do not overlap *)

\* A job has one delivery at most: in the broker or in one thread.
OneDelivery ==
  /\ \A r \in Runs : msgs[r] \in {0, 1}
  /\ \A r \in Runs : msgs[r] = 1 => ~Held(r)
  /\ \A v, w \in Workers : held[v] = held[w] /\ held[v] # NoRun => v = w

\* The stage a unit of work belongs to.
StageOf(n) == IF n <= Items THEN "provisioning" ELSE "running"

\* What a thread at work remembers is what the database holds.
SessionIsFresh ==
  \A w \in Workers :
    pc[w] \in Working =>
      /\ runState[held[w]] = StageOf(step[w])
      /\ seenState[w] = StageOf(step[w])
      /\ jobStatus[held[w]] = "running"
      /\ seenJob[w] = "running"

\* A thread that has not claimed yet is at the first unit, and its copy of the
\* job is current unless the run ended meanwhile.
ReceivedIsFresh ==
  \A w \in Workers :
    /\ pc[w] \notin Working => step[w] = 0
    /\ pc[w] = "received" =>
         seenJob[w] = jobStatus[held[w]] \/ runState[held[w]] \in RunTerminal

\* Before the first claim, run and job say the same; nobody holds a run without
\* rows, and before its admission has sent anything nothing waits for it.
QueuedTogether ==
  \A r \in Runs :
    /\ runState[r] = "absent" <=> jobStatus[r] = "absent"
    /\ runState[r] = "absent" => ~Held(r)
    /\ runState[r] = "absent" /\ r \notin dispatched => msgs[r] = 0
    /\ runState[r] = "queued" => jobStatus[r] = "queued"

\* A thread stops only a run that was asked to stop.
CancellingIsAsked ==
  \A w \in Workers : pc[w] = "cancelling" => cancelRequested[held[w]]

SingleInv ==
  /\ OneDelivery
  /\ SessionIsFresh
  /\ ReceivedIsFresh
  /\ QueuedTogether
  /\ CancellingIsAsked
  /\ OnlySuccessHasResult
  /\ JobFollowsRun

\* A thread that lets its delivery go, back to the broker or for good, leaves at
\* most one delivery of that run.
LEMMA ReleaseKeepsOneDelivery ==
  ASSUME TypeOK, OneDelivery, NEW w \in Workers, pc[w] # "idle", Release(w),
         NEW again \in BOOLEAN, Send(held[w], again) \/ msgs' = msgs
  PROVE  OneDelivery'
<1>1. /\ held[w] \in Runs /\ held'[w] = NoRun
      /\ \A v \in Workers \ {w} : held'[v] = held[v] /\ held[v] # held[w]
  BY HolderHasRun, NoRunAssumption DEF Release, OneDelivery, TypeOK
<1>2. \A r \in Runs : Held(r)' => Held(r) /\ r # held[w]
  BY <1>1, NoRunAssumption DEF Held
<1>3. msgs[held[w]] = 0
  BY <1>1 DEF OneDelivery, Held
<1>4. /\ \A r \in Runs \ {held[w]} : msgs'[r] = msgs[r]
      /\ msgs'[held[w]] \in {0, 1}
  BY <1>1, <1>3 DEF Send, TypeOK
<1>5. \A r \in Runs : msgs'[r] \in {0, 1}
  BY <1>4 DEF OneDelivery
<1>6. \A r \in Runs : msgs'[r] = 1 => ~Held(r)'
  BY <1>2, <1>4 DEF OneDelivery
<1>7. \A u, v \in Workers : held'[u] = held'[v] /\ held'[u] # NoRun => u = v
  BY <1>1 DEF OneDelivery
<1> QED BY <1>5, <1>6, <1>7 DEF OneDelivery

\* The terminal write, from a fresh session, ends the run it holds.
LEMMA FinishKeepsSingle ==
  ASSUME TypeOK, SingleInv, NEW w \in Workers, pc[w] \in Working,
         NEW type \in EventTypes, NEW state \in RunTerminal,
         NEW status \in {"succeeded", "cancelled"},
         NEW again \in BOOLEAN,
         Finish(w, type, state, status, again),
         results' = IF state = "succeeded" THEN results \cup {held[w]} ELSE results
  PROVE  /\ SingleInv'
         /\ runState' = [runState EXCEPT ![held[w]] = state]
         /\ runState[held[w]] = StageOf(step[w])
<1> DEFINE r == held[w]
<1>1. /\ r \in Runs
      /\ runState[r] = StageOf(step[w]) /\ seenState[w] = StageOf(step[w])
      /\ jobStatus[r] = "running" /\ seenJob[w] = "running"
  BY HolderHasRun DEF SingleInv, SessionIsFresh
<1>2. runState' = [runState EXCEPT ![r] = state] /\ jobStatus' = [jobStatus EXCEPT ![r] = status]
  BY <1>1 DEF Finish, Flush, StageOf
<1>3. \A v \in Workers \ {w} :
        held'[v] = held[v] /\ pc'[v] = pc[v] /\ (pc[v] # "idle" => held[v] # r)
  BY <1>1, HolderHasRun, NoRunAssumption DEF Finish, Release, SingleInv, OneDelivery, TypeOK
<1>4. pc'[w] = "idle" /\ held'[w] = NoRun /\ step'[w] = 0
  BY DEF Finish, Release, TypeOK
<1>5. OneDelivery'
  BY ReleaseKeepsOneDelivery DEF Finish, SingleInv, Working
<1>6. SessionIsFresh' /\ ReceivedIsFresh' /\ CancellingIsAsked'
  <2>1. \A v \in Workers \ {w} : /\ step'[v] = step[v] /\ seenState'[v] = seenState[v]
                                 /\ seenJob'[v] = seenJob[v]
    BY DEF Finish, Release, TypeOK
  <2>2. \A q \in Runs \ {r} : runState'[q] = runState[q] /\ jobStatus'[q] = jobStatus[q]
    BY <1>2 DEF TypeOK
  <2>3. cancelRequested' = cancelRequested
    BY DEF Finish
  <2>4. \A v \in Workers : pc[v] # "idle" => held[v] \in Runs
    BY HolderHasRun
  <2> QED BY <1>3, <1>4, <2>1, <2>2, <2>3, <2>4
          DEF SingleInv, SessionIsFresh, ReceivedIsFresh, CancellingIsAsked
<1>7. QueuedTogether'
  <2>1. \A q \in Runs \ {r} : /\ runState'[q] = runState[q] /\ jobStatus'[q] = jobStatus[q]
                             /\ msgs'[q] = msgs[q]
    BY <1>1, <1>2 DEF Finish, Send, TypeOK
  <2>0. dispatched' = dispatched /\ jobStatus'[r] # "absent"
    BY <1>1, <1>2 DEF Finish, TypeOK
  <2>2. \A q \in Runs : Held(q)' => Held(q)
    BY <1>3, <1>4, NoRunAssumption DEF Held
  <2>3. runState'[r] \in RunTerminal
    BY <1>1, <1>2 DEF TypeOK
  <2> QED BY <2>0, <2>1, <2>2, <2>3 DEF SingleInv, QueuedTogether
<1>8. OnlySuccessHasResult' /\ JobFollowsRun'
  BY <1>1, <1>2 DEF SingleInv, OnlySuccessHasResult, JobFollowsRun, TypeOK, StageOf
<1> QED BY <1>1, <1>2, <1>5, <1>6, <1>7, <1>8 DEF SingleInv

\* Letting a delivery go without a commit disturbs nothing else.
LEMMA UnwindKeepsSingle ==
  ASSUME TypeOK, SingleInv, NEW w \in Workers, pc[w] # "idle",
         NEW again \in BOOLEAN, Send(held[w], again) \/ msgs' = msgs,
         Release(w), UNCHANGED <<runVars, jobVars, results>>
  PROVE  SingleInv'
<1>1. OneDelivery'
  BY ReleaseKeepsOneDelivery DEF SingleInv
<1>2. /\ \A v \in Workers \ {w} : /\ pc'[v] = pc[v] /\ held'[v] = held[v] /\ step'[v] = step[v]
                                 /\ seenState'[v] = seenState[v] /\ seenJob'[v] = seenJob[v]
      /\ pc'[w] = "idle" /\ held'[w] = NoRun /\ step'[w] = 0
  BY DEF Release, TypeOK
<1>3. SessionIsFresh' /\ ReceivedIsFresh' /\ CancellingIsAsked'
  BY <1>2 DEF SingleInv, SessionIsFresh, ReceivedIsFresh, CancellingIsAsked
<1>4. \A r \in Runs : /\ runState[r] = "absent" /\ r \notin dispatched => msgs'[r] = 0
                      /\ Held(r)' => Held(r)
  <2>1. held[w] \in Runs /\ Held(held[w])
    BY HolderHasRun DEF Held
  <2>2. runState[held[w]] # "absent"
    BY <2>1 DEF SingleInv, QueuedTogether
  <2>3. \A r \in Runs \ {held[w]} : msgs'[r] = msgs[r]
    BY <2>1 DEF Send, TypeOK
  <2>4. \A r \in Runs : Held(r)' => Held(r)
    BY <1>2, NoRunAssumption DEF Held
  <2> QED BY <2>2, <2>3, <2>4 DEF SingleInv, QueuedTogether
<1>5. QueuedTogether'
  BY <1>4 DEF SingleInv, QueuedTogether
<1> QED BY <1>1, <1>3, <1>5 DEF SingleInv, OnlySuccessHasResult, JobFollowsRun

\* A step of the thread w that keeps every delivery where it is.
LEMMA DeliveryFrame ==
  ASSUME SingleInv, UNCHANGED <<held, msgs>>
  PROVE  OneDelivery' /\ \A r \in Runs : Held(r)' <=> Held(r)
  BY DEF SingleInv, OneDelivery, Held

\* The step of a thread that holds r leaves what every other thread relies on,
\* when it changes no other run and no other thread.
LEMMA OthersKeepSessions ==
  ASSUME TypeOK, SingleInv, NEW w \in Workers, pc[w] # "idle", held' = held,
         \A v \in Workers \ {w} : /\ pc'[v] = pc[v] /\ step'[v] = step[v]
                                 /\ seenState'[v] = seenState[v] /\ seenJob'[v] = seenJob[v],
         \A q \in Runs \ {held[w]} : /\ runState'[q] = runState[q]
                                     /\ jobStatus'[q] = jobStatus[q],
         cancelRequested' = cancelRequested,
         pc'[w] \in Working =>
           /\ runState'[held[w]] = StageOf(step'[w]) /\ seenState'[w] = StageOf(step'[w])
           /\ jobStatus'[held[w]] = "running" /\ seenJob'[w] = "running",
         pc'[w] \in Working,
         pc'[w] = "cancelling" => cancelRequested[held[w]]
  PROVE  SessionIsFresh' /\ ReceivedIsFresh' /\ CancellingIsAsked'
<1>1. held[w] \in Runs /\ held[w] # NoRun
  BY HolderHasRun, NoRunAssumption
<1>2. \A v \in Workers \ {w} : pc[v] # "idle" => held[v] \in Runs \ {held[w]}
  BY <1>1, HolderHasRun DEF SingleInv, OneDelivery
<1>3. \A v \in Workers : StageOf(step[v])' = StageOf(step'[v])
  BY DEF StageOf
<1>4. SessionIsFresh'
  BY <1>1, <1>2, <1>3 DEF SingleInv, SessionIsFresh, StageOf
<1>5. ReceivedIsFresh'
  BY <1>1, <1>2 DEF SingleInv, ReceivedIsFresh
<1>6. CancellingIsAsked'
  BY <1>1, <1>2 DEF SingleInv, CancellingIsAsked
<1> QED BY <1>4, <1>5, <1>6

\* Without overlapping deliveries, every step keeps the single-delivery invariant.
LEMMA SingleStep == TypeOK /\ SingleInv /\ SingleDelivery /\ [Next]_vars => SingleInv'
<1> SUFFICES ASSUME TypeOK, SingleInv, SingleDelivery, [Next]_vars PROVE SingleInv'
  OBVIOUS
<1> USE DEF SingleInv
<1>1. ASSUME NEW r \in Runs, NEW o \in Runs \cup {NoRun}, InsertRun(r, o),
             \/ r \in dispatched /\ UNCHANGED <<dispatched, msgs>>
             \/ /\ r \notin dispatched /\ dispatched' = dispatched \cup {r}
                /\ \E sent \in BOOLEAN : Send(r, sent)
      PROVE  SingleInv'
  <2>1. /\ runState[r] = "absent" /\ jobStatus[r] = "absent" /\ ~Held(r)
        /\ runState'[r] = "queued" /\ jobStatus'[r] = "queued" /\ msgs'[r] \in {0, 1}
        /\ \A q \in Runs \ {r} : runState'[q] = runState[q] /\ jobStatus'[q] = jobStatus[q]
                                /\ msgs'[q] = msgs[q] /\ (q \in dispatched <=> q \in dispatched')
    <3>1. msgs[r] \in {0, 1} /\ (r \notin dispatched => msgs[r] = 0)
      BY <1>1 DEF InsertRun, OneDelivery, QueuedTogether
    <3>2. msgs'[r] \in {0, 1} /\ \A q \in Runs \ {r} : msgs'[q] = msgs[q]
      BY <1>1, <3>1 DEF Send, TypeOK
    <3> QED BY <1>1, <3>2 DEF InsertRun, QueuedTogether, TypeOK
  <2>2. UNCHANGED <<cancelRequested, results, pc, held, seenState, seenJob, step>>
    BY <1>1 DEF InsertRun
  <2>3. \A q \in Runs : Held(q)' <=> Held(q)
    BY <2>2 DEF Held
  <2>4. \A v \in Workers : pc[v] # "idle" => held[v] \in Runs \ {r}
    BY <2>1, HolderHasRun DEF Held
  <2>5. OneDelivery'
    BY <2>1, <2>2, <2>3 DEF OneDelivery
  <2>6. SessionIsFresh' /\ ReceivedIsFresh' /\ CancellingIsAsked'
    BY <2>1, <2>2, <2>4 DEF SessionIsFresh, ReceivedIsFresh, CancellingIsAsked, StageOf
  <2>7. QueuedTogether'
    BY <2>1, <2>3 DEF QueuedTogether
  <2>8. OnlySuccessHasResult' /\ JobFollowsRun'
    BY <2>1, <2>2 DEF OnlySuccessHasResult, JobFollowsRun
  <2> QED BY <2>5, <2>6, <2>7, <2>8
<1>2. ASSUME NEW r \in Runs, CancelQueuedRun(r) PROVE SingleInv'
  <2>1. /\ runState[r] = "queued" /\ jobStatus[r] = "queued"
        /\ runState'[r] = "cancelled" /\ jobStatus'[r] = "cancelled" /\ cancelRequested'[r]
        /\ \A q \in Runs \ {r} : /\ runState'[q] = runState[q] /\ jobStatus'[q] = jobStatus[q]
                                /\ cancelRequested'[q] = cancelRequested[q]
    BY <1>2 DEF CancelQueuedRun, QueuedTogether, TypeOK
  <2>2. UNCHANGED <<dispatched, results, msgs, pc, held, seenState, seenJob, step>>
    BY <1>2 DEF CancelQueuedRun
  <2>3. \A v \in Workers : pc[v] \in Working => held[v] \in Runs \ {r}
    BY <2>1, HolderHasRun DEF SessionIsFresh
  <2>4. \A v \in Workers : pc[v] = "received" => held[v] \in Runs
    BY HolderHasRun
  <2>5. OneDelivery' /\ \A q \in Runs : Held(q)' <=> Held(q)
    BY <2>2, DeliveryFrame
  <2>6. SessionIsFresh' /\ ReceivedIsFresh' /\ CancellingIsAsked'
    BY <2>1, <2>2, <2>3, <2>4 DEF SessionIsFresh, ReceivedIsFresh, CancellingIsAsked, StageOf
  <2>7. QueuedTogether'
    BY <2>1, <2>2, <2>5 DEF QueuedTogether
  <2>8. OnlySuccessHasResult' /\ JobFollowsRun'
    BY <2>1, <2>2 DEF OnlySuccessHasResult, JobFollowsRun
  <2> QED BY <2>5, <2>6, <2>7, <2>8
<1>3. ASSUME NEW r \in Runs, RequestWorkerCancellation(r) PROVE SingleInv'
  <2>1. /\ \A q \in Runs : cancelRequested[q] => cancelRequested'[q]
        /\ UNCHANGED <<dispatched, runState, jobStatus, results, msgs, pc, held, seenState, seenJob, step>>
    BY <1>3 DEF RequestWorkerCancellation, TypeOK
  <2>2. CancellingIsAsked'
    BY <2>1, HolderHasRun DEF CancellingIsAsked
  <2>3. OneDelivery' /\ \A q \in Runs : Held(q)' <=> Held(q)
    BY <2>1, DeliveryFrame
  <2> QED BY <2>1, <2>2, <2>3
          DEF SessionIsFresh, ReceivedIsFresh, QueuedTogether, OnlySuccessHasResult,
              JobFollowsRun, StageOf
<1>4. ASSUME NEW w \in Workers, NEW r \in Runs, Receive(w, r) PROVE SingleInv'
  <2>1. /\ held[w] = NoRun /\ msgs[r] = 1 /\ ~Held(r) /\ pc[w] = "idle" /\ step[w] = 0
    <3>1. pc[w] = "idle" /\ msgs[r] > 0 /\ held[w] = NoRun
      BY <1>4 DEF Receive, TypeOK
    <3> QED BY <3>1 DEF OneDelivery, ReceivedIsFresh
  <2>2. /\ msgs'[r] = 0 /\ \A q \in Runs \ {r} : msgs'[q] = msgs[q]
        /\ pc'[w] = "received" /\ held'[w] = r /\ seenJob'[w] = jobStatus[r]
        /\ \A v \in Workers \ {w} : pc'[v] = pc[v] /\ held'[v] = held[v] /\ seenJob'[v] = seenJob[v]
        /\ UNCHANGED <<dispatched, runState, cancelRequested, jobStatus, results, seenState, step>>
    BY <1>4, <2>1 DEF Receive, TypeOK
  <2>3. \A q \in Runs \ {r} : Held(q)' => Held(q)
    BY <2>2 DEF Held
  <2>4. OneDelivery'
    <3>1. \A u, v \in Workers : held'[u] = held'[v] /\ held'[u] # NoRun => u = v
      BY <2>1, <2>2 DEF OneDelivery, Held
    <3>2. \A q \in Runs : msgs'[q] = 1 => ~Held(q)'
      BY <2>2, <2>3 DEF OneDelivery
    <3> QED BY <2>2, <3>1, <3>2 DEF OneDelivery
  <2>5. SessionIsFresh' /\ ReceivedIsFresh' /\ CancellingIsAsked'
    BY <2>1, <2>2 DEF SessionIsFresh, ReceivedIsFresh, CancellingIsAsked, StageOf
  <2>6. QueuedTogether'
    <3>1. runState[r] # "absent"
      BY <1>4 DEF Receive, QueuedTogether
    <3> QED BY <2>1, <2>2, <2>3, <3>1 DEF QueuedTogether
  <2> QED BY <2>2, <2>4, <2>5, <2>6 DEF OnlySuccessHasResult, JobFollowsRun
<1>5. ASSUME NEW w \in Workers, Claim(w) PROVE SingleInv'
  <2>1. /\ held[w] \in Runs /\ pc[w] = "received" /\ step[w] = 0
        /\ seenJob[w] = jobStatus[held[w]] /\ runState[held[w]] \notin RunTerminal
        /\ jobStatus[held[w]] \notin {"succeeded", "cancelled"} /\ held[w] \notin results
        /\ runState[held[w]] # "absent"
    BY <1>5, HolderHasRun
    DEF Claim, ReceivedIsFresh, JobFollowsRun, OnlySuccessHasResult, QueuedTogether, Held
  <2>2. /\ runState' = [runState EXCEPT ![held[w]] = "provisioning"]
        /\ jobStatus' = [jobStatus EXCEPT ![held[w]] = "running"]
    BY <1>5, <2>1 DEF Claim, Flush
  <2>3. /\ pc'[w] = "checkpoint" /\ seenState'[w] = "provisioning" /\ seenJob'[w] = "running"
        /\ \A v \in Workers \ {w} : pc'[v] = pc[v] /\ seenState'[v] = seenState[v] /\ seenJob'[v] = seenJob[v]
        /\ UNCHANGED <<dispatched, cancelRequested, results, msgs, held, step>>
    BY <1>5 DEF Claim, TypeOK
  <2>4. StageOf(step[w]) = "provisioning"
    BY <2>1, ItemsAssumption DEF StageOf
  <2>5. SessionIsFresh' /\ ReceivedIsFresh' /\ CancellingIsAsked'
    BY <2>1, <2>2, <2>3, <2>4, OthersKeepSessions DEF TypeOK
  <2>6. OneDelivery' /\ \A q \in Runs : Held(q)' <=> Held(q)
    BY <2>3, DeliveryFrame
  <2>7. QueuedTogether' /\ OnlySuccessHasResult' /\ JobFollowsRun'
    BY <2>1, <2>2, <2>3, <2>6
    DEF QueuedTogether, OnlySuccessHasResult, JobFollowsRun, TypeOK
  <2> QED BY <2>5, <2>6, <2>7
<1>6. ASSUME NEW w \in Workers, Checkpoint(w) PROVE SingleInv'
  <2>1. /\ held[w] \in Runs /\ pc[w] \in Working
        /\ pc'[w] \in Working /\ (pc'[w] = "cancelling" => cancelRequested[held[w]])
        /\ seenState'[w] = runState[held[w]]
        /\ \A v \in Workers \ {w} : pc'[v] = pc[v] /\ seenState'[v] = seenState[v]
        /\ UNCHANGED <<dispatched, runState, cancelRequested, jobStatus, results, msgs, held, seenJob, step>>
    BY <1>6, HolderHasRun DEF Checkpoint, TypeOK
  <2>2. SessionIsFresh' /\ ReceivedIsFresh' /\ CancellingIsAsked'
    BY <2>1, OthersKeepSessions DEF SessionIsFresh
  <2>3. OneDelivery' /\ \A q \in Runs : Held(q)' <=> Held(q)
    BY <2>1, DeliveryFrame
  <2> QED BY <2>1, <2>2, <2>3 DEF QueuedTogether, OnlySuccessHasResult, JobFollowsRun
<1>7. ASSUME NEW w \in Workers, Resolve(w) PROVE SingleInv'
  <2>1. /\ held[w] \in Runs /\ pc[w] \in Working
        /\ pc'[w] = "checkpoint" /\ step'[w] = step[w] + 1
        /\ \A v \in Workers \ {w} : pc'[v] = pc[v] /\ step'[v] = step[v]
        /\ UNCHANGED <<dispatched, runState, cancelRequested, jobStatus, results, msgs, held, seenState, seenJob>>
    BY <1>7, HolderHasRun DEF Resolve, TypeOK
  <2>2. StageOf(step[w] + 1) = StageOf(step[w])
    BY <1>7, ItemsAssumption, StepFacts DEF Resolve, StageOf, TypeOK
  <2>3. SessionIsFresh' /\ ReceivedIsFresh' /\ CancellingIsAsked'
    BY <2>1, <2>2, OthersKeepSessions DEF SessionIsFresh
  <2>4. OneDelivery' /\ \A q \in Runs : Held(q)' <=> Held(q)
    BY <2>1, DeliveryFrame
  <2> QED BY <2>1, <2>3, <2>4 DEF QueuedTogether, OnlySuccessHasResult, JobFollowsRun
<1>8. ASSUME NEW w \in Workers, StartReplay(w) PROVE SingleInv'
  <2>1. /\ held[w] \in Runs /\ pc[w] \in Working
        /\ runState[held[w]] = "provisioning" /\ seenState[w] = "provisioning"
        /\ jobStatus[held[w]] = "running" /\ seenJob[w] = "running"
    BY <1>8, HolderHasRun, ItemsAssumption DEF StartReplay, SessionIsFresh, StageOf
  <2>2. runState' = [runState EXCEPT ![held[w]] = "running"]
    BY <1>8, <2>1 DEF StartReplay, Flush
  <2>3. /\ pc'[w] = "checkpoint" /\ step'[w] = Items + 1 /\ seenState'[w] = "running"
        /\ \A v \in Workers \ {w} : pc'[v] = pc[v] /\ step'[v] = step[v] /\ seenState'[v] = seenState[v]
        /\ UNCHANGED <<dispatched, cancelRequested, jobStatus, results, msgs, held, seenJob>>
    BY <1>8 DEF StartReplay, TypeOK
  <2>4. StageOf(Items + 1) = "running"
    BY ItemsAssumption DEF StageOf
  <2>5. SessionIsFresh' /\ ReceivedIsFresh' /\ CancellingIsAsked'
    BY <2>1, <2>2, <2>3, <2>4, OthersKeepSessions DEF TypeOK
  <2>6. OneDelivery' /\ \A q \in Runs : Held(q)' <=> Held(q)
    BY <2>3, DeliveryFrame
  <2>7. QueuedTogether' /\ OnlySuccessHasResult' /\ JobFollowsRun'
    BY <2>1, <2>2, <2>3, <2>6
    DEF QueuedTogether, OnlySuccessHasResult, JobFollowsRun, TypeOK
  <2> QED BY <2>5, <2>6, <2>7
<1>9. ASSUME NEW w \in Workers, NEW again \in BOOLEAN, CancelRun(w, again) PROVE SingleInv'
  BY <1>9, FinishKeepsSingle DEF CancelRun
<1>10. ASSUME NEW w \in Workers, NEW again \in BOOLEAN, FailRun(w, again) PROVE SingleInv'
  BY <1>10, FinishKeepsSingle DEF FailRun
<1>11. ASSUME NEW w \in Workers, NEW again \in BOOLEAN, Succeed(w, again) PROVE SingleInv'
  BY <1>11, FinishKeepsSingle DEF Succeed, AtResult
<1>12. ASSUME NEW w \in Workers, ReplayTerminal(w) PROVE SingleInv'
  BY <1>12, UnwindKeepsSingle DEF ReplayTerminal
<1>13. ASSUME NEW w \in Workers, NEW retried \in BOOLEAN,
              ResultConflict(w, retried) \/ Lose(w, retried)
       PROVE  SingleInv'
  BY <1>13, UnwindKeepsSingle DEF ResultConflict, Lose, Unwind, AtResult
<1>14. ASSUME NEW r \in Runs, NEW sent \in BOOLEAN, RecoverStaleJob(r, sent) PROVE SingleInv'
  <2>1. /\ jobStatus[r] = "running" /\ msgs[r] = 0 /\ ~Held(r)
        /\ jobStatus'[r] \in {"failed_final", "queued"} /\ msgs'[r] \in {0, 1}
        /\ \A q \in Runs \ {r} : jobStatus'[q] = jobStatus[q] /\ msgs'[q] = msgs[q]
        /\ UNCHANGED <<dispatched, runState, cancelRequested, results, pc, held, seenState, seenJob, step>>
    BY <1>14 DEF RecoverStaleJob, Send, TypeOK
  <2>2. \A q \in Runs : Held(q)' <=> Held(q)
    BY <2>1 DEF Held
  <2>3. \A v \in Workers : pc[v] # "idle" => held[v] \in Runs \ {r}
    BY <2>1, HolderHasRun DEF Held
  <2>4. OneDelivery'
    BY <2>1, <2>2 DEF OneDelivery
  <2>5. SessionIsFresh' /\ ReceivedIsFresh' /\ CancellingIsAsked'
    BY <2>1, <2>3 DEF SessionIsFresh, ReceivedIsFresh, CancellingIsAsked, StageOf
  <2>6. runState[r] \notin {"absent", "queued"}
    BY <2>1 DEF QueuedTogether
  <2>7. QueuedTogether' /\ OnlySuccessHasResult' /\ JobFollowsRun'
    BY <2>1, <2>2, <2>6 DEF QueuedTogether, OnlySuccessHasResult, JobFollowsRun
  <2> QED BY <2>4, <2>5, <2>7
<1>15. ASSUME NEW r \in Runs, Redeliver(r) PROVE SingleInv'
  <2>1. /\ jobStatus[r] = "queued" /\ msgs[r] = 0 /\ ~Held(r) /\ msgs'[r] \in {0, 1}
        /\ \A q \in Runs \ {r} : msgs'[q] = msgs[q]
        /\ UNCHANGED <<dispatched, runState, cancelRequested, jobStatus, results, pc, held, seenState, seenJob, step>>
    BY <1>15 DEF Redeliver, Send, TypeOK
  <2>2. \A q \in Runs : Held(q)' <=> Held(q)
    BY <2>1 DEF Held
  <2>3. OneDelivery'
    BY <2>1, <2>2 DEF OneDelivery
  <2>4. QueuedTogether'
    BY <2>1, <2>2 DEF QueuedTogether
  <2> QED BY <2>1, <2>3, <2>4
          DEF SessionIsFresh, ReceivedIsFresh, CancellingIsAsked, OnlySuccessHasResult,
              JobFollowsRun, StageOf
<1>16. ASSUME NEW r \in Runs, Dispatch(r, TRUE) \/ Dispatch(r, FALSE) \/ DiscardUnknown(r)
       PROVE  SingleInv'
  <2>1. /\ jobStatus[r] = "absent" /\ ~Held(r) /\ msgs'[r] \in {0, 1}
        /\ runState[r] = "absent" /\ (r \notin dispatched' => msgs'[r] = 0)
        /\ \A q \in Runs \ {r} : msgs'[q] = msgs[q] /\ (q \in dispatched <=> q \in dispatched')
        /\ UNCHANGED <<runState, cancelRequested, jobStatus, results, pc, held, seenState, seenJob, step>>
    <3>1. runState[r] = "absent" /\ jobStatus[r] = "absent" /\ ~Held(r)
      BY <1>16 DEF Dispatch, DiscardUnknown, QueuedTogether, JobFollowsRun, TypeOK
    <3>2. msgs[r] \in {0, 1} /\ (r \notin dispatched => msgs[r] = 0)
      BY <3>1 DEF OneDelivery, QueuedTogether
    <3> QED BY <1>16, <3>1, <3>2 DEF Dispatch, DiscardUnknown, Send, TypeOK
  <2>2. \A q \in Runs : Held(q)' <=> Held(q)
    BY <2>1 DEF Held
  <2>3. OneDelivery'
    BY <2>1, <2>2 DEF OneDelivery
  <2>4. QueuedTogether'
    BY <2>1, <2>2 DEF QueuedTogether
  <2> QED BY <2>1, <2>3, <2>4
          DEF SessionIsFresh, ReceivedIsFresh, CancellingIsAsked, OnlySuccessHasResult,
              JobFollowsRun, StageOf
<1>17. CASE UNCHANGED vars
  BY <1>17, DeliveryFrame
  DEF vars, SessionIsFresh, ReceivedIsFresh, CancellingIsAsked, QueuedTogether,
      OnlySuccessHasResult, JobFollowsRun, StageOf
<1> QED
  <2>1. ASSUME NEW r \in Runs, Command(r) PROVE SingleInv'
    BY <2>1, <1>1, <1>2, <1>3, <1>16 DEF Command, Admit, AdmitByRunner
  <2> QED
    BY <2>1, <1>4, <1>5, <1>6, <1>7, <1>8, <1>9, <1>10, <1>11, <1>12, <1>13,
       <1>14, <1>15, <1>16, <1>17
    DEF Next, Execute, Sweep

\* The invariant of a single delivery holds always.
LEMMA SingleInvariant ==
  ASSUME SingleDelivery
  PROVE  Spec => [](TypeOK /\ SingleInv)
<1>1. Init => SingleInv
  BY NoRunAssumption
  DEF Init, SingleInv, OneDelivery, SessionIsFresh, ReceivedIsFresh, QueuedTogether,
      CancellingIsAsked, OnlySuccessHasResult, JobFollowsRun, Held
<1>2. TypeOK /\ SingleInv /\ [Next]_vars => SingleInv'
  BY SingleStep
<1> QED BY <1>1, <1>2, TypeCorrect, PTL DEF Spec

\* When deliveries do not overlap, a run has a Result exactly when it succeeded.
THEOREM ResultMeansSuccess ==
  ASSUME SingleDelivery
  PROVE  Spec => []OnlySuccessHasResult
<1>1. SingleInv => OnlySuccessHasResult
  BY DEF SingleInv
<1> QED BY <1>1, SingleInvariant, PTL

\* When deliveries do not overlap, the job ends when its run does.
THEOREM JobEndsWithRun ==
  ASSUME SingleDelivery
  PROVE  Spec => []JobFollowsRun
<1>1. SingleInv => JobFollowsRun
  BY DEF SingleInv
<1> QED BY <1>1, SingleInvariant, PTL

\* When deliveries do not overlap, one thread at most executes a run: what the
\* run lock alone does not give.
THEOREM SoleExecutor ==
  ASSUME SingleDelivery
  PROVE  Spec => []OneExecutor
<1>1. TypeOK /\ SingleInv => OneExecutor
  <2> SUFFICES ASSUME TypeOK, SingleInv, NEW v \in Workers, NEW w \in Workers,
                      pc[v] \in Working, held[v] = held[w]
               PROVE  v = w
    BY DEF OneExecutor
  <2> QED BY HolderHasRun, NoRunAssumption DEF SingleInv, OneDelivery
<1> QED BY <1>1, SingleInvariant, PTL

-----------------------------------------------------------------------------
(* Refinement *)

\* A terminal write is the matching step of the lifecycle, or changes nothing of it.
LEMMA FinishMaps ==
  ASSUME TypeOK, SingleInv, NEW w \in Workers, pc[w] \in Working,
         NEW type \in EventTypes, NEW state \in RunTerminal,
         NEW status \in {"succeeded", "cancelled"}, NEW again \in BOOLEAN,
         Finish(w, type, state, status, again)
  PROVE  /\ held[w] \in Runs
         /\ runState[held[w]] = StageOf(step[w])
         /\ runState[held[w]] \in {"provisioning", "running"}
         /\ runState' = [runState EXCEPT ![held[w]] = state]
         /\ cancelRequested' = cancelRequested
  BY HolderHasRun DEF SingleInv, SessionIsFresh, Finish, Flush, StageOf

\* Every step of the run plane is a step of the lifecycle or leaves it alone.
LEMMA LifecycleStep ==
  TypeOK /\ SingleInv /\ SingleDelivery /\ [Next]_vars => [Lifecycle!Next]_(Lifecycle!vars)
<1> SUFFICES ASSUME TypeOK, SingleInv, SingleDelivery, [Next]_vars
             PROVE  Lifecycle!Next \/ UNCHANGED <<runState, cancelRequested, results>>
  BY DEF Lifecycle!vars
<1> USE DEF Lifecycle!Move
<1>1. ASSUME NEW r \in Runs, NEW o, InsertRun(r, o) PROVE Lifecycle!Next
  BY <1>1 DEF InsertRun, Lifecycle!Next, Lifecycle!Admit
<1>2. ASSUME NEW r \in Runs, CancelQueuedRun(r) PROVE Lifecycle!Next
  BY <1>2 DEF CancelQueuedRun, Lifecycle!Next, Lifecycle!CancelQueued
<1>3. ASSUME NEW r \in Runs, RequestWorkerCancellation(r) PROVE Lifecycle!Next
  BY <1>3 DEF RequestWorkerCancellation, Lifecycle!Next, Lifecycle!AskToStop
<1>4. ASSUME NEW w \in Workers, Claim(w) PROVE Lifecycle!Next
  <2>1. held[w] \in Runs /\ runState[held[w]] \in RunActive
    <3>1. held[w] \in Runs /\ Held(held[w])
      BY <1>4, HolderHasRun DEF Claim, Held
    <3> QED BY <1>4, <3>1 DEF Claim, SingleInv, QueuedTogether, TypeOK
  <2>2. Lifecycle!Start(held[w])
    BY <1>4, <2>1 DEF Claim, Lifecycle!Start
  <2> QED BY <2>1, <2>2 DEF Lifecycle!Next
<1>5. ASSUME NEW w \in Workers, NEW again \in BOOLEAN, CancelRun(w, again) PROVE Lifecycle!Next
  <2>1. cancelRequested[held[w]] /\ pc[w] \in Working
    BY <1>5 DEF CancelRun, SingleInv, CancellingIsAsked
  <2>2. held[w] \in Runs /\ Lifecycle!Stop(held[w])
    BY <1>5, <2>1, FinishMaps DEF CancelRun, Lifecycle!Stop
  <2> QED BY <2>2 DEF Lifecycle!Next
<1>6. ASSUME NEW w \in Workers, NEW again \in BOOLEAN, FailRun(w, again) PROVE Lifecycle!Next
  <2>1. held[w] \in Runs /\ Lifecycle!Fail(held[w])
    BY <1>6, FinishMaps DEF FailRun, Lifecycle!Fail
  <2> QED BY <2>1 DEF Lifecycle!Next
<1>7. ASSUME NEW w \in Workers, StartReplay(w) PROVE Lifecycle!Next
  <2>1. /\ held[w] \in Runs /\ runState[held[w]] = "provisioning"
        /\ seenState[w] = "provisioning"
    BY <1>7, HolderHasRun, ItemsAssumption DEF StartReplay, SingleInv, SessionIsFresh, StageOf
  <2>2. Lifecycle!Replay(held[w])
    BY <1>7, <2>1 DEF StartReplay, Flush, Lifecycle!Replay
  <2> QED BY <2>1, <2>2 DEF Lifecycle!Next
<1>8. ASSUME NEW w \in Workers, NEW again \in BOOLEAN, Succeed(w, again) PROVE Lifecycle!Next
  <2>1. /\ held[w] \in Runs /\ runState[held[w]] = "running"
        /\ runState' = [runState EXCEPT ![held[w]] = "succeeded"]
        /\ cancelRequested' = cancelRequested
    <3>1. pc[w] \in Working /\ StageOf(step[w]) = "running"
      BY <1>8, ItemsAssumption DEF Succeed, AtResult, StageOf, LastStep
    <3> QED BY <1>8, <3>1, FinishMaps DEF Succeed
  <2>2. Lifecycle!Succeed(held[w])
    BY <1>8, <2>1 DEF Succeed, Lifecycle!Succeed
  <2>3. held[w] \in Runs
    BY <2>1
  <2> QED BY <2>2, <2>3 DEF Lifecycle!Next
<1>9. ASSUME UNCHANGED <<runVars, results>>
      PROVE  UNCHANGED <<runState, cancelRequested, results>>
  BY <1>9
<1> QED
  BY <1>1, <1>2, <1>3, <1>4, <1>5, <1>6, <1>7, <1>8, <1>9
  DEF Next, Command, Execute, Sweep, Admit, AdmitByRunner, Dispatch, DiscardUnknown, Receive, ReplayTerminal, Checkpoint, Resolve,
      ResultConflict, Lose, Unwind, RecoverStaleJob, Redeliver, vars

\* When deliveries do not overlap, the run plane implements the run lifecycle.
THEOREM Refinement ==
  ASSUME SingleDelivery
  PROVE  Spec => ImplementsLifecycle
<1>1. Init => Lifecycle!Init
  BY DEF Init, Lifecycle!Init
<1>2. TypeOK /\ SingleInv /\ [Next]_vars => [Lifecycle!Next]_(Lifecycle!vars)
  BY LifecycleStep
<1> QED BY <1>1, <1>2, SingleInvariant, PTL DEF Spec, ImplementsLifecycle, Lifecycle!Spec

\* When deliveries do not overlap, no step takes a run out of a terminal state.
THEOREM TerminalFinal ==
  ASSUME SingleDelivery
  PROVE  Spec => TerminalRunIsFinal
<1>1. ASSUME TypeOK, [Lifecycle!Next]_(Lifecycle!vars), NEW r \in Runs, runState[r] \in RunTerminal
      PROVE  runState'[r] = runState[r]
  BY <1>1
  DEF TypeOK, Lifecycle!vars, Lifecycle!Next, Lifecycle!Move, Lifecycle!Admit, Lifecycle!Start,
      Lifecycle!Replay, Lifecycle!Succeed, Lifecycle!Fail, Lifecycle!CancelQueued,
      Lifecycle!AskToStop, Lifecycle!Stop
<1>2. TypeOK /\ SingleInv /\ [Next]_vars
        => [\A r \in Runs : runState[r] \in RunTerminal => runState'[r] = runState[r]]_vars
  BY <1>1, LifecycleStep
<1> QED BY <1>2, SingleInvariant, PTL DEF Spec, TerminalRunIsFinal

-----------------------------------------------------------------------------
(* Retries *)

\* No step revives the original of a retry: a retry is admitted for a dead run only, and
\* a dead run stays what it is and gets no Result.
LEMMA RetryStep ==
  TypeOK /\ SingleInv /\ SingleDelivery /\ RetryOriginalStaysDead /\ [Next]_vars /\ SingleInv'
    => RetryOriginalStaysDead'
<1> SUFFICES ASSUME TypeOK, SingleInv, SingleDelivery, RetryOriginalStaysDead, [Next]_vars, SingleInv',
                    NEW r \in Runs, retryOf'[r] # NoRun
             PROVE  runState'[retryOf'[r]] \in RunRetryable /\ retryOf'[r] \notin results'
  BY DEF RetryOriginalStaysDead
<1>1. retryOf'[r] \in Runs /\ runState[retryOf'[r]] \in RunRetryable
  <2>1. CASE retryOf' = retryOf
    BY <2>1 DEF TypeOK, RetryOriginalStaysDead
  <2>2. ASSUME NEW q \in Runs, NEW o \in Runs \cup {NoRun}, Admit(q, o)
        PROVE  retryOf'[r] \in Runs /\ runState[retryOf'[r]] \in RunRetryable
    BY <2>2 DEF Admit, InsertRun, TypeOK, RetryOriginalStaysDead
  <2>3. ASSUME NEW q \in Runs, NEW sent \in BOOLEAN, AdmitByRunner(q, sent)
        PROVE  retryOf'[r] \in Runs /\ runState[retryOf'[r]] \in RunRetryable
    BY <2>3 DEF AdmitByRunner, InsertRun, TypeOK, RetryOriginalStaysDead
  <2> QED
    BY <2>1, <2>2, <2>3
    DEF Next, Command, Execute, Sweep, Dispatch, CancelQueuedRun, RequestWorkerCancellation,
        DiscardUnknown, Receive, ReplayTerminal, Claim, Checkpoint, Resolve, StartReplay,
        CancelRun, FailRun, Succeed, Finish, ResultConflict, Lose, Unwind, RecoverStaleJob,
        Redeliver, runVars, requestVars, vars
<1>2. runState'[retryOf'[r]] = runState[retryOf'[r]]
  BY <1>1, LifecycleStep
  DEF TypeOK, RunRetryable, Lifecycle!vars, Lifecycle!Next, Lifecycle!Move, Lifecycle!Admit,
      Lifecycle!Start, Lifecycle!Replay, Lifecycle!Succeed, Lifecycle!Fail,
      Lifecycle!CancelQueued, Lifecycle!AskToStop, Lifecycle!Stop
<1>3. retryOf'[r] \notin results'
  BY <1>1, <1>2 DEF SingleInv, OnlySuccessHasResult, RunRetryable
<1> QED BY <1>1, <1>2, <1>3

-----------------------------------------------------------------------------
(* Attempts *)

\* A job is given up only when its attempts are spent.
GivenUpIsSpent == \A r \in Runs : jobStatus[r] = "failed_final" => attempts[r] >= MaxAttempts

\* A row that is written as anything but given up keeps it so, with the same attempts.
LEMMA WriteKeepsSpent ==
  ASSUME TypeOK, GivenUpIsSpent, attempts' = attempts, NEW r \in Runs, NEW status \in JobStates,
         status # "failed_final",
         jobStatus' = jobStatus \/ jobStatus' = [jobStatus EXCEPT ![r] = status]
  PROVE  GivenUpIsSpent'
  BY DEF GivenUpIsSpent, TypeOK

\* However deliveries overlap, nothing but the last recovery gives a job up.
LEMMA SpentStep == TypeOK /\ GivenUpIsSpent /\ [Next]_vars => GivenUpIsSpent'
<1> SUFFICES ASSUME TypeOK, GivenUpIsSpent, [Next]_vars PROVE GivenUpIsSpent'
  OBVIOUS
<1>1. ASSUME NEW r \in Runs, Command(r) \/ DiscardUnknown(r) \/ Redeliver(r) PROVE GivenUpIsSpent'
  BY <1>1, WriteKeepsSpent
  DEF Command, Dispatch, Admit, AdmitByRunner, InsertRun, CancelQueuedRun, RequestWorkerCancellation,
      DiscardUnknown, Redeliver
<1>2. ASSUME NEW r \in Runs, NEW sent \in BOOLEAN, RecoverStaleJob(r, sent) PROVE GivenUpIsSpent'
  BY <1>2, AttemptsAssumption, BoundsAssumption DEF RecoverStaleJob, Exhausted, GivenUpIsSpent, TypeOK
<1>3. ASSUME NEW w \in Workers, Claim(w) PROVE GivenUpIsSpent'
  <2>1. held[w] \in Runs
    BY <1>3, HolderHasRun DEF Claim
  <2>2. attempts' = attempts /\ (jobStatus' = jobStatus \/ jobStatus' = [jobStatus EXCEPT ![held[w]] = "running"])
    BY <1>3, <2>1 DEF Claim, Flush, TypeOK
  <2> QED BY <2>1, <2>2, WriteKeepsSpent
<1>4. ASSUME NEW w \in Workers, NEW again \in BOOLEAN,
             CancelRun(w, again) \/ FailRun(w, again) \/ Succeed(w, again)
      PROVE  GivenUpIsSpent'
  <2>1. held[w] \in Runs
    BY <1>4, HolderHasRun DEF CancelRun, FailRun, Succeed, AtResult
  <2>2. /\ attempts' = attempts
        /\ \/ jobStatus' = jobStatus
           \/ jobStatus' = [jobStatus EXCEPT ![held[w]] = "cancelled"]
           \/ jobStatus' = [jobStatus EXCEPT ![held[w]] = "succeeded"]
    BY <1>4, <2>1 DEF CancelRun, FailRun, Succeed, Finish, Flush, TypeOK
  <2> QED BY <2>1, <2>2, WriteKeepsSpent
<1>5. ASSUME UNCHANGED jobVars PROVE GivenUpIsSpent'
  BY <1>5 DEF GivenUpIsSpent
<1> QED
  BY <1>1, <1>2, <1>3, <1>4, <1>5
  DEF Next, Execute, Sweep, Receive, ReplayTerminal, Checkpoint, Resolve, StartReplay, ResultConflict,
      Lose, Unwind, vars

\* A job is given up only when its attempts are spent, at every moment.
LEMMA SpentInvariant == Spec => []GivenUpIsSpent
<1>1. Init => GivenUpIsSpent
  BY DEF Init, GivenUpIsSpent
<1> QED BY <1>1, SpentStep, TypeCorrect, PTL DEF Spec

\* When deliveries do not overlap, run, job, Result and retried run agree at every moment.
THEOREM RunJobAndResultAgreement ==
  ASSUME SingleDelivery
  PROVE  Spec => []RunJobAndResultAgree
<1>1. Init => RetryOriginalStaysDead
  BY DEF Init, RetryOriginalStaysDead
<1>2. TypeOK /\ SingleInv /\ SingleDelivery /\ RetryOriginalStaysDead /\ [Next]_vars /\ SingleInv'
        => RetryOriginalStaysDead'
  BY RetryStep
<1>3. TypeOK /\ SingleInv /\ GivenUpIsSpent => ActiveRunHasJob
  BY DEF SingleInv, QueuedTogether, JobFollowsRun, GivenUpIsSpent, ActiveRunHasJob, TypeOK
<1>4. TypeOK /\ SingleInv /\ GivenUpIsSpent /\ RetryOriginalStaysDead => RunJobAndResultAgree
  BY <1>3 DEF SingleInv, RunJobAndResultAgree
<1> QED BY <1>1, <1>2, <1>4, SingleInvariant, SpentInvariant, PTL DEF Spec

-----------------------------------------------------------------------------
(* Cancels in time *)

\* However deliveries overlap, a run that was asked to stop exists.
AskedExists == \A r \in Runs : cancelRequested[r] => runState[r] # "absent"

\* However deliveries overlap, no row goes away, and no write takes a request back.
LEMMA AskedStep ==
  TypeOK /\ AskedExists /\ [Next]_vars
    => AskedExists' /\ \A r \in Runs : cancelRequested[r] => cancelRequested'[r]
<1> SUFFICES ASSUME TypeOK, AskedExists, [Next]_vars
             PROVE  AskedExists' /\ \A r \in Runs : cancelRequested[r] => cancelRequested'[r]
  OBVIOUS
<1> DEFINE Goal == AskedExists' /\ \A r \in Runs : cancelRequested[r] => cancelRequested'[r]
<1> HIDE DEF Goal
<1>1. ASSUME NEW r \in Runs, Command(r) PROVE Goal
  <2>1. ASSUME NEW o, InsertRun(r, o) PROVE Goal
    BY <2>1 DEF InsertRun, AskedExists, TypeOK, Goal
  <2>2. ASSUME CancelQueuedRun(r) \/ RequestWorkerCancellation(r) PROVE Goal
    <3>1. /\ runState' = runState \/ runState' = [runState EXCEPT ![r] = "cancelled"]
          /\ cancelRequested' = [cancelRequested EXCEPT ![r] = TRUE]
          /\ runState[r] # "absent"
      BY <2>2 DEF CancelQueuedRun, RequestWorkerCancellation
    <3>2. AskedExists'
      BY <3>1 DEF AskedExists, TypeOK
    <3>3. \A q \in Runs : cancelRequested[q] => cancelRequested'[q]
      BY <3>1 DEF TypeOK
    <3> QED BY <3>2, <3>3 DEF Goal
  <2>3. ASSUME NEW sent \in BOOLEAN, Dispatch(r, sent) PROVE Goal
    BY <2>3 DEF Dispatch, AskedExists, Goal
  <2> QED BY <1>1, <2>1, <2>2, <2>3 DEF Command, Admit, AdmitByRunner
<1>2. ASSUME cancelRequested' = cancelRequested, NEW r \in Runs, NEW state \in RunStates,
             state # "absent", runState' = runState \/ runState' = [runState EXCEPT ![r] = state]
      PROVE  Goal
  BY <1>2 DEF AskedExists, TypeOK, Goal
<1>3. ASSUME NEW w \in Workers, Claim(w) \/ StartReplay(w) PROVE Goal
  BY <1>3, <1>2, HolderHasRun DEF Claim, StartReplay, Flush, TypeOK
<1>4. ASSUME NEW w \in Workers, NEW again \in BOOLEAN,
             CancelRun(w, again) \/ FailRun(w, again) \/ Succeed(w, again)
      PROVE  Goal
  <2>1. held[w] \in Runs
    BY <1>4, HolderHasRun DEF CancelRun, FailRun, Succeed, AtResult
  <2>2. /\ cancelRequested' = cancelRequested
        /\ \/ runState' = runState
           \/ \E state \in RunTerminal : runState' = [runState EXCEPT ![held[w]] = state]
    BY <1>4, <2>1 DEF CancelRun, FailRun, Succeed, Finish, Flush, TypeOK
  <2> QED BY <2>1, <2>2, <1>2
<1>5. ASSUME UNCHANGED <<runState, cancelRequested>> PROVE Goal
  BY <1>5 DEF AskedExists, Goal
<1>6. Goal
  BY <1>1, <1>3, <1>4, <1>5
  DEF Next, Execute, Sweep, DiscardUnknown, Redeliver, RecoverStaleJob, Receive, ReplayTerminal,
      Checkpoint, Resolve, ResultConflict, Lose, Unwind, vars, runVars
<1> QED BY <1>6 DEF Goal

\* A thread gets past its last checkpoint only if that saw no request to stop.
LEMMA NoneGoesPast ==
  ASSUME TypeOK, [Next]_vars, NEW r \in Runs, cancelRequested[r], ~PastLastCheckpoint(r)
  PROVE  ~PastLastCheckpoint(r)'
<1> SUFFICES ASSUME NEW w \in Workers, held'[w] = r, AtResult(w)' PROVE FALSE
  BY DEF PastLastCheckpoint
<1>1. pc'[w] = "working" /\ step'[w] = LastStep /\ held'[w] # NoRun
  BY NoRunAssumption DEF AtResult
<1>2. ~(held[w] = r /\ pc[w] = "working" /\ step[w] = LastStep)
  BY DEF PastLastCheckpoint, AtResult
<1>3. ASSUME NEW v \in Workers, Release(v) PROVE FALSE
  BY <1>1, <1>2, <1>3 DEF Release, TypeOK
<1>4. ASSUME UNCHANGED <<pc, held, step>> PROVE FALSE
  BY <1>1, <1>2, <1>4
<1>5. ASSUME NEW v \in Workers,
             (\E q \in Runs : Receive(v, q)) \/ Claim(v) \/ Checkpoint(v) \/ Resolve(v) \/ StartReplay(v)
      PROVE  FALSE
  <2>1. v = w
    BY <1>1, <1>2, <1>5 DEF Receive, Claim, Checkpoint, Resolve, StartReplay, TypeOK
  <2> QED
    BY <1>1, <1>2, <1>5, <2>1 DEF Receive, Claim, Checkpoint, Resolve, StartReplay, TypeOK
<1> QED
  BY <1>3, <1>4, <1>5
  DEF Next, Command, Execute, Sweep, Dispatch, Admit, AdmitByRunner, InsertRun, CancelQueuedRun,
      RequestWorkerCancellation, DiscardUnknown, Redeliver, RecoverStaleJob, ReplayTerminal, CancelRun,
      FailRun, Succeed, Finish, ResultConflict, Lose, Unwind, vars, workerVars

\* Only a thread that is past its last checkpoint of the run lets it succeed.
LEMMA SuccessIsPast ==
  ASSUME TypeOK, [Next]_vars, NEW r \in Runs, runState[r] # "succeeded", ~PastLastCheckpoint(r)
  PROVE  runState'[r] # "succeeded"
<1> SUFFICES ASSUME runState'[r] = "succeeded" PROVE FALSE
  OBVIOUS
<1>1. ASSUME NEW q \in Runs, Command(q) PROVE FALSE
  BY <1>1
  DEF Command, Dispatch, Admit, AdmitByRunner, InsertRun, CancelQueuedRun, RequestWorkerCancellation, TypeOK
<1>2. ASSUME NEW w \in Workers, Claim(w) \/ StartReplay(w) PROVE FALSE
  BY <1>2 DEF Claim, StartReplay, Flush, TypeOK
<1>3. ASSUME NEW w \in Workers, NEW again \in BOOLEAN, CancelRun(w, again) \/ FailRun(w, again)
      PROVE  FALSE
  BY <1>3 DEF CancelRun, FailRun, Finish, Flush, TypeOK
<1>4. ASSUME NEW w \in Workers, NEW again \in BOOLEAN, Succeed(w, again) PROVE FALSE
  BY <1>4 DEF Succeed, Finish, Flush, TypeOK, PastLastCheckpoint
<1>5. ASSUME runState' = runState PROVE FALSE
  BY <1>5
<1> QED
  BY <1>1, <1>2, <1>3, <1>4, <1>5
  DEF Next, Execute, Sweep, DiscardUnknown, Redeliver, RecoverStaleJob, Receive, ReplayTerminal,
      Checkpoint, Resolve, ResultConflict, Lose, Unwind, vars, runVars

\* However deliveries overlap, a cancel that was in time stays in time: no later step, of a
\* worker, a sweep or a redelivery, lets that run succeed.
THEOREM CancelStaysInTime ==
  Spec => [][\A r \in Runs : CancelledInTime(r) => CancelledInTime(r)']_vars
<1>1. Init => AskedExists
  BY DEF Init, AskedExists
<1>2. TypeOK /\ AskedExists /\ [Next]_vars
        => AskedExists' /\ [\A r \in Runs : CancelledInTime(r) => CancelledInTime(r)']_vars
  BY AskedStep, NoneGoesPast, SuccessIsPast DEF CancelledInTime
<1> QED BY <1>1, <1>2, TypeCorrect, PTL DEF Spec

\* However deliveries overlap, a run that ends at all and was cancelled in time ends
\* cancelled or failed: TimelyCancelIsHonored asks no more of fairness than AdmittedRunEnds.
THEOREM CancelIsHonoredWhenRunsEnd ==
  ASSUME NEW r \in Runs
  PROVE  Spec /\ (runState[r] \in RunActive ~> runState[r] \in RunTerminal)
           => (CancelledInTime(r) ~> runState[r] \in {"cancelled", "failed"})
<1>1. Init => AskedExists
  BY DEF Init, AskedExists
<1>2. TypeOK /\ AskedExists /\ [Next]_vars => AskedExists'
  BY AskedStep
<1>3. TypeOK /\ AskedExists /\ [Next]_vars /\ CancelledInTime(r) => CancelledInTime(r)'
  BY AskedStep, NoneGoesPast, SuccessIsPast DEF CancelledInTime
<1>4. TypeOK /\ AskedExists /\ CancelledInTime(r)
        => runState[r] \in RunActive \/ runState[r] \in RunTerminal
  BY DEF CancelledInTime, AskedExists, TypeOK
<1>5. CancelledInTime(r) /\ runState[r] \in RunTerminal => runState[r] \in {"cancelled", "failed"}
  BY DEF CancelledInTime
<1> QED BY <1>1, <1>2, <1>3, <1>4, <1>5, TypeCorrect, PTL DEF Spec

-----------------------------------------------------------------------------
(* The event stream *)

\* StreamTellsTheState for one run.
Tells(r) ==
  /\ \A i \in 1 .. Len(events[r]) :
       events[r][i].prev = (IF i = 1 THEN "queued" ELSE events[r][i - 1].state)
  /\ runState[r] = (IF runState[r] = "absent" THEN "absent"
                    ELSE IF events[r] = <<>> THEN "queued"
                    ELSE events[r][Len(events[r])].state)

Told == \A q \in Runs : Tells(q)

\* An event that names the state its run leaves and the one it enters prolongs the walk.
LEMMA RecordTells ==
  ASSUME TypeOK, Told, NEW r \in Runs, NEW type \in EventTypes,
         NEW state \in RunStates \ {"absent"}, runState[r] # "absent",
         RecordEvent(r, type, runState[r], state),
         runState' = [runState EXCEPT ![r] = state]
  PROVE  Told'
<1> DEFINE n == Len(events[r])
<1>1. runState[r] \in RunStates /\ runState'[r] = state
  BY DEF TypeOK
<1>2. /\ \A q \in Runs \ {r} : events'[q] = events[q] /\ runState'[q] = runState[q]
      /\ n \in Nat /\ Len(events'[r]) = n + 1 /\ events'[r] # <<>>
      /\ \A i \in 1 .. n : events'[r][i] = events[r][i]
      /\ events[r] = <<>> => n = 0
      /\ events[r] # <<>> => 1 \in 1 .. n
  BY <1>1, RecordFacts DEF TypeOK
<1>3. events'[r][n + 1].prev = runState[r] /\ events'[r][n + 1].state = state
  BY DEF RecordEvent, TypeOK
<1>4. \A i \in 1 .. n : events[r][i].prev = (IF i = 1 THEN "queued" ELSE events[r][i - 1].state)
  BY DEF Tells, Told
<1>5. runState[r] = IF events[r] = <<>> THEN "queued" ELSE events[r][n].state
  BY DEF Tells, Told
<1> HIDE DEF n
<1>6. ASSUME NEW i \in 1 .. n + 1
      PROVE  events'[r][i].prev = (IF i = 1 THEN "queued" ELSE events'[r][i - 1].state)
  <2>1. CASE i \in 1 .. n
    <3>1. i = 1 \/ i - 1 \in 1 .. n
      BY <2>1, <1>2
    <3> QED BY <2>1, <3>1, <1>2, <1>4
  <2>2. CASE i = n + 1 /\ events[r] = <<>>
    BY <2>2, <1>2, <1>3, <1>5
  <2>3. CASE i = n + 1 /\ events[r] # <<>>
    <3>1. n \in 1 .. n /\ i - 1 = n /\ i # 1
      BY <2>3, <1>2
    <3> QED BY <2>3, <3>1, <1>2, <1>3, <1>5
  <2> QED BY <1>2, <2>1, <2>2, <2>3
<1>7. Tells(r)'
  BY <1>1, <1>2, <1>3, <1>6 DEF Tells
<1>8. ASSUME NEW q \in Runs, q # r PROVE Tells(q)'
  BY <1>2, <1>8 DEF Tells, Told
<1> QED BY <1>7, <1>8 DEF Told

\* Steps that write neither events nor run states leave every walk as it is.
LEMMA QuietTells ==
  ASSUME Told, UNCHANGED <<runState, events>>
  PROVE  Told'
  BY DEF Tells, Told

\* A terminal write starts from the state the database holds: the session is fresh.
LEMMA FinishTells ==
  ASSUME TypeOK, SingleInv, Told, NEW w \in Workers, pc[w] \in Working,
         NEW type \in EventTypes, NEW state \in RunTerminal,
         NEW status \in {"succeeded", "cancelled"}, NEW again \in BOOLEAN,
         Finish(w, type, state, status, again)
  PROVE  Told'
<1>1. /\ held[w] \in Runs
      /\ runState[held[w]] \in {"provisioning", "running"}
      /\ runState' = [runState EXCEPT ![held[w]] = state]
  BY FinishMaps
<1>2. seenState[w] = runState[held[w]]
  BY DEF SingleInv, SessionIsFresh
<1>3. RecordEvent(held[w], type, runState[held[w]], state)
  BY <1>2 DEF Finish
<1> QED BY <1>1, <1>3, RecordTells

\* When deliveries do not overlap, every step keeps every run's walk.
LEMMA TellsStep ==
  TypeOK /\ StreamInv /\ SingleInv /\ SingleDelivery /\ StreamTellsTheState /\ [Next]_vars
    => StreamTellsTheState'
<1> SUFFICES ASSUME TypeOK, StreamInv, SingleInv, Told, [Next]_vars
             PROVE  Told'
  BY DEF StreamTellsTheState, Tells, Told
<1>1. ASSUME NEW r \in Runs, NEW o, InsertRun(r, o) PROVE Told'
  <2>1. events[r] = <<>> /\ events' = events /\ runState' = [runState EXCEPT ![r] = "queued"]
    BY <1>1 DEF InsertRun, StreamInv, UntouchedHasNoEvent
  <2>2. Tells(r)'
    BY <2>1 DEF Tells, Told, TypeOK
  <2>3. ASSUME NEW q \in Runs, q # r PROVE Tells(q)'
    BY <2>1, <2>3 DEF Tells, Told, TypeOK
  <2> QED BY <2>2, <2>3 DEF Told
<1>2. ASSUME NEW r \in Runs, CancelQueuedRun(r) PROVE Told'
  BY <1>2, RecordTells DEF CancelQueuedRun
<1>3. ASSUME NEW w \in Workers, Claim(w) PROVE Told'
  <2>1. held[w] \in Runs /\ runState[held[w]] # "absent"
    <3>1. held[w] \in Runs /\ Held(held[w])
      BY <1>3, HolderHasRun DEF Claim, Held
    <3> QED BY <3>1 DEF SingleInv, QueuedTogether
  <2> QED BY <1>3, <2>1, RecordTells DEF Claim
<1>4. ASSUME NEW w \in Workers, StartReplay(w) PROVE Told'
  <2>1. /\ held[w] \in Runs /\ runState[held[w]] = "provisioning"
        /\ seenState[w] = "provisioning"
    BY <1>4, HolderHasRun, ItemsAssumption DEF StartReplay, SingleInv, SessionIsFresh, StageOf
  <2>2. /\ runState' = [runState EXCEPT ![held[w]] = "running"]
        /\ RecordEvent(held[w], "RUN_STAGE_CHANGED", runState[held[w]], "running")
    BY <1>4, <2>1 DEF StartReplay, Flush
  <2> QED BY <2>1, <2>2, RecordTells
<1>5. ASSUME NEW w \in Workers, NEW again \in BOOLEAN,
             CancelRun(w, again) \/ FailRun(w, again) \/ Succeed(w, again)
      PROVE  Told'
  BY <1>5, FinishTells DEF CancelRun, FailRun, Succeed, AtResult
<1>6. ASSUME UNCHANGED <<runState, events>> PROVE Told'
  BY <1>6, QuietTells
<1>7. ASSUME NEW r \in Runs, Command(r) \/ DiscardUnknown(r) \/ Sweep(r) PROVE Told'
  BY <1>7, <1>1, <1>2, <1>6
  DEF Command, Sweep, Admit, AdmitByRunner, Dispatch, RequestWorkerCancellation, DiscardUnknown,
      RecoverStaleJob, Redeliver, runVars
<1>8. ASSUME NEW w \in Workers, Execute(w) PROVE Told'
  BY <1>8, <1>3, <1>4, <1>5, <1>6
  DEF Execute, ReplayTerminal, Checkpoint, Resolve, ResultConflict, Unwind, runVars
<1> QED
  <2>1. ASSUME NEW w \in Workers, NEW r \in Runs, Receive(w, r) PROVE Told'
    BY <2>1, <1>6 DEF Receive, runVars
  <2>2. ASSUME NEW w \in Workers, NEW retried \in BOOLEAN, Lose(w, retried) PROVE Told'
    BY <2>2, <1>6 DEF Lose, Unwind, runVars
  <2>3. CASE UNCHANGED vars
    BY <2>3, <1>6 DEF vars, runVars
  <2> QED BY <1>7, <1>8, <2>1, <2>2, <2>3 DEF Next

\* When deliveries do not overlap, the event stream of a run is one unbroken walk from
\* QUEUED to the state the run is in.
THEOREM StreamTells ==
  ASSUME SingleDelivery
  PROVE  Spec => []StreamTellsTheState
<1>1. Init => StreamTellsTheState
  <2> SUFFICES ASSUME Init, NEW r \in Runs PROVE Tells(r)
    BY DEF StreamTellsTheState, Tells
  <2>1. events[r] = <<>> /\ runState[r] = "absent"
    BY DEF Init
  <2>2. \A i \in 1 .. Len(events[r]) : FALSE
    BY <2>1
  <2> QED BY <2>1, <2>2 DEF Tells
<1>2. TypeOK /\ StreamInv /\ SingleInv /\ SingleDelivery /\ StreamTellsTheState /\ [Next]_vars
        => StreamTellsTheState'
  BY TellsStep
<1> QED BY <1>1, <1>2, SingleInvariant, StreamInvariant, PTL DEF Spec
==============================================================================
