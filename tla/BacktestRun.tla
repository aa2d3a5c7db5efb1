---------------------------- MODULE BacktestRun ----------------------------
(***************************************************************************)
(* The backtest run plane: admission, cancel and retry commands, the       *)
(* run_backtest worker body, the durable jobs row, the broker's messages   *)
(* and the scheduler's two recovery sweeps.                                *)
(*                                                                         *)
(* One run owns one job, so jobs are indexed by their run.  A database     *)
(* transaction is one action: it is linearised at its commit.  What a      *)
(* worker keeps in its ORM session between transactions (the run state it  *)
(* refreshed, the job status it loaded) is part of its own record, because *)
(* the code writes back from those copies.                                 *)
(*                                                                         *)
(* SingleDelivery is a deployment assumption, not a mechanism of the code: *)
(* when TRUE the timeouts are long enough that a sweep only ever acts on a *)
(* dead worker or a lost message.  When FALSE the stale threshold may pass *)
(* under a live worker and a queued job may be sent again while its first  *)
(* message still waits.                                                    *)
(***************************************************************************)
EXTENDS Integers, Sequences

CONSTANTS Runs,           \* run ids admission may mint
          Workers,        \* worker threads consuming the backtest queue
          NoRun,          \* "no run": an idle worker, a run that retries nothing
          Items,          \* enabled strategies pinned by a manifest
          MaxAttempts,    \* jobs.max_attempts
          MaxMessages,    \* bound: messages of one job waiting in the broker
          MaxLosses,      \* bound: deliveries lost to a crash or an exception
          MaxRecoveries,  \* bound: stale recoveries of one job
          MaxEvents,      \* bound: a run with this many events is not claimed again
          SingleDelivery  \* see above

ASSUME NoRunAssumption == NoRun \notin Runs
ASSUME ItemsAssumption == Items \in Nat \ {0}
ASSUME AttemptsAssumption == MaxAttempts \in Nat \ {0}
ASSUME BoundsAssumption ==
  /\ MaxMessages \in Nat \ {0}
  /\ MaxLosses \in Nat
  /\ MaxRecoveries \in Nat
  /\ MaxEvents \in Nat
ASSUME DeliveryAssumption == SingleDelivery \in BOOLEAN

VARIABLES runState, cancelRequested, retryOf,  \* backtest_run rows
          dispatched,  \* runs whose admission has sent its message
          jobStatus, attempts,                 \* jobs rows
          events,    \* backtest_run_event rows; sequence_no is the position
          results,   \* runs that have a backtest_result row
          msgs,      \* messages of the job waiting in the broker
          pc,        \* where each worker thread is
          held,      \* the run whose message the thread holds
          seenState, \* the run state in the thread's session
          seenJob,   \* the job status in the thread's session
          step,      \* the unit of work the thread is at
          losses     \* deliveries lost so far

requestVars == <<retryOf, dispatched>>
runVars == <<runState, cancelRequested, requestVars>>
jobVars == <<jobStatus, attempts>>
workerVars == <<pc, held, seenState, seenJob, step>>
vars == <<runVars, jobVars, events, results, msgs, workerVars, losses>>

RunTerminal == {"succeeded", "failed", "cancelled"}
RunRetryable == {"failed", "cancelled"}
RunActive == {"queued", "provisioning", "running"}
RunStates == {"absent"} \cup RunActive \cup RunTerminal

JobTerminal == {"succeeded", "failed_final", "cancelled"}
JobStates == {"absent", "queued", "running"} \cup JobTerminal

EventTypes == {"RUN_STARTED", "RUN_STAGE_CHANGED", "RUN_SUCCEEDED",
               "RUN_FAILED", "RUN_CANCELLED"}
Event == [type : EventTypes, prev : RunStates, state : RunStates]

(* A thread holds a delivery from receive to ack.  At "checkpoint" it is   *)
(* about to refresh the run row; "working" and "cancelling" act on what    *)
(* the refresh returned.                                                   *)
Working == {"checkpoint", "working", "cancelling"}

(* The units of work of one delivery: 0 resolves the pins, 1 .. Items      *)
(* prepare a strategy each, Items + 1 .. 2 * Items replay one each, and    *)
(* LastStep writes the Result.  A checkpoint precedes every unit.          *)
LastStep == 2 * Items + 1

Init ==
  /\ runState = [r \in Runs |-> "absent"]
  /\ cancelRequested = [r \in Runs |-> FALSE]
  /\ retryOf = [r \in Runs |-> NoRun]
  /\ dispatched = {}
  /\ jobStatus = [r \in Runs |-> "absent"]
  /\ attempts = [r \in Runs |-> 0]
  /\ events = [r \in Runs |-> <<>>]
  /\ results = {}
  /\ msgs = [r \in Runs |-> 0]
  /\ pc = [w \in Workers |-> "idle"]
  /\ held = [w \in Workers |-> NoRun]
  /\ seenState = [w \in Workers |-> "absent"]
  /\ seenJob = [w \in Workers |-> "absent"]
  /\ step = [w \in Workers |-> 0]
  /\ losses = 0

-----------------------------------------------------------------------------
(* Helpers *)

\* Some thread holds a delivery of r.
Held(r) == \E w \in Workers : held[w] = r

\* The unit of work emits an UPDATE only for a column whose assigned value
\* differs from the one the session loaded.
Flush(stored, loaded, assigned) == IF assigned = loaded THEN stored ELSE assigned

\* Mutation: the event names the new state as the previous one, as it would when
\* read after the assignment.
RecordEventLate(r, type, prev, state) ==
  events' = [events EXCEPT ![r] = Append(@, [type |-> type, prev |-> state, state |-> state])]

\* record_run_event: take the next sequence_no of the run.
RecordEvent(r, type, prev, state) ==
  events' = [events EXCEPT ![r] = Append(@, [type |-> type, prev |-> prev, state |-> state])]

\* send_job: the message reaches the broker, or the send is lost.
Send(r, sent) ==
  msgs' = IF sent /\ msgs[r] < MaxMessages THEN [msgs EXCEPT ![r] = @ + 1] ELSE msgs

\* The thread's session is closed and its message acknowledged.
Release(w) ==
  /\ pc' = [pc EXCEPT ![w] = "idle"]
  /\ held' = [held EXCEPT ![w] = NoRun]
  /\ seenState' = [seenState EXCEPT ![w] = "absent"]
  /\ seenJob' = [seenJob EXCEPT ![w] = "absent"]
  /\ step' = [step EXCEPT ![w] = 0]

-----------------------------------------------------------------------------
(* Commands of the API process *)

\* The rows of an admission become visible, in one transaction: run, manifest, job.
InsertRun(r, o) ==
  /\ runState[r] = "absent"
  /\ runState' = [runState EXCEPT ![r] = "queued"]
  /\ retryOf' = [retryOf EXCEPT ![r] = o]
  /\ jobStatus' = [jobStatus EXCEPT ![r] = "queued"]
  /\ UNCHANGED <<cancelRequested, attempts, events, results, workerVars, losses>>

\* The route hands the job to the broker when its handler returns.  The request's
\* transaction is still open: the middleware commits it after the handler.
Dispatch(r, sent) ==
  /\ runState[r] = "absent"
  /\ r \notin dispatched
  /\ dispatched' = dispatched \cup {r}
  /\ Send(r, sent)
  /\ UNCHANGED <<runState, cancelRequested, retryOf, jobVars, events, results, workerVars, losses>>

\* The commit of request_backtest_run (o = NoRun) or of retry_backtest_run (o the
\* run it retries), past their preflight.  A commit that fails never happens here.
Admit(r, o) ==
  /\ r \in dispatched
  /\ o # NoRun => runState[o] \in RunRetryable
  /\ InsertRun(r, o)
  /\ UNCHANGED <<dispatched, msgs>>

\* The one-shot runner admits, commits, and only then sends.
AdmitByRunner(r, sent) ==
  /\ r \notin dispatched
  /\ dispatched' = dispatched \cup {r}
  /\ InsertRun(r, NoRun)
  /\ Send(r, sent)

\* Mutation: the job row is forgotten.
CancelQueuedRunOnly(r) ==
  /\ runState[r] = "queued"
  /\ runState' = [runState EXCEPT ![r] = "cancelled"]
  /\ cancelRequested' = [cancelRequested EXCEPT ![r] = TRUE]
  /\ RecordEvent(r, "RUN_CANCELLED", "queued", "cancelled")
  /\ UNCHANGED <<requestVars, jobVars, results, msgs, workerVars, losses>>

\* cancel_backtest_run on a QUEUED run: the terminal transition itself.
CancelQueuedRun(r) ==
  /\ runState[r] = "queued"
  /\ runState' = [runState EXCEPT ![r] = "cancelled"]
  /\ cancelRequested' = [cancelRequested EXCEPT ![r] = TRUE]
  /\ RecordEvent(r, "RUN_CANCELLED", "queued", "cancelled")
  /\ jobStatus' = IF jobStatus[r] \in JobTerminal THEN jobStatus
                  ELSE [jobStatus EXCEPT ![r] = "cancelled"]
  /\ UNCHANGED <<requestVars, attempts, results, msgs, workerVars, losses>>

\* cancel_backtest_run on a run a worker claimed: only the intent.
RequestWorkerCancellation(r) ==
  /\ runState[r] \in {"provisioning", "running"}
  /\ cancelRequested' = [cancelRequested EXCEPT ![r] = TRUE]
  /\ UNCHANGED <<runState, requestVars, jobVars, events, results, msgs, workerVars, losses>>

-----------------------------------------------------------------------------
(* The worker: run_backtest inside the actor *)

\* The actor takes a message and loads the job row, without a lock.
Receive(w, r) ==
  /\ pc[w] = "idle"
  /\ msgs[r] > 0
  /\ jobStatus[r] # "absent"
  /\ msgs' = [msgs EXCEPT ![r] = @ - 1]
  /\ pc' = [pc EXCEPT ![w] = "received"]
  /\ held' = [held EXCEPT ![w] = r]
  /\ seenJob' = [seenJob EXCEPT ![w] = jobStatus[r]]
  /\ UNCHANGED <<runVars, jobVars, events, results, seenState, step, losses>>

\* The message is ahead of its row: the body raises and the broker retries it,
\* until max_retries is exhausted.
DiscardUnknown(r) ==
  /\ jobStatus[r] = "absent"
  /\ msgs[r] > 0
  /\ msgs' = [msgs EXCEPT ![r] = @ - 1]
  /\ UNCHANGED <<runVars, jobVars, events, results, workerVars, losses>>

\* Under the run row's lock: a terminal run is acknowledged, nothing is written.
ReplayTerminal(w) ==
  /\ pc[w] = "received"
  /\ runState[held[w]] \in RunTerminal
  /\ Release(w)
  /\ UNCHANGED <<runVars, jobVars, events, results, msgs, losses>>

\* Mutation: the claim without the terminal guard.
ClaimAnyState(w) ==
  LET r == held[w] IN
  /\ pc[w] = "received"
  /\ Len(events[r]) < MaxEvents
  /\ runState' = [runState EXCEPT ![r] = "provisioning"]
  /\ jobStatus' = [jobStatus EXCEPT ![r] = "running"]
  /\ RecordEvent(r, "RUN_STARTED", runState[r], "provisioning")
  /\ pc' = [pc EXCEPT ![w] = "checkpoint"]
  /\ seenState' = [seenState EXCEPT ![w] = "provisioning"]
  /\ seenJob' = [seenJob EXCEPT ![w] = "running"]
  /\ UNCHANGED <<cancelRequested, requestVars, attempts, results, msgs, held, step, losses>>

\* Under the same lock: claim the run, whatever non-terminal state it is in,
\* and commit, which releases the lock.
Claim(w) ==
  LET r == held[w] IN
  /\ pc[w] = "received"
  /\ runState[r] \notin RunTerminal
  /\ Len(events[r]) < MaxEvents
  /\ runState' = [runState EXCEPT ![r] = "provisioning"]
  /\ jobStatus' = [jobStatus EXCEPT ![r] = Flush(@, seenJob[w], "running")]
  /\ RecordEvent(r, "RUN_STARTED", runState[r], "provisioning")
  /\ pc' = [pc EXCEPT ![w] = "checkpoint"]
  /\ seenState' = [seenState EXCEPT ![w] = "provisioning"]
  /\ seenJob' = [seenJob EXCEPT ![w] = "running"]
  /\ UNCHANGED <<cancelRequested, requestVars, attempts, results, msgs, held, step, losses>>

\* _cancellation_requested: refresh the run row, without a lock.
Checkpoint(w) ==
  LET r == held[w] IN
  /\ pc[w] = "checkpoint"
  /\ pc' = [pc EXCEPT ![w] = IF cancelRequested[r] THEN "cancelling" ELSE "working"]
  /\ seenState' = [seenState EXCEPT ![w] = runState[r]]
  /\ UNCHANGED <<runVars, jobVars, events, results, msgs, held, seenJob, step, losses>>

\* The terminal write shared by _cancel_run, _fail_run and the success tail,
\* committed by the actor.  When the worker dies between that commit and the
\* ack, the broker delivers the message again.
Finish(w, type, state, status, again) ==
  LET r == held[w] IN
  /\ again => losses < MaxLosses
  /\ runState' = [runState EXCEPT ![r] = Flush(@, seenState[w], state)]
  /\ RecordEvent(r, type, seenState[w], state)
  /\ jobStatus' = [jobStatus EXCEPT ![r] = Flush(@, seenJob[w], status)]
  /\ Release(w)
  /\ Send(r, again)
  /\ losses' = IF again THEN losses + 1 ELSE losses
  /\ UNCHANGED <<cancelRequested, requestVars, attempts>>

CancelRun(w, again) ==
  /\ pc[w] = "cancelling"
  /\ Finish(w, "RUN_CANCELLED", "cancelled", "cancelled", again)
  /\ UNCHANGED results

\* Mutation: checkpoint #4 is missing.
ResolveWithoutLastCheckpoint(w) ==
  /\ pc[w] = "working"
  /\ step[w] \notin {Items, LastStep}
  /\ pc' = [pc EXCEPT ![w] = IF step[w] + 1 = LastStep THEN "working" ELSE "checkpoint"]
  /\ step' = [step EXCEPT ![w] = @ + 1]
  /\ UNCHANGED <<runVars, jobVars, events, results, msgs, held, seenState, seenJob, losses>>

\* Mutation: the replay begins without the RUNNING transition.
ResolveIntoReplay(w) ==
  /\ pc[w] = "working"
  /\ step[w] # LastStep
  /\ pc' = [pc EXCEPT ![w] = "checkpoint"]
  /\ step' = [step EXCEPT ![w] = @ + 1]
  /\ UNCHANGED <<runVars, jobVars, events, results, msgs, held, seenState, seenJob, losses>>

\* One unit of resolution or replay is done; the next begins with a checkpoint.
Resolve(w) ==
  /\ pc[w] = "working"
  /\ step[w] \notin {Items, LastStep}
  /\ pc' = [pc EXCEPT ![w] = "checkpoint"]
  /\ step' = [step EXCEPT ![w] = @ + 1]
  /\ UNCHANGED <<runVars, jobVars, events, results, msgs, held, seenState, seenJob, losses>>

\* An unresolved pin or asset, or an engine error: _fail_run.
FailRun(w, again) ==
  /\ pc[w] = "working"
  /\ step[w] # LastStep
  /\ Finish(w, "RUN_FAILED", "failed", "succeeded", again)
  /\ UNCHANGED results

\* Every strategy is prepared: advance to RUNNING and commit.
StartReplay(w) ==
  LET r == held[w] IN
  /\ pc[w] = "working"
  /\ step[w] = Items
  /\ runState' = [runState EXCEPT ![r] = Flush(@, seenState[w], "running")]
  /\ RecordEvent(r, "RUN_STAGE_CHANGED", "provisioning", "running")
  /\ pc' = [pc EXCEPT ![w] = "checkpoint"]
  /\ seenState' = [seenState EXCEPT ![w] = "running"]
  /\ step' = [step EXCEPT ![w] = Items + 1]
  /\ UNCHANGED <<cancelRequested, requestVars, jobVars, results, msgs, held, seenJob, losses>>

AtResult(w) == pc[w] = "working" /\ step[w] = LastStep

\* Mutation: backtest_result without UNIQUE(run_id).
SucceedTwice(w, again) ==
  /\ AtResult(w)
  /\ results' = results \cup {held[w]}
  /\ Finish(w, "RUN_SUCCEEDED", "succeeded", "succeeded", again)

\* create_result and the success tail, in one transaction.
Succeed(w, again) ==
  /\ AtResult(w)
  /\ held[w] \notin results
  /\ results' = results \cup {held[w]}
  /\ Finish(w, "RUN_SUCCEEDED", "succeeded", "succeeded", again)

\* The delivery ends without a commit: its message is retried by the broker,
\* or discarded when max_retries is exhausted.
Unwind(w, retried) ==
  /\ Release(w)
  /\ Send(held[w], retried)
  /\ UNCHANGED <<runVars, jobVars, events, results>>

\* create_result on a run that has a Result: UNIQUE(backtest_result.run_id).
ResultConflict(w, retried) ==
  /\ AtResult(w)
  /\ held[w] \in results
  /\ Unwind(w, retried)
  /\ UNCHANGED losses

\* A crash, an exception, or a sequence_no conflict, in any segment.
Lose(w, retried) ==
  /\ pc[w] # "idle"
  /\ losses < MaxLosses
  /\ losses' = losses + 1
  /\ Unwind(w, retried)

-----------------------------------------------------------------------------
(* The scheduler's maintenance pass *)

\* Mutation: off by one.
ExhaustedEarly(r) == attempts[r] + 2 >= MaxAttempts

\* This recovery is the job's last allowed attempt.
Exhausted(r) == attempts[r] + 1 >= MaxAttempts

\* recover_stale_jobs on a RUNNING job past the stale threshold, and the
\* send that follows the commit.
RecoverStaleJob(r, sent) ==
  /\ jobStatus[r] = "running"
  /\ attempts[r] < MaxRecoveries
  /\ SingleDelivery => ~Held(r) /\ msgs[r] = 0
  /\ attempts' = [attempts EXCEPT ![r] = @ + 1]
  /\ jobStatus' = [jobStatus EXCEPT ![r] = IF Exhausted(r) THEN "failed_final" ELSE "queued"]
  /\ Send(r, sent /\ ~Exhausted(r))
  /\ UNCHANGED <<runVars, events, results, workerVars, losses>>

\* redeliverable_queued_jobs and _redeliver on a QUEUED job past the grace window.
Redeliver(r) ==
  /\ jobStatus[r] = "queued"
  /\ SingleDelivery => ~Held(r) /\ msgs[r] = 0
  /\ msgs[r] < MaxMessages
  /\ Send(r, TRUE)
  /\ UNCHANGED <<runVars, jobVars, events, results, workerVars, losses>>

-----------------------------------------------------------------------------
Command(r) ==
  \/ \E sent \in BOOLEAN : Dispatch(r, sent) \/ AdmitByRunner(r, sent)
  \/ \E o \in Runs \cup {NoRun} : Admit(r, o)
  \/ CancelQueuedRun(r)
  \/ RequestWorkerCancellation(r)

\* What a live thread does with the delivery it holds.
Execute(w) ==
  \/ ReplayTerminal(w) \/ Claim(w) \/ Checkpoint(w) \/ Resolve(w) \/ StartReplay(w)
  \/ \E again \in BOOLEAN :
       \/ CancelRun(w, again) \/ FailRun(w, again) \/ Succeed(w, again)
       \/ ResultConflict(w, again)

Sweep(r) == Redeliver(r) \/ \E sent \in BOOLEAN : RecoverStaleJob(r, sent)

Next ==
  \/ \E r \in Runs : Command(r) \/ DiscardUnknown(r) \/ Sweep(r)
  \/ \E w \in Workers : Execute(w)
  \/ \E w \in Workers, r \in Runs : Receive(w, r)
  \/ \E w \in Workers, retried \in BOOLEAN : Lose(w, retried)

Spec == Init /\ [][Next]_vars

\* A thread that is not lost runs its body to the end, some idle thread takes
\* a waiting message, and the scheduler keeps ticking.  Commands are never owed.
Fairness ==
  /\ \A w \in Workers : WF_vars(Execute(w))
  /\ \A r \in Runs : WF_vars(\E w \in Workers : Receive(w, r))
  /\ \A r \in Runs : WF_vars(Sweep(r))

FairSpec == Spec /\ Fairness

-----------------------------------------------------------------------------
(* Properties *)

\* Every variable keeps its type; a thread is idle exactly when it holds no delivery.
TypeOK ==
  /\ runState \in [Runs -> RunStates]
  /\ cancelRequested \in [Runs -> BOOLEAN]
  /\ retryOf \in [Runs -> Runs \cup {NoRun}]
  /\ dispatched \subseteq Runs
  /\ jobStatus \in [Runs -> JobStates]
  /\ attempts \in [Runs -> 0 .. MaxRecoveries]
  /\ events \in [Runs -> Seq(Event)]
  /\ results \subseteq Runs
  /\ msgs \in [Runs -> 0 .. MaxMessages]
  /\ pc \in [Workers -> {"idle", "received"} \cup Working]
  /\ held \in [Workers -> Runs \cup {NoRun}]
  /\ \A w \in Workers : pc[w] = "idle" <=> held[w] = NoRun
  /\ seenState \in [Workers -> RunStates]
  /\ seenJob \in [Workers -> JobStates]
  /\ step \in [Workers -> 0 .. LastStep]
  /\ losses \in 0 .. MaxLosses

EventsOf(r, type) == {i \in 1 .. Len(events[r]) : events[r][i].type = type}

\* However deliveries overlap, a Result row exists exactly when the run's stream
\* holds RUN_SUCCEEDED, and it holds it once: the UNIQUE(run_id) of
\* backtest_result and the single transaction of the success tail.
OneResultPerRun ==
  \A r \in Runs :
    /\ r \in results <=> EventsOf(r, "RUN_SUCCEEDED") # {}
    /\ \A i, j \in EventsOf(r, "RUN_SUCCEEDED") : i = j

\* A cancel that found the run QUEUED is final: no later delivery, however late
\* or repeated, starts the engine, writes an event or leaves a Result.
QueuedCancelIsFinal ==
  \A r \in Runs :
    (\E i \in EventsOf(r, "RUN_CANCELLED") : events[r][i].prev = "queued")
      => /\ runState[r] = "cancelled"
         /\ Len(events[r]) = 1
         /\ r \notin results

\* A run that did not succeed has no Result, and a run that did has one (CR-03).
OnlySuccessHasResult ==
  \A r \in Runs : r \in results <=> runState[r] = "succeeded"

\* No step moves a run out of a terminal state: not a redelivery, not a cancel,
\* not a worker that still holds an old copy of the row.
TerminalRunIsFinal ==
  [][\A r \in Runs : runState[r] \in RunTerminal => runState'[r] = runState[r]]_vars

\* The event stream a reconnecting client replays is one unbroken walk from
\* QUEUED to the state the run is in now.
StreamTellsTheState ==
  \A r \in Runs :
    /\ \A i \in 1 .. Len(events[r]) :
         events[r][i].prev = (IF i = 1 THEN "queued" ELSE events[r][i-1].state)
    /\ runState[r] = (IF runState[r] = "absent" THEN "absent"
                       ELSE IF events[r] = <<>> THEN "queued"
                       ELSE events[r][Len(events[r])].state)

\* The job is finished exactly when its run is, unless it ran out of attempts.
JobFollowsRun ==
  \A r \in Runs :
    runState[r] \in RunTerminal <=> jobStatus[r] \in {"succeeded", "cancelled"}

\* A run that has not ended has a job that some delivery or sweep takes up again, until
\* the last attempt is spent: recover_stale_jobs then ends the job and forgets the run.
ActiveRunHasJob ==
  \A r \in Runs :
    runState[r] \in RunActive
      => jobStatus[r] \in {"queued", "running"} \/ attempts[r] >= MaxAttempts

\* A retry's original stays what made it retryable: failed or cancelled, no Result.
RetryOriginalStaysDead ==
  \A r \in Runs :
    retryOf[r] # NoRun
      => runState[retryOf[r]] \in RunRetryable /\ retryOf[r] \notin results

\* At most one thread executes a run that is not terminal: the second delivery
\* waits for the first and then replays its outcome (delivery.py).
OneExecutor ==
  \A v, w \in Workers :
    pc[v] \in Working /\ pc[w] \in Working /\ held[v] = held[w]
      => v = w

\* Some thread on r is past checkpoint #4 and bound to write the Result.
PastLastCheckpoint(r) == \E w \in Workers : held[w] = r /\ AtResult(w)

\* Every admitted run ends, lost sends and lost deliveries included.
AdmittedRunEnds ==
  \A r \in Runs : runState[r] \in RunActive ~> runState[r] \in RunTerminal

\* A cancel is recorded before the last checkpoint of every delivery of the run.
CancelledInTime(r) ==
  cancelRequested[r] /\ runState[r] # "succeeded" /\ ~PastLastCheckpoint(r)

\* A cancel recorded before the last checkpoint is never overtaken by success.
TimelyCancelIsHonored ==
  \A r \in Runs : CancelledInTime(r) ~> runState[r] \in {"cancelled", "failed"}

-----------------------------------------------------------------------------
(* The run plane implements the lifecycle its clients are promised. *)
Lifecycle == INSTANCE RunLifecycle WITH
  state <- runState,
  cancelled <- cancelRequested

\* Projected on run state, cancel intent and Result, every behaviour of the run
\* plane is a behaviour of RunLifecycle.
ImplementsLifecycle == Lifecycle!Spec

\* Run, job and Result end together and for good, deliveries lost or repeated: a Result
\* for each success and for nothing else, an ended job for each ended run, a live one for
\* each active run, and what was retried has stayed dead.
RunJobAndResultAgree ==
  TypeOK /\ OnlySuccessHasResult /\ JobFollowsRun /\ ActiveRunHasJob /\ RetryOriginalStaysDead
=============================================================================
