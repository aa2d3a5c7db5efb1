---------------------------- MODULE AgentRuntime ----------------------------
(***************************************************************************)
(* The Alpha Agent's control plane: Admin commands, the coordinator loop   *)
(* and the executors of the "agent-executor" queue, which share the row    *)
(* agent_runtime.  A coordinator cycle is one transaction under that row's *)
(* lock.  An executor holds the lock only up to the engine's first commit; *)
(* what it writes after the engine comes from the copy of the task it read *)
(* before.  A directive and the task it becomes are one identity.  A task  *)
(* is in no state but those below: nothing in the code assigns WAITING,    *)
(* CHECKPOINTING or RECOVERING.  Checkpoints and events other than         *)
(* task_cancelled are left out.                                            *)
(***************************************************************************)
EXTENDS Naturals, SequencesExt

CONSTANTS Directives,    \* directives, and the tasks they become
          High,          \* the directives of HIGH priority
          Workers,       \* executor threads
          NoTask,
          MaxControls,   \* pauses and stops an Admin asks for
          MaxLosses      \* deliveries that die with their worker

ASSUME AgentConstants ==
  /\ High \subseteq Directives
  /\ NoTask \notin Directives
  /\ MaxControls \in Nat /\ MaxLosses \in Nat

TaskStates == {"absent", "queued", "running", "paused", "succeeded", "failed", "cancelled"}
JobStates  == {"absent", "queued", "running", "succeeded"}

VARIABLES
  status, pending, activeTask,   \* agent_runtime
  queue,                         \* QUEUED directives, oldest first
  task, job,                     \* agent_task.status and jobs.status
  stopped,                       \* tasks with a task_cancelled event
  artifacts,                     \* tasks whose hypothesis artifact is published
  engineRuns,                    \* engine runs a task has started
  toSend, msgs,                  \* the coordinator's pending send; the broker
  pc, held,                      \* what a worker does, and with which task
  controls, losses               \* history, bounded

runtimeVars == <<status, pending, activeTask, stopped>>
historyVars == <<controls, losses>>
workerVars  == <<pc, held>>
vars == <<runtimeVars, queue, task, job, artifacts, engineRuns, toSend, msgs,
          workerVars, historyVars>>

Init ==
  /\ status = "active" /\ pending = "none" /\ activeTask = NoTask
  /\ queue = <<>>
  /\ task = [d \in Directives |-> "absent"]
  /\ job = [d \in Directives |-> "absent"]
  /\ stopped = {} /\ artifacts = {}
  /\ engineRuns = [d \in Directives |-> 0]
  /\ toSend = NoTask /\ msgs = {}
  /\ pc = [w \in Workers |-> "idle"]
  /\ held = [w \in Workers |-> NoTask]
  /\ controls = 0 /\ losses = 0

-----------------------------------------------------------------------------
(* Admin commands *)

CreateDirective(d) ==
  /\ task[d] = "absent" /\ ~Contains(queue, d)
  /\ queue' = Append(queue, d)
  /\ UNCHANGED <<runtimeVars, task, job, artifacts, engineRuns, toSend, msgs,
                 workerVars, historyVars>>

Request(control) ==
  /\ status = "active" /\ pending = "none"
  /\ controls < MaxControls
  /\ pending' = control
  /\ controls' = controls + 1
  /\ UNCHANGED <<status, activeTask, stopped, queue, task, job, artifacts, engineRuns,
                 toSend, msgs, workerVars, losses>>

Pause == Request("pause")

\* stop_run names a task, but what it leaves on the runtime row is only "stop".
Stop(d) == task[d] = "running" /\ Request("stop")

\* The task that was paused stays PAUSED: nothing restarts it.
Resume ==
  /\ status = "paused"
  /\ status' = "active" /\ pending' = "none"
  /\ UNCHANGED <<activeTask, stopped, queue, task, job, artifacts, engineRuns, toSend,
                 msgs, workerVars, historyVars>>

-----------------------------------------------------------------------------
(* apply_pending_control: the task it changes is whichever one is active. *)

StatusAfterControl ==
  CASE pending = "pause" -> "paused" [] pending = "stop" -> "active" [] OTHER -> status

TaskAfterControl ==
  IF pending = "none" \/ activeTask = NoTask THEN task
  ELSE [task EXCEPT ![activeTask] = IF pending = "pause" THEN "paused" ELSE "cancelled"]

\* Mutation: with no active task to checkpoint, the control is left for later.
ApplyPendingControlToActive ==
  /\ status' = StatusAfterControl
  /\ pending' = IF activeTask = NoTask THEN pending ELSE "none"
  /\ activeTask' = IF pending = "stop" THEN NoTask ELSE activeTask
  /\ stopped' = stopped \cup {d \in Directives : pending = "stop" /\ d = activeTask}

ApplyPendingControl ==
  /\ status' = StatusAfterControl
  /\ pending' = "none"
  /\ activeTask' = IF pending = "stop" THEN NoTask ELSE activeTask
  /\ stopped' = stopped \cup {d \in Directives : pending = "stop" /\ d = activeTask}

-----------------------------------------------------------------------------
(* The coordinator loop *)

\* HIGH before NORMAL, then the oldest: the positions in the queue to choose from,
\* and the one chosen.
Eligible ==
  {i \in DOMAIN queue : queue[i] \in High \/ \A j \in DOMAIN queue : queue[j] \notin High}

NextDirective(i) == i \in Eligible /\ \A j \in Eligible : i <= j

\* Only a runtime that is not paused once the control is applied consumes.
MayConsume == StatusAfterControl # "paused" /\ queue # <<>>

\* run_coordinator_cycle, one transaction.
Cycle ==
  /\ toSend = NoTask
  /\ ApplyPendingControl
  /\ IF MayConsume
     THEN \E i \in DOMAIN queue :
            /\ NextDirective(i)
            /\ queue' = RemoveAt(queue, i)
            /\ task' = [TaskAfterControl EXCEPT ![queue[i]] = "queued"]
            /\ job' = [job EXCEPT ![queue[i]] = "queued"]
            /\ toSend' = queue[i]
     ELSE /\ task' = TaskAfterControl
          /\ UNCHANGED <<queue, job, toSend>>
  /\ UNCHANGED <<artifacts, engineRuns, msgs, workerVars, historyVars>>

\* The send after the commit; it may fail, or the process may die before it.
Dispatch(sent) ==
  /\ toSend # NoTask
  /\ msgs' = IF sent THEN msgs \cup {toSend} ELSE msgs
  /\ toSend' = NoTask
  /\ UNCHANGED <<runtimeVars, queue, task, job, artifacts, engineRuns, workerVars, historyVars>>

-----------------------------------------------------------------------------
(* An executor *)

Receive(w, d) ==
  /\ pc[w] = "idle" /\ d \in msgs
  /\ msgs' = msgs \ {d}
  /\ pc' = [pc EXCEPT ![w] = "received"]
  /\ held' = [held EXCEPT ![w] = d]
  /\ UNCHANGED <<runtimeVars, queue, task, job, artifacts, engineRuns, toSend, historyVars>>

Release(w) ==
  /\ pc' = [pc EXCEPT ![w] = "idle"]
  /\ held' = [held EXCEPT ![w] = NoTask]

\* Mutation: only a terminal task is refused, as in the first, unlocked check.
ClaimableUnlessTerminal(d) == task[d] \notin {"succeeded", "failed", "cancelled"}

\* A task that is terminal, claimed or paused is not run again.
Claimable(d) == task[d] = "queued"

SkipDelivery(w) ==
  /\ pc[w] = "received" /\ ~Claimable(held[w])
  /\ Release(w)
  /\ UNCHANGED <<runtimeVars, queue, task, job, artifacts, engineRuns, toSend, msgs, historyVars>>

\* A control is pending before the task starts: apply it, leave the job QUEUED.
Defer(w) ==
  /\ pc[w] = "received" /\ Claimable(held[w]) /\ pending # "none"
  /\ ApplyPendingControl
  /\ task' = TaskAfterControl
  /\ Release(w)
  /\ UNCHANGED <<queue, job, artifacts, engineRuns, toSend, msgs, historyVars>>

\* The transaction up to the engine's first commit.  The status of the runtime
\* is not read.
Start(w) ==
  LET d == held[w] IN
  /\ pc[w] = "received" /\ Claimable(d) /\ pending = "none"
  /\ task' = [task EXCEPT ![d] = "running"]
  /\ job' = [job EXCEPT ![d] = "running"]
  /\ activeTask' = d
  /\ engineRuns' = [engineRuns EXCEPT ![d] = @ + 1]
  /\ pc' = [pc EXCEPT ![w] = "engine"]
  /\ UNCHANGED <<status, pending, stopped, queue, artifacts, toSend, msgs, held, historyVars>>

\* run_agent_task's last lines: the task ends in state s, its job SUCCEEDED.
Finish(w, s) ==
  /\ task' = [task EXCEPT ![held[w]] = s]
  /\ job' = [job EXCEPT ![held[w]] = "succeeded"]
  /\ activeTask' = NoTask
  /\ Release(w)
  /\ UNCHANGED <<status, pending, stopped, queue, engineRuns, toSend, msgs, historyVars>>

\* A rejection before the engine, still inside the first transaction.
FailEarly(w) ==
  /\ pc[w] = "received" /\ Claimable(held[w]) /\ pending = "none"
  /\ Finish(w, "failed")
  /\ UNCHANGED artifacts

\* A failure in or after the engine, written over what the row says by now.
FailTask(w) ==
  /\ pc[w] = "engine"
  /\ Finish(w, "failed")
  /\ UNCHANGED artifacts

\* Mutation: the artifact is created before the boundary, not after it.
InterruptAfterArtifact(w) ==
  /\ pc[w] = "engine" /\ pending # "none"
  /\ ApplyPendingControl
  /\ task' = TaskAfterControl
  /\ job' = [job EXCEPT ![held[w]] = "succeeded"]
  /\ artifacts' = artifacts \cup {held[w]}
  /\ Release(w)
  /\ UNCHANGED <<queue, engineRuns, toSend, msgs, historyVars>>

\* A control is found at the boundary after the engine.
Interrupt(w) ==
  /\ pc[w] = "engine" /\ pending # "none"
  /\ ApplyPendingControl
  /\ task' = TaskAfterControl
  /\ job' = [job EXCEPT ![held[w]] = "succeeded"]
  /\ Release(w)
  /\ UNCHANGED <<queue, artifacts, engineRuns, toSend, msgs, historyVars>>

\* The artifact and the task's success, written over what the row says by now.
Succeed(w) ==
  /\ pc[w] = "engine" /\ pending = "none"
  /\ artifacts' = artifacts \cup {held[w]}
  /\ Finish(w, "succeeded")

\* A worker dies; the broker may give the message to another one.
Lose(w, again) ==
  /\ pc[w] # "idle" /\ losses < MaxLosses
  /\ losses' = losses + 1
  /\ msgs' = IF again THEN msgs \cup {held[w]} ELSE msgs
  /\ Release(w)
  /\ UNCHANGED <<runtimeVars, queue, task, job, artifacts, engineRuns, toSend, controls>>

-----------------------------------------------------------------------------
(* The scheduler's sweeps; max_attempts is out of reach, as a job starts once. *)

RecoverStaleJob(d, sent) ==
  /\ job[d] = "running"
  /\ job' = [job EXCEPT ![d] = "queued"]
  /\ msgs' = IF sent THEN msgs \cup {d} ELSE msgs
  /\ UNCHANGED <<runtimeVars, queue, task, artifacts, engineRuns, toSend, workerVars, historyVars>>

\* Mutation: the grace window is measured from started_at, which is NULL before a start.
RedeliverStarted(d) ==
  /\ job[d] = "queued" /\ engineRuns[d] > 0
  /\ msgs' = msgs \cup {d}
  /\ UNCHANGED <<runtimeVars, queue, task, job, artifacts, engineRuns, toSend, workerVars,
                 historyVars>>

Redeliver(d) ==
  /\ job[d] = "queued"
  /\ msgs' = msgs \cup {d}
  /\ UNCHANGED <<runtimeVars, queue, task, job, artifacts, engineRuns, toSend, workerVars,
                 historyVars>>

-----------------------------------------------------------------------------
Work(w) ==
  SkipDelivery(w) \/ Defer(w) \/ Start(w) \/ FailEarly(w) \/ FailTask(w) \/ Interrupt(w)
    \/ Succeed(w)

Next ==
  \/ \E d \in Directives : CreateDirective(d) \/ Stop(d) \/ Redeliver(d)
  \/ Pause \/ Resume \/ Cycle
  \/ \E sent \in BOOLEAN : Dispatch(sent)
  \/ \E d \in Directives, sent \in BOOLEAN : RecoverStaleJob(d, sent)
  \/ \E w \in Workers : Work(w)
  \/ \E w \in Workers, d \in Directives : Receive(w, d)
  \/ \E w \in Workers, again \in BOOLEAN : Lose(w, again)

Spec == Init /\ [][Next]_vars

\* The loop ticks, the scheduler re-sends, a worker that is not lost goes on, and
\* no message is passed over for ever, the queue being first in, first out.
Fairness ==
  /\ WF_vars(Cycle) /\ WF_vars(\E sent \in BOOLEAN : Dispatch(sent))
  /\ \A w \in Workers : WF_vars(Work(w))
  /\ \A d \in Directives : WF_vars(Redeliver(d)) /\ SF_vars(\E w \in Workers : Receive(w, d))

FairSpec == Spec /\ Fairness

-----------------------------------------------------------------------------
(* Properties *)

\* Every variable keeps its type; a worker is idle exactly when it holds no task.
TypeOK ==
  /\ status \in {"active", "paused"} /\ pending \in {"none", "pause", "stop"}
  /\ activeTask \in Directives \cup {NoTask}
  /\ queue \in Seq(Directives)
  /\ task \in [Directives -> TaskStates] /\ job \in [Directives -> JobStates]
  /\ stopped \subseteq Directives /\ artifacts \subseteq Directives
  /\ engineRuns \in [Directives -> Nat]
  /\ toSend \in Directives \cup {NoTask} /\ msgs \subseteq Directives
  /\ pc \in [Workers -> {"idle", "received", "engine"}]
  /\ held \in [Workers -> Directives \cup {NoTask}]
  /\ \A w \in Workers : pc[w] = "idle" <=> held[w] = NoTask
  /\ controls \in 0 .. MaxControls /\ losses \in 0 .. MaxLosses

\* The runtime row never points at a task that is over: a control applied through
\* that pointer would turn an ended task into a paused or cancelled one
\* (apply_pending_control does not look at the task's state).
ActiveTaskIsLive == activeTask # NoTask => task[activeTask] \in {"running", "paused"}

\* However often a task's message is delivered, the sweeps included, the engine is
\* started for it at most once, and not before it is a task (run_agent_task's guard).
EngineRunsOnce ==
  \A d \in Directives :
    /\ engineRuns[d] <= 1
    /\ task[d] \in {"absent", "queued"} => engineRuns[d] = 0

\* An artifact is published for exactly the tasks that end SUCCEEDED, also when
\* controls and a second executor come between the engine and the last commit.
ArtifactMeansSuccess == artifacts = {d \in Directives : task[d] = "succeeded"}

\* A cycle that leaves the runtime paused plans no task (run_coordinator_cycle:
\* a paused runtime consumes nothing), nor does one that leaves a control pending.
PausedPlansNothing ==
  [][(\E d \in Directives : task[d] = "absent" /\ task'[d] = "queued")
       => status' = "active" /\ pending' = "none"]_vars

\* A pause or stop does not stay pending: the loop applies it whether or not a task
\* is active (doc 18 section 8.4, apply_pending_control).
ControlIsApplied == pending # "none" ~> pending = "none"

\* A queued directive becomes a task that leaves QUEUED, or the runtime is paused:
\* lost sends and lost deliveries are made good by the sweep.
DirectiveStarts ==
  \A d \in Directives :
    Contains(queue, d) ~> task[d] \notin {"absent", "queued"} \/ status = "paused"

\* What the rows say of tasks is so, whoever wrote last: the runtime points at a live
\* task only, and the artifacts are those of the tasks that succeeded.
TaskRecordsAgree == TypeOK /\ ActiveTaskIsLive /\ ArtifactMeansSuccess
=============================================================================
