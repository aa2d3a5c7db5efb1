------------------------- MODULE AgentRuntimeProofs -------------------------
(* Theorems of AgentRuntime, for any directives, executors and bounds.        *)
EXTENDS AgentRuntime, TLAPS

-----------------------------------------------------------------------------
(* Types *)

\* Taking one position out of a sequence moves the later ones up by one.
LEMMA RemoveAtFacts ==
  ASSUME NEW S, NEW s \in Seq(S), NEW i \in DOMAIN s
  PROVE  /\ RemoveAt(s, i) \in Seq(S)
         /\ DOMAIN RemoveAt(s, i) = 1 .. (Len(s) - 1)
         /\ \A k \in DOMAIN RemoveAt(s, i) :
              RemoveAt(s, i)[k] = s[IF k < i THEN k ELSE k + 1]
<1> DEFINE before == SubSeq(s, 1, i - 1)
           after == SubSeq(s, i + 1, Len(s))
<1>1. i \in 1 .. Len(s) /\ Len(s) \in Nat
  OBVIOUS
<1>2. /\ before \in Seq(S) /\ Len(before) = i - 1
      /\ \A k \in 1 .. (i - 1) : before[k] = s[k]
  BY <1>1
<1>3. /\ after \in Seq(S) /\ Len(after) = Len(s) - i
      /\ \A k \in 1 .. (Len(s) - i) : after[k] = s[i + k]
  BY <1>1
<1>4. RemoveAt(s, i) = before \o after
  BY DEF RemoveAt
<1> HIDE DEF before, after
<1>5. /\ before \o after \in Seq(S)
      /\ DOMAIN (before \o after) = 1 .. (Len(s) - 1)
  BY <1>1, <1>2, <1>3
<1>6. ASSUME NEW k \in 1 .. (Len(s) - 1)
      PROVE  (before \o after)[k] = s[IF k < i THEN k ELSE k + 1]
  <2>1. CASE k < i
    BY <1>1, <1>2, <1>3, <2>1
  <2>2. CASE ~(k < i)
    <3>1. /\ k - (i - 1) \in 1 .. (Len(s) - i) /\ i + (k - (i - 1)) = k + 1
          /\ k \in 1 .. (Len(before) + Len(after)) /\ k > Len(before)
          /\ k - Len(before) = k - (i - 1)
      BY <1>1, <1>2, <1>3, <2>2
    <3>2. (before \o after)[k] = after[k - Len(before)]
      BY <1>2, <1>3, <3>1
    <3> QED BY <1>3, <2>2, <3>1, <3>2
  <2> QED BY <2>1, <2>2
<1> QED BY <1>4, <1>5, <1>6

\* A worker that holds a delivery holds a task.
LEMMA HolderHasTask ==
  ASSUME TypeOK, NEW w \in Workers, pc[w] # "idle"
  PROVE  held[w] \in Directives
  BY DEF TypeOK

\* Applying the pending control keeps the types of the runtime row and the tasks.
LEMMA ControlType ==
  ASSUME TypeOK, ApplyPendingControl
  PROVE  /\ status' \in {"active", "paused"} /\ pending' \in {"none", "pause", "stop"}
         /\ activeTask' \in Directives \cup {NoTask} /\ stopped' \subseteq Directives
         /\ TaskAfterControl \in [Directives -> TaskStates]
<1>1. status' \in {"active", "paused"}
  BY DEF TypeOK, ApplyPendingControl, StatusAfterControl
<1>2. /\ pending' \in {"none", "pause", "stop"} /\ activeTask' \in Directives \cup {NoTask}
      /\ stopped' \subseteq Directives
  BY DEF TypeOK, ApplyPendingControl
<1>3. TaskAfterControl \in [Directives -> TaskStates]
  BY DEF TypeOK, TaskAfterControl, TaskStates
<1> QED BY <1>1, <1>2, <1>3

\* A worker that lets its delivery go is idle and holds nothing.
LEMMA ReleaseType ==
  ASSUME TypeOK, NEW w \in Workers, Release(w)
  PROVE  /\ pc' \in [Workers -> {"idle", "received", "engine"}]
         /\ held' \in [Workers -> Directives \cup {NoTask}]
         /\ \A v \in Workers : pc'[v] = "idle" <=> held'[v] = NoTask
  BY DEF TypeOK, Release

\* Whatever state a task ends in, the types stay.
LEMMA FinishType ==
  ASSUME TypeOK, NEW w \in Workers, pc[w] # "idle", NEW s \in TaskStates,
         Finish(w, s), artifacts' \subseteq Directives
  PROVE  TypeOK'
<1>1. held[w] \in Directives
  BY HolderHasTask
<1>2. task' \in [Directives -> TaskStates] /\ job' \in [Directives -> JobStates]
  BY <1>1 DEF TypeOK, Finish, JobStates
<1>3. Release(w)
  BY DEF Finish
<1> QED BY <1>2, <1>3, ReleaseType DEF TypeOK, Finish, historyVars

\* Every variable of the agent's control plane keeps its type.
THEOREM AgentTypes == Spec => []TypeOK
<1>1. Init => TypeOK
  BY AgentConstants DEF Init, TypeOK, TaskStates, JobStates
<1>2. TypeOK /\ [Next]_vars => TypeOK'
  <2> SUFFICES ASSUME TypeOK, [Next]_vars PROVE TypeOK'
    OBVIOUS
  <2>1. ASSUME NEW d \in Directives, CreateDirective(d) PROVE TypeOK'
    BY <2>1 DEF TypeOK, CreateDirective, runtimeVars, workerVars, historyVars
  <2>2. ASSUME NEW control \in {"pause", "stop"}, Request(control) PROVE TypeOK'
    BY <2>2, AgentConstants DEF TypeOK, Request, workerVars
  <2>3. CASE Pause
    BY <2>2, <2>3 DEF Pause
  <2>4. ASSUME NEW d \in Directives, Stop(d) PROVE TypeOK'
    BY <2>2, <2>4 DEF Stop
  <2>5. CASE Resume
    BY <2>5 DEF TypeOK, Resume, workerVars, historyVars
  <2>6. CASE Cycle
    <3>1. ApplyPendingControl
      BY <2>6 DEF Cycle
    <3>2. CASE MayConsume
      <4>1. PICK i \in DOMAIN queue :
              /\ queue' = RemoveAt(queue, i)
              /\ task' = [TaskAfterControl EXCEPT ![queue[i]] = "queued"]
              /\ job' = [job EXCEPT ![queue[i]] = "queued"]
              /\ toSend' = queue[i]
        BY <2>6, <3>2 DEF Cycle
      <4>2. queue \in Seq(Directives) /\ queue[i] \in Directives
        BY DEF TypeOK
      <4>3. queue' \in Seq(Directives)
        BY <4>1, <4>2, RemoveAtFacts
      <4>4. task' \in [Directives -> TaskStates] /\ job' \in [Directives -> JobStates]
        BY <3>1, <4>1, <4>2, ControlType DEF TypeOK, TaskStates, JobStates
      <4> QED BY <2>6, <3>1, <4>1, <4>2, <4>3, <4>4, ControlType
             DEF TypeOK, Cycle, workerVars, historyVars
    <3>3. CASE ~MayConsume
      BY <2>6, <3>1, <3>3, ControlType DEF TypeOK, Cycle, workerVars, historyVars
    <3> QED BY <3>2, <3>3
  <2>7. ASSUME NEW sent \in BOOLEAN, Dispatch(sent) PROVE TypeOK'
    BY <2>7 DEF TypeOK, Dispatch, runtimeVars, workerVars, historyVars
  <2>8. ASSUME NEW w \in Workers, NEW d \in Directives, Receive(w, d) PROVE TypeOK'
    BY <2>8, AgentConstants DEF TypeOK, Receive, runtimeVars, historyVars
  <2>9. ASSUME NEW w \in Workers, SkipDelivery(w) PROVE TypeOK'
    BY <2>9, ReleaseType DEF TypeOK, SkipDelivery, runtimeVars, historyVars
  <2>10. ASSUME NEW w \in Workers, Defer(w) PROVE TypeOK'
    BY <2>10, ReleaseType, ControlType DEF TypeOK, Defer, historyVars
  <2>11. ASSUME NEW w \in Workers, Start(w) PROVE TypeOK'
    <3>1. held[w] \in Directives
      BY <2>11, HolderHasTask DEF Start
    <3>2. /\ task' \in [Directives -> TaskStates] /\ job' \in [Directives -> JobStates]
          /\ engineRuns' \in [Directives -> Nat] /\ activeTask' \in Directives \cup {NoTask}
      BY <2>11, <3>1 DEF Start, TypeOK, TaskStates, JobStates
    <3>3. /\ pc' \in [Workers -> {"idle", "received", "engine"}]
          /\ \A v \in Workers : pc'[v] = "idle" <=> held'[v] = NoTask
      BY <2>11, <3>1, AgentConstants DEF Start, TypeOK
    <3> QED BY <2>11, <3>2, <3>3 DEF TypeOK, Start, historyVars
  <2>12. ASSUME NEW w \in Workers, FailEarly(w) PROVE TypeOK'
    BY <2>12, FinishType DEF FailEarly, TypeOK, TaskStates
  <2>13. ASSUME NEW w \in Workers, FailTask(w) PROVE TypeOK'
    BY <2>13, FinishType DEF FailTask, TypeOK, TaskStates
  <2>14. ASSUME NEW w \in Workers, Interrupt(w) PROVE TypeOK'
    <3>1. job' \in [Directives -> JobStates]
      BY <2>14, HolderHasTask DEF Interrupt, TypeOK, JobStates
    <3> QED BY <2>14, <3>1, ReleaseType, ControlType DEF TypeOK, Interrupt, historyVars
  <2>15. ASSUME NEW w \in Workers, Succeed(w) PROVE TypeOK'
    <3>1. pc[w] # "idle" /\ Finish(w, "succeeded") /\ artifacts' = artifacts \cup {held[w]}
      BY <2>15 DEF Succeed
    <3>2. artifacts' \subseteq Directives /\ "succeeded" \in TaskStates
      BY <3>1, HolderHasTask DEF TypeOK, TaskStates
    <3> QED BY <3>1, <3>2, FinishType
  <2>16. ASSUME NEW w \in Workers, NEW again \in BOOLEAN, Lose(w, again) PROVE TypeOK'
    <3>1. msgs' \subseteq Directives /\ losses' \in 0 .. MaxLosses
      BY <2>16, HolderHasTask, AgentConstants DEF Lose, TypeOK
    <3> QED BY <2>16, <3>1, ReleaseType DEF TypeOK, Lose, runtimeVars
  <2>17. ASSUME NEW d \in Directives, NEW sent \in BOOLEAN, RecoverStaleJob(d, sent)
         PROVE TypeOK'
    BY <2>17 DEF TypeOK, RecoverStaleJob, JobStates, runtimeVars, workerVars, historyVars
  <2>18. ASSUME NEW d \in Directives, Redeliver(d) PROVE TypeOK'
    BY <2>18 DEF TypeOK, Redeliver, runtimeVars, workerVars, historyVars
  <2>19. CASE UNCHANGED vars
    BY <2>19 DEF TypeOK, vars, runtimeVars, workerVars, historyVars
  <2> QED BY <2>1, <2>3, <2>4, <2>5, <2>6, <2>7, <2>8, <2>9, <2>10, <2>11, <2>12, <2>13,
             <2>14, <2>15, <2>16, <2>17, <2>18, <2>19 DEF Next, Work
<1> QED BY <1>1, <1>2, PTL DEF Spec

-----------------------------------------------------------------------------
(* What the runtime row, the tasks and the executors say of each other *)

\* A queued directive is not a task yet, and is queued once.
QueueIsFresh ==
  \A i, j \in DOMAIN queue :
    task[queue[i]] = "absent" /\ (queue[i] = queue[j] => i = j)

\* While an executor is in the engine its task may be paused or cancelled under it,
\* but nobody else ends it.
EngineTaskIsOpen ==
  \A w \in Workers : pc[w] = "engine" => task[held[w]] \in {"running", "paused", "cancelled"}

\* No two executors are in the engine for one task.
OneEngine ==
  \A v, w \in Workers :
    pc[v] = "engine" /\ pc[w] = "engine" /\ held[v] = held[w] => v = w

AgentInv ==
  /\ ActiveTaskIsLive
  /\ EngineRunsOnce
  /\ ArtifactMeansSuccess
  /\ QueueIsFresh
  /\ EngineTaskIsOpen
  /\ OneEngine

\* A control changes the active task only, which is live, to paused or cancelled,
\* and what is still active afterwards is live.
LEMMA ControlEffect ==
  ASSUME TypeOK, ActiveTaskIsLive
  PROVE  /\ TaskAfterControl \in [Directives -> TaskStates]
         /\ \A d \in Directives :
              \/ TaskAfterControl[d] = task[d]
              \/ task[d] \in {"running", "paused"} /\ TaskAfterControl[d] \in {"paused", "cancelled"}
         /\ ApplyPendingControl /\ activeTask' # NoTask
              => TaskAfterControl[activeTask'] \in {"running", "paused"}
<1>1. TaskAfterControl \in [Directives -> TaskStates]
  BY DEF TypeOK, TaskAfterControl, TaskStates
<1>2. \A d \in Directives :
        \/ TaskAfterControl[d] = task[d]
        \/ task[d] \in {"running", "paused"} /\ TaskAfterControl[d] \in {"paused", "cancelled"}
  BY DEF TypeOK, ActiveTaskIsLive, TaskAfterControl
<1>3. ApplyPendingControl /\ activeTask' # NoTask
        => TaskAfterControl[activeTask'] \in {"running", "paused"}
  BY DEF TypeOK, ActiveTaskIsLive, ApplyPendingControl, TaskAfterControl
<1> QED BY <1>1, <1>2, <1>3

\* Tasks that a control moves keep every part that does not name the active one.
LEMMA ControlKeeps ==
  ASSUME TypeOK, AgentInv, ApplyPendingControl, task' = TaskAfterControl,
         UNCHANGED <<queue, artifacts, engineRuns>>,
         \A w \in Workers : pc'[w] = "engine" => pc[w] = "engine" /\ held'[w] = held[w]
  PROVE  AgentInv'
<1>1. \A d \in Directives :
        \/ task'[d] = task[d]
        \/ task[d] \in {"running", "paused"} /\ task'[d] \in {"paused", "cancelled"}
  BY ControlEffect DEF AgentInv
<1>2. ActiveTaskIsLive'
  BY ControlEffect DEF AgentInv, ActiveTaskIsLive
<1>3. EngineRunsOnce' /\ ArtifactMeansSuccess'
  BY <1>1 DEF AgentInv, EngineRunsOnce, ArtifactMeansSuccess
<1>4. QueueIsFresh'
  BY <1>1 DEF AgentInv, QueueIsFresh, TypeOK
<1>5. EngineTaskIsOpen' /\ OneEngine'
  BY <1>1, HolderHasTask DEF AgentInv, EngineTaskIsOpen, OneEngine
<1> QED BY <1>2, <1>3, <1>4, <1>5 DEF AgentInv

\* An executor that ends an open task it runs alone, or one that was still queued.
LEMMA FinishKeeps ==
  ASSUME TypeOK, AgentInv, NEW w \in Workers, NEW s \in {"failed", "succeeded"},
         pc[w] # "idle", Finish(w, s),
         pc[w] = "engine" \/ task[held[w]] = "queued",
         pc[w] # "engine" => s = "failed",
         s = "failed" => artifacts' = artifacts,
         s = "succeeded" => artifacts' = artifacts \cup {held[w]},
         engineRuns' = engineRuns
  PROVE  (ActiveTaskIsLive /\ ArtifactMeansSuccess /\ QueueIsFresh /\ EngineTaskIsOpen
            /\ OneEngine)'
<1>1. /\ held[w] \in Directives /\ task[held[w]] \in {"queued", "running", "paused", "cancelled"}
      /\ task' = [task EXCEPT ![held[w]] = s] /\ activeTask' = NoTask /\ queue' = queue
      /\ pc' = [pc EXCEPT ![w] = "idle"] /\ held' = [held EXCEPT ![w] = NoTask]
  BY HolderHasTask DEF Finish, Release, AgentInv, EngineTaskIsOpen
<1>2. ActiveTaskIsLive'
  BY <1>1 DEF ActiveTaskIsLive
<1>3. ArtifactMeansSuccess'
  BY <1>1 DEF AgentInv, ArtifactMeansSuccess, TypeOK
<1>4. QueueIsFresh'
  BY <1>1 DEF AgentInv, QueueIsFresh, TypeOK
<1>5. \A v \in Workers : pc'[v] = "engine" => pc[v] = "engine" /\ held'[v] = held[v] /\ v # w
  BY <1>1 DEF TypeOK
<1>6. \A v \in Workers : pc'[v] = "engine" => held[v] # held[w]
  BY <1>1, <1>5 DEF AgentInv, EngineTaskIsOpen, OneEngine
<1>7. EngineTaskIsOpen' /\ OneEngine'
  BY <1>1, <1>5, <1>6, HolderHasTask DEF AgentInv, EngineTaskIsOpen, OneEngine, TypeOK
<1> QED BY <1>2, <1>3, <1>4, <1>7

\* Steps that change neither tasks nor pointers, and put nobody in the engine.
LEMMA AgentQuiet ==
  ASSUME AgentInv, UNCHANGED <<activeTask, queue, task, artifacts, engineRuns>>,
         \A w \in Workers : pc'[w] = "engine" => pc[w] = "engine" /\ held'[w] = held[w]
  PROVE  AgentInv'
  BY DEF AgentInv, ActiveTaskIsLive, EngineRunsOnce, ArtifactMeansSuccess, QueueIsFresh,
         EngineTaskIsOpen, OneEngine

\* Every step keeps AgentInv.
LEMMA AgentStep == TypeOK /\ AgentInv /\ [Next]_vars => AgentInv'
<1> SUFFICES ASSUME TypeOK, AgentInv, [Next]_vars PROVE AgentInv'
  OBVIOUS
<1>1. ASSUME NEW d \in Directives, CreateDirective(d) PROVE AgentInv'
  <2>1. QueueIsFresh'
    BY <1>1 DEF CreateDirective, Contains, AgentInv, QueueIsFresh, TypeOK
  <2> QED BY <1>1, <2>1 DEF CreateDirective, AgentInv, ActiveTaskIsLive, EngineRunsOnce,
         ArtifactMeansSuccess, EngineTaskIsOpen, OneEngine, runtimeVars, workerVars
<1>2. ASSUME NEW control, Request(control) PROVE AgentInv'
  BY <1>2, AgentQuiet DEF Request, workerVars
<1>3. CASE Pause
  BY <1>2, <1>3 DEF Pause
<1>4. ASSUME NEW d \in Directives, Stop(d) PROVE AgentInv'
  BY <1>2, <1>4 DEF Stop
<1>5. CASE Resume
  BY <1>5, AgentQuiet DEF Resume, workerVars
<1>6. CASE Cycle
  <2>1. /\ ApplyPendingControl
        /\ UNCHANGED <<artifacts, engineRuns, pc, held>>
    BY <1>6 DEF Cycle, workerVars
  <2>2. CASE MayConsume
    <3>1. PICK i \in DOMAIN queue :
            /\ queue' = RemoveAt(queue, i)
            /\ task' = [TaskAfterControl EXCEPT ![queue[i]] = "queued"]
      BY <1>6, <2>2 DEF Cycle
    <3> DEFINE d == queue[i]
    <3>2. d \in Directives /\ task[d] = "absent" /\ engineRuns[d] = 0
      BY DEF TypeOK, AgentInv, QueueIsFresh, EngineRunsOnce
    <3> HIDE DEF d
    <3>3. /\ \A e \in Directives \ {d} :
               \/ task'[e] = task[e]
               \/ task[e] \in {"running", "paused"} /\ task'[e] \in {"paused", "cancelled"}
          /\ task'[d] = "queued"
      BY <3>1, <3>2, ControlEffect DEF AgentInv, d
    <3>4. ActiveTaskIsLive'
      <4>1. ASSUME activeTask' # NoTask
            PROVE  task'[activeTask'] \in {"running", "paused"}
        <5>1. TaskAfterControl[activeTask'] \in {"running", "paused"} /\ activeTask' = activeTask
          BY <2>1, <4>1, ControlEffect DEF AgentInv, ApplyPendingControl
        <5>2. activeTask' # d /\ activeTask' \in Directives
          BY <3>2, <4>1, <5>1 DEF AgentInv, ActiveTaskIsLive, TypeOK
        <5> QED BY <3>1, <5>1, <5>2, ControlEffect DEF AgentInv, d
      <4> QED BY <4>1 DEF ActiveTaskIsLive
    <3>5. EngineRunsOnce' /\ ArtifactMeansSuccess'
      BY <2>1, <3>2, <3>3 DEF AgentInv, EngineRunsOnce, ArtifactMeansSuccess
    <3>6. QueueIsFresh'
      <4>1. /\ queue \in Seq(Directives) /\ i \in DOMAIN queue
            /\ \A k \in DOMAIN queue' : queue'[k] = queue[IF k < i THEN k ELSE k + 1]
            /\ DOMAIN queue' = 1 .. (Len(queue) - 1)
        BY <3>1, RemoveAtFacts DEF TypeOK
      <4>2. /\ i \in 1 .. Len(queue) /\ Len(queue) \in Nat /\ DOMAIN queue = 1 .. Len(queue)
        BY <4>1
      <4>3. ASSUME NEW k \in DOMAIN queue', NEW l \in DOMAIN queue'
            PROVE  task'[queue'[k]] = "absent" /\ (queue'[k] = queue'[l] => k = l)
        <5> DEFINE up(n) == IF n < i THEN n ELSE n + 1
        <5>1. /\ k \in Int /\ l \in Int /\ up(k) \in DOMAIN queue /\ up(l) \in DOMAIN queue
              /\ up(k) # i /\ (up(k) = up(l) => k = l)
              /\ queue'[k] = queue[up(k)] /\ queue'[l] = queue[up(l)]
          BY <4>1, <4>2
        <5> HIDE DEF up
        <5>2. queue[up(k)] \in Directives /\ queue[up(k)] # d /\ task[queue[up(k)]] = "absent"
          BY <4>1, <5>1 DEF AgentInv, QueueIsFresh, d
        <5>3. task'[queue[up(k)]] = "absent"
          BY <3>3, <5>2
        <5> QED BY <5>1, <5>3 DEF AgentInv, QueueIsFresh
      <4> QED BY <4>3 DEF QueueIsFresh
    <3>7. EngineTaskIsOpen' /\ OneEngine'
      <4>1. ASSUME NEW w \in Workers, pc[w] = "engine"
            PROVE  task'[held[w]] \in {"running", "paused", "cancelled"}
        <5>1. held[w] \in Directives /\ task[held[w]] \in {"running", "paused", "cancelled"}
          BY <4>1, HolderHasTask DEF AgentInv, EngineTaskIsOpen
        <5> QED BY <3>2, <3>3, <5>1
      <4> QED BY <2>1, <4>1 DEF AgentInv, EngineTaskIsOpen, OneEngine
    <3> QED BY <3>4, <3>5, <3>6, <3>7 DEF AgentInv
  <2>3. CASE ~MayConsume
    <3>1. task' = TaskAfterControl /\ queue' = queue
      BY <1>6, <2>3 DEF Cycle
    <3> QED BY <2>1, <3>1, ControlKeeps
  <2> QED BY <2>2, <2>3
<1>7. ASSUME NEW sent \in BOOLEAN, Dispatch(sent) PROVE AgentInv'
  BY <1>7, AgentQuiet DEF Dispatch, runtimeVars, workerVars
<1>8. ASSUME NEW w \in Workers, NEW d \in Directives, Receive(w, d) PROVE AgentInv'
  BY <1>8, AgentQuiet DEF Receive, runtimeVars, TypeOK
<1>9. ASSUME NEW w \in Workers, Release(w)
      PROVE  \A v \in Workers : pc'[v] = "engine" => pc[v] = "engine" /\ held'[v] = held[v]
  BY <1>9 DEF Release, TypeOK
<1>10. ASSUME NEW w \in Workers, SkipDelivery(w) PROVE AgentInv'
  BY <1>9, <1>10, AgentQuiet DEF SkipDelivery, runtimeVars
<1>11. ASSUME NEW w \in Workers, Defer(w) PROVE AgentInv'
  BY <1>9, <1>11, ControlKeeps DEF Defer
<1>12. ASSUME NEW w \in Workers, Start(w) PROVE AgentInv'
  <2>1. /\ held[w] \in Directives /\ task[held[w]] = "queued" /\ engineRuns[held[w]] = 0
        /\ task' = [task EXCEPT ![held[w]] = "running"] /\ activeTask' = held[w]
        /\ engineRuns' = [engineRuns EXCEPT ![held[w]] = @ + 1]
        /\ pc' = [pc EXCEPT ![w] = "engine"]
        /\ UNCHANGED <<queue, artifacts, held>>
    BY <1>12, HolderHasTask DEF Start, Claimable, AgentInv, EngineRunsOnce
  <2>2. ActiveTaskIsLive'
    BY <2>1 DEF ActiveTaskIsLive, TypeOK
  <2>3. EngineRunsOnce'
    BY <2>1 DEF AgentInv, EngineRunsOnce, TypeOK
  <2>4. ArtifactMeansSuccess'
    BY <2>1 DEF AgentInv, ArtifactMeansSuccess, TypeOK
  <2>5. QueueIsFresh'
    BY <2>1 DEF AgentInv, QueueIsFresh, TypeOK
  <2>6. EngineTaskIsOpen' /\ OneEngine'
    BY <2>1, HolderHasTask DEF AgentInv, EngineTaskIsOpen, OneEngine, TypeOK
  <2> QED BY <2>2, <2>3, <2>4, <2>5, <2>6 DEF AgentInv
<1>13. ASSUME NEW w \in Workers, NEW s \in {"failed", "succeeded"}, pc[w] # "idle", Finish(w, s),
              pc[w] = "engine" \/ task[held[w]] = "queued"
       PROVE  EngineRunsOnce'
  <2>1. /\ held[w] \in Directives /\ task' = [task EXCEPT ![held[w]] = s]
        /\ engineRuns' = engineRuns
    BY <1>13, HolderHasTask DEF Finish
  <2> QED BY <2>1 DEF AgentInv, EngineRunsOnce, TypeOK
<1>14. ASSUME NEW w \in Workers, FailEarly(w) PROVE AgentInv'
  BY <1>13, <1>14, FinishKeeps DEF FailEarly, Claimable, Finish, AgentInv
<1>15. ASSUME NEW w \in Workers, FailTask(w) PROVE AgentInv'
  BY <1>13, <1>15, FinishKeeps DEF FailTask, Finish, AgentInv
<1>16. ASSUME NEW w \in Workers, Interrupt(w) PROVE AgentInv'
  BY <1>9, <1>16, ControlKeeps DEF Interrupt
<1>17. ASSUME NEW w \in Workers, Succeed(w) PROVE AgentInv'
  BY <1>13, <1>17, FinishKeeps DEF Succeed, Finish, AgentInv
<1>18. ASSUME NEW w \in Workers, NEW again \in BOOLEAN, Lose(w, again) PROVE AgentInv'
  BY <1>9, <1>18, AgentQuiet DEF Lose, runtimeVars
<1>19. ASSUME NEW d \in Directives, NEW sent \in BOOLEAN, RecoverStaleJob(d, sent)
       PROVE  AgentInv'
  BY <1>19, AgentQuiet DEF RecoverStaleJob, runtimeVars, workerVars
<1>20. ASSUME NEW d \in Directives, Redeliver(d) PROVE AgentInv'
  BY <1>20, AgentQuiet DEF Redeliver, runtimeVars, workerVars
<1>21. CASE UNCHANGED vars
  BY <1>21, AgentQuiet DEF vars, runtimeVars, workerVars
<1> QED BY <1>1, <1>3, <1>4, <1>5, <1>6, <1>7, <1>8, <1>10, <1>11, <1>12, <1>14, <1>15,
           <1>16, <1>17, <1>18, <1>19, <1>20, <1>21 DEF Next, Work

\* AgentInv holds throughout.
LEMMA AgentInvariant == Spec => [](TypeOK /\ AgentInv)
<1>1. Init => AgentInv
  BY DEF Init, AgentInv, ActiveTaskIsLive, EngineRunsOnce, ArtifactMeansSuccess, QueueIsFresh,
         EngineTaskIsOpen, OneEngine
<1> QED BY <1>1, AgentTypes, AgentStep, PTL DEF Spec

-----------------------------------------------------------------------------
\* The runtime row never points at a task that is over.
THEOREM ActiveIsLive == Spec => []ActiveTaskIsLive
<1>1. AgentInv => ActiveTaskIsLive
  BY DEF AgentInv
<1> QED BY <1>1, AgentInvariant, PTL

\* However a task's message is repeated, its engine is started once at most.
THEOREM EngineOnce == Spec => []EngineRunsOnce
<1>1. AgentInv => EngineRunsOnce
  BY DEF AgentInv
<1> QED BY <1>1, AgentInvariant, PTL

\* The tasks with a published artifact are the ones that end succeeded.
THEOREM ArtifactIsSuccess == Spec => []ArtifactMeansSuccess
<1>1. AgentInv => ArtifactMeansSuccess
  BY DEF AgentInv
<1> QED BY <1>1, AgentInvariant, PTL

\* Only a cycle plans a task, and only one that leaves the runtime active and no
\* control pending.
THEOREM PausedIsIdle == Spec => PausedPlansNothing
<1> DEFINE Plans == \E d \in Directives : task[d] = "absent" /\ task'[d] = "queued"
<1>1. TypeOK /\ ActiveTaskIsLive /\ [Next]_vars => (Plans => status' = "active" /\ pending' = "none")
  <2> SUFFICES ASSUME TypeOK, ActiveTaskIsLive, [Next]_vars, Plans
               PROVE  status' = "active" /\ pending' = "none"
    OBVIOUS
  <2>1. PICK d \in Directives : task[d] = "absent" /\ task'[d] = "queued"
    OBVIOUS
  <2>2. task' # task /\ task' # TaskAfterControl
    BY <2>1, ControlEffect
  <2>3. ASSUME NEW w \in Workers, NEW s \in {"running", "failed", "succeeded"},
               pc[w] # "idle", task' = [task EXCEPT ![held[w]] = s]
        PROVE  FALSE
    BY <2>1, <2>3, HolderHasTask DEF TypeOK
  <2>4. CASE Cycle
    <3>1. ApplyPendingControl /\ MayConsume
      BY <2>2, <2>4 DEF Cycle
    <3> QED BY <3>1 DEF ApplyPendingControl, MayConsume, StatusAfterControl, TypeOK
  <2>5. ~(\E w \in Workers : Work(w))
    <3> SUFFICES ASSUME NEW w \in Workers, Work(w) PROVE FALSE
      OBVIOUS
    <3>1. ~SkipDelivery(w) /\ ~Defer(w) /\ ~Interrupt(w)
      BY <2>2 DEF SkipDelivery, Defer, Interrupt
    <3>2. ~Start(w) /\ ~FailEarly(w) /\ ~FailTask(w) /\ ~Succeed(w)
      BY <2>3 DEF Start, FailEarly, FailTask, Succeed, Finish
    <3> QED BY <3>1, <3>2 DEF Work
  <2>6. CASE ~Cycle /\ ~(\E w \in Workers : Work(w))
    BY <2>2, <2>6 DEF Next, vars, CreateDirective, Stop, Redeliver, Pause, Request, Resume,
       Dispatch, RecoverStaleJob, Receive, Lose
  <2> QED BY <2>4, <2>5, <2>6
<1>2. TypeOK /\ AgentInv /\ [Next]_vars
        => [(\E d \in Directives : task[d] = "absent" /\ task'[d] = "queued")
              => status' = "active" /\ pending' = "none"]_vars
  BY <1>1 DEF AgentInv
<1> QED BY <1>2, AgentInvariant, PTL DEF Spec, PausedPlansNothing


\* However executors and controls interleave, what the rows say of tasks is so.
THEOREM TaskRecords == Spec => []TaskRecordsAgree
<1>1. TypeOK /\ ActiveTaskIsLive /\ ArtifactMeansSuccess => TaskRecordsAgree
  BY DEF TaskRecordsAgree
<1> QED BY <1>1, AgentTypes, ActiveIsLive, ArtifactIsSuccess, PTL
=============================================================================
