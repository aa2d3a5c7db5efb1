-------------------------- MODULE MarketDataProofs --------------------------
(***************************************************************************)
(* Theorems about the analysis of a market dataset, for every number of    *)
(* jobs, workers, open requests, files and revisions.                      *)
(***************************************************************************)
EXTENDS MarketData, TLAPS

USE DEF Revisions, RevisionStates, Grades, Files, Operations

\* What the job row's lock gives: the job of a delivery that passed its claim is
\* queued and no other delivery of it passed, and a message names a job that exists.
Locks ==
  /\ \A j \in Jobs : msgs[j] > 0 => jobStatus[j] # "absent"
  /\ \A w \in Workers :
       /\ worker[w].pc # "idle" => worker[w].job \in Jobs /\ jobStatus[worker[w].job] # "absent"
       /\ worker[w].pc = "analyzing" => /\ jobStatus[worker[w].job] = "queued"
                                        /\ worker[w].file \in Files
  /\ \A u, w \in Workers :
       worker[u].pc = "analyzing" /\ worker[w].pc = "analyzing" /\ worker[u].job = worker[w].job
         => u = w

\* What a state, stored or copied, says of the runs of its revision.
Backed(state, v) == state \in {"verified", "approved", "deprecated"} => HasAnalysis(v, "pass")
Seen(grade, v) == grade # "none" => HasAnalysis(v, grade)

\* Verification is earned in every copy too: those are written back.
Earned ==
  /\ \A v \in Revisions : Backed(revState[v], v) /\ Seen(validation[v], v)
  /\ \A q \in Requests : request[q] # NoRequest => Backed(request[q].seen, request[q].rev)
  /\ \A w \in Workers :
       worker[w].pc = "analyzing" => /\ Backed(worker[w].seen, jobRev[worker[w].job])
                                     /\ Seen(worker[w].seenStatus, jobRev[worker[w].job])

-----------------------------------------------------------------------------
(* Types *)

\* A queued message keeps the types.
LEMMA SendType ==
  ASSUME NEW j \in Jobs, NEW sent \in BOOLEAN, msgs \in [Jobs -> Nat],
         sends \in 0 .. MaxSends, Send(j, sent)
  PROVE  msgs' \in [Jobs -> Nat] /\ sends' \in 0 .. MaxSends
  BY MarketBoundsAssumption DEF Send, queueVars

\* A request that is open names a revision that exists.
LEMMA OpenRequestNames ==
  ASSUME TypeOK, NEW q \in Requests, request[q].op # "none"
  PROVE  request[q] \in OpenRequests /\ request[q].rev \in Revisions
<1>1. request[q] # NoRequest
  BY DEF NoRequest
<1>2. request[q] \in OpenRequests /\ head \in Revisions
  BY <1>1 DEF TypeOK
<1> QED BY <1>2, MarketBoundsAssumption DEF OpenRequests

\* Closing a request leaves the others as they were.
LEMMA CloseType ==
  ASSUME TypeOK, NEW q \in Requests, Close(q), head' = head
  PROVE  request' \in [Requests -> OpenRequests' \cup {NoRequest}]
  BY DEF TypeOK, Close, OpenRequests

\* An assigned state goes to a revision that exists.
LEMMA AssignType ==
  ASSUME TypeOK, NEW q \in Requests, request[q].op # "none",
         NEW state \in RevisionStates \ {"absent"}, Assign(q, state)
  PROVE  /\ revState' \in [Revisions -> RevisionStates]
         /\ \A v \in Revisions : revState'[v] = "absent" <=> v > head
<1>1. request[q].rev \in 1 .. head /\ request[q].rev \in Revisions
  BY OpenRequestNames DEF OpenRequests
<1>2. head \in Revisions /\ revState \in [Revisions -> RevisionStates]
  BY DEF TypeOK
<1>3. revState[request[q].rev] # "absent"
  BY <1>1, <1>2, MarketBoundsAssumption DEF TypeOK
<1> QED BY <1>1, <1>2, <1>3 DEF Assign, Flush, TypeOK

\* Only the delivery of one thread changes.
LEMMA WorkerType ==
  ASSUME TypeOK, NEW w \in Workers, clock' = clock, NEW d \in Deliveries,
         d.pc = "idle" <=> d = Idle, worker' = [worker EXCEPT ![w] = d]
  PROVE  /\ worker' \in [Workers -> Deliveries']
         /\ \A u \in Workers : worker'[u].pc = "idle" <=> worker'[u] = Idle
<1>1. Deliveries' = Deliveries
  BY DEF Deliveries
<1> QED BY <1>1 DEF TypeOK

\* The idle record, and what a thread that is not idle has.
LEMMA IdleType ==
  ASSUME clock \in Nat
  PROVE  Idle \in Deliveries /\ Idle.pc = "idle"
  BY DEF Idle, Deliveries

\* A revision that an existing job names is an existing revision.
LEMMA JobNames ==
  ASSUME TypeOK, NEW j \in Jobs, jobStatus[j] # "absent"
  PROVE  jobRev[j] \in 1 .. head /\ jobRev[j] \in Revisions
<1>1. jobRev[j] \in 0 .. head /\ jobRev[j] # 0 /\ head \in Revisions
  BY DEF TypeOK
<1> QED BY <1>1, MarketBoundsAssumption

\* A command only moves one revision, the requests and the queue.
LEMMA CommandType ==
  ASSUME TypeOK, NEW q \in Requests, request[q].op # "none",
         NEW state \in RevisionStates \ {"absent"}, Assign(q, state), Close(q),
         UNCHANGED <<validation, head, uploads, jobVars, queueVars, clock, worker>>
  PROVE  TypeOK'
<1>1. request' \in [Requests -> OpenRequests' \cup {NoRequest}]
  BY CloseType
<1>2. /\ revState' \in [Revisions -> RevisionStates]
      /\ \A v \in Revisions : revState'[v] = "absent" <=> v > head
  BY AssignType
<1> QED BY <1>1, <1>2 DEF TypeOK, jobVars, queueVars, Deliveries

\* Every step keeps the types.
LEMMA TypeStep == TypeOK /\ Locks /\ [Next]_vars => TypeOK'
<1> SUFFICES ASSUME TypeOK, Locks, [Next]_vars PROVE TypeOK'
  OBVIOUS
<1>1. CASE CreateRevision
  <2>1. head + 1 \in Revisions /\ head' = head + 1 /\ 1 .. head \subseteq 1 .. head + 1
    BY <1>1, MarketBoundsAssumption DEF CreateRevision, TypeOK
  <2>2. OpenRequests \subseteq OpenRequests'
    BY <2>1 DEF OpenRequests
  <2>3. /\ revState' \in [Revisions -> RevisionStates]
        /\ \A v \in Revisions : revState'[v] = "absent" <=> v > head'
    BY <1>1, <2>1 DEF CreateRevision, TypeOK
  <2>4. jobRev' \in [Jobs -> 0 .. head'] /\ request' \in [Requests -> OpenRequests' \cup {NoRequest}]
    BY <1>1, <2>1, <2>2 DEF CreateRevision, TypeOK, jobVars
  <2>5. Deliveries' = Deliveries
    BY <1>1 DEF CreateRevision, Deliveries
  <2> QED BY <1>1, <2>1, <2>3, <2>4, <2>5 DEF CreateRevision, TypeOK, jobVars, queueVars
<1>2. ASSUME NEW f \in Files, Upload(f) PROVE TypeOK'
  BY <1>2 DEF Upload, TypeOK, revisionVars, jobVars, queueVars, OpenRequests, Deliveries
<1>3. ASSUME NEW q \in Requests, NEW op \in Operations, NEW v \in Revisions, OpenRequest(q, op, v)
      PROVE  TypeOK'
  <2>1. revState[v] \in RevisionStates \ {"absent"}
    BY <1>3, MarketBoundsAssumption DEF OpenRequest, TypeOK
  <2>2. [op |-> op, rev |-> v, seen |-> revState[v]] \in OpenRequests
    BY <1>3, <2>1 DEF OpenRequest, OpenRequests
  <2>3. request' \in [Requests -> OpenRequests \cup {NoRequest}]
    BY <1>3, <2>2 DEF OpenRequest, TypeOK
  <2> QED BY <1>3, <2>3 DEF OpenRequest, TypeOK, revisionVars, jobVars, queueVars, OpenRequests, Deliveries
<1>4. ASSUME NEW q \in Requests, NEW j \in Jobs, NEW sent \in BOOLEAN, RequestAnalysis(q, j, sent)
      PROVE  TypeOK'
  <2>1. request[q].op # "none" /\ request[q].rev \in 1 .. head
    BY <1>4, OpenRequestNames DEF RequestAnalysis, OpenRequests
  <2>2. /\ revState' \in [Revisions -> RevisionStates]
        /\ \A v \in Revisions : revState'[v] = "absent" <=> v > head
    BY <1>4, <2>1, AssignType DEF RequestAnalysis
  <2>3. request' \in [Requests -> OpenRequests' \cup {NoRequest}]
    BY <1>4, <2>1, CloseType DEF RequestAnalysis
  <2>4. msgs' \in [Jobs -> Nat] /\ sends' \in 0 .. MaxSends
    BY <1>4, SendType DEF RequestAnalysis, TypeOK
  <2>5. /\ jobStatus' \in [Jobs -> {"absent", "queued", "succeeded"}]
        /\ jobRev' \in [Jobs -> 0 .. head]
        /\ \A i \in Jobs : jobRev'[i] = 0 <=> jobStatus'[i] = "absent"
    BY <1>4, <2>1, MarketBoundsAssumption DEF RequestAnalysis, TypeOK
  <2> QED BY <1>4, <2>2, <2>3, <2>4, <2>5 DEF RequestAnalysis, TypeOK, Deliveries
<1>5. ASSUME NEW q \in Requests, FinalizeUpload(q) PROVE TypeOK'
  <2>1. request[q].op # "none" /\ request[q].seen \in RevisionStates \ {"absent"}
    BY <1>5, OpenRequestNames DEF FinalizeUpload, OpenRequests
  <2>2. (IF request[q].seen = "draft" THEN "uploading" ELSE request[q].seen)
          \in RevisionStates \ {"absent"}
    BY <2>1
  <2> QED BY <1>5, <2>1, <2>2, CommandType DEF FinalizeUpload
<1>6. ASSUME NEW q \in Requests, Approve(q) PROVE TypeOK'
  BY <1>6, CommandType DEF Approve
<1>7. ASSUME NEW q \in Requests, Deprecate(q) PROVE TypeOK'
  BY <1>7, CommandType DEF Deprecate
<1>8. ASSUME NEW q \in Requests, Refuse(q) PROVE TypeOK'
  <2>1. request' \in [Requests -> OpenRequests' \cup {NoRequest}]
    BY <1>8, CloseType DEF Refuse, revisionVars
  <2> QED BY <1>8, <2>1 DEF Refuse, TypeOK, revisionVars, jobVars, queueVars, Deliveries
<1>9. ASSUME NEW j \in Jobs, Redeliver(j) PROVE TypeOK'
  <2>1. msgs' \in [Jobs -> Nat] /\ sends' \in 0 .. MaxSends
    BY <1>9, SendType DEF Redeliver, TypeOK
  <2> QED BY <1>9, <2>1 DEF Redeliver, TypeOK, revisionVars, jobVars, OpenRequests, Deliveries
<1>10. ASSUME NEW w \in Workers, ReplayTerminal(w) PROVE TypeOK'
  <2>1. /\ worker' \in [Workers -> Deliveries']
        /\ \A u \in Workers : worker'[u].pc = "idle" <=> worker'[u] = Idle
    BY <1>10, WorkerType, IdleType DEF ReplayTerminal, TypeOK
  <2> QED BY <1>10, <2>1 DEF ReplayTerminal, TypeOK, revisionVars, jobVars, queueVars, OpenRequests
<1>11. ASSUME NEW w \in Workers, Claim(w) PROVE TypeOK'
  <2> DEFINE j == worker[w].job
             d == [worker[w] EXCEPT !.pc = "analyzing", !.seen = revState[jobRev[j]],
                                    !.seenStatus = validation[jobRev[j]], !.file = Last(uploads)]
  <2>1. worker[w] \in Deliveries /\ j \in Jobs /\ jobStatus[j] # "absent"
    BY <1>11 DEF Claim, TypeOK, Locks
  <2>2. jobRev[j] \in Revisions
    BY <2>1, JobNames
  <2>3. Last(uploads) \in Files
    BY <1>11 DEF Claim, TypeOK, Last
  <2>4. revState[jobRev[j]] \in RevisionStates /\ validation[jobRev[j]] \in Grades \cup {"none"}
    BY <2>2 DEF TypeOK
  <2>5. d \in Deliveries /\ d.pc = "analyzing"
    BY <2>1, <2>3, <2>4 DEF Deliveries
  <2>6. d # Idle
    BY <2>5 DEF Idle
  <2>7. worker' = [worker EXCEPT ![w] = d]
    BY <1>11 DEF Claim, TypeOK
  <2>8. clock' = clock
    BY <1>11 DEF Claim
  <2> HIDE DEF d
  <2>9. /\ worker' \in [Workers -> Deliveries']
        /\ \A u \in Workers : worker'[u].pc = "idle" <=> worker'[u] = Idle
    BY <2>5, <2>6, <2>7, <2>8, WorkerType
  <2> QED BY <1>11, <2>9 DEF Claim, TypeOK, revisionVars, jobVars, queueVars, OpenRequests
<1>12. ASSUME NEW w \in Workers, Complete(w) PROVE TypeOK'
  <2> DEFINE j == worker[w].job
             grade == Grade(worker[w].file)
  <2>1. /\ worker[w] \in Deliveries /\ j \in Jobs /\ jobStatus[j] = "queued"
        /\ worker[w].seen \in RevisionStates /\ worker[w].at \in Nat
    BY <1>12 DEF Complete, TypeOK, Locks, Deliveries
  <2>2. jobRev[j] \in Revisions /\ jobRev[j] \in 1 .. head
    BY <2>1, JobNames
  <2>3. grade \in Grades
    BY DEF Grade
  <2>4. DecideOutcome(grade) \in RevisionStates \ {"absent"}
    BY DEF DecideOutcome
  <2>5. analyses' \in [Jobs -> Seq(Analysis)]
    <3>1. [rev |-> jobRev[j], at |-> worker[w].at, grade |-> grade] \in Analysis
      BY <2>1, <2>2, <2>3 DEF Analysis
    <3> QED BY <1>12, <2>1, <3>1 DEF Complete, TypeOK
  <2>6. validation' \in [Revisions -> Grades \cup {"none"}]
    BY <1>12, <2>2, <2>3 DEF Complete, TypeOK, Flush
  <2>7. /\ revState' \in [Revisions -> RevisionStates]
        /\ \A v \in Revisions : revState'[v] = "absent" <=> v > head
    <3>1. revState[jobRev[j]] # "absent"
      BY <2>2, MarketBoundsAssumption DEF TypeOK
    <3> QED BY <1>12, <2>1, <2>2, <2>4, <3>1 DEF Complete, TypeOK, Flush
  <2>8. /\ jobStatus' \in [Jobs -> {"absent", "queued", "succeeded"}]
        /\ \A i \in Jobs : jobRev[i] = 0 <=> jobStatus'[i] = "absent"
    BY <1>12, <2>1 DEF Complete, TypeOK
  <2>9. /\ worker' \in [Workers -> Deliveries']
        /\ \A u \in Workers : worker'[u].pc = "idle" <=> worker'[u] = Idle
    BY <1>12, WorkerType, IdleType DEF Complete, TypeOK
  <2> QED BY <1>12, <2>5, <2>6, <2>7, <2>8, <2>9 DEF Complete, TypeOK, queueVars, OpenRequests
<1>13. ASSUME NEW w \in Workers, NEW j \in Jobs, Receive(w, j) PROVE TypeOK'
  <2>1. clock' = clock + 1 /\ clock \in Nat
    BY <1>13 DEF Receive, TypeOK
  <2>2. Deliveries \subseteq Deliveries'
    BY <2>1 DEF Deliveries
  <2> DEFINE d == [pc |-> "waiting", job |-> j, at |-> clock + 1, seen |-> "absent",
                   seenStatus |-> "none", file |-> NoFile]
  <2>3. d \in Deliveries' /\ d # Idle /\ d.pc # "idle"
    BY <2>1 DEF Deliveries, Idle
  <2>4. worker' = [worker EXCEPT ![w] = d]
    BY <1>13 DEF Receive
  <2> HIDE DEF d
  <2>5. worker' \in [Workers -> Deliveries']
    BY <2>2, <2>3, <2>4 DEF TypeOK
  <2>6. \A u \in Workers : worker'[u].pc = "idle" <=> worker'[u] = Idle
    BY <2>3, <2>4 DEF TypeOK
  <2>7. msgs' \in [Jobs -> Nat]
    BY <1>13 DEF Receive, TypeOK
  <2> QED BY <1>13, <2>1, <2>5, <2>6, <2>7 DEF Receive, TypeOK, revisionVars, jobVars, OpenRequests
<1>14. ASSUME NEW w \in Workers, NEW retried \in BOOLEAN, Lose(w, retried) PROVE TypeOK'
  <2>1. worker[w].job \in Jobs
    BY <1>14 DEF Lose, Locks, TypeOK
  <2>2. msgs' \in [Jobs -> Nat] /\ sends' \in 0 .. MaxSends
    BY <1>14, <2>1, SendType DEF Lose, TypeOK
  <2>3. /\ worker' \in [Workers -> Deliveries']
        /\ \A u \in Workers : worker'[u].pc = "idle" <=> worker'[u] = Idle
    BY <1>14, WorkerType, IdleType DEF Lose, TypeOK
  <2> QED BY <1>14, <2>2, <2>3 DEF Lose, TypeOK, revisionVars, jobVars, OpenRequests
<1>15. CASE UNCHANGED vars
  BY <1>15 DEF vars, TypeOK, revisionVars, jobVars, queueVars, OpenRequests, Deliveries
<1> QED
  BY <1>1, <1>2, <1>3, <1>4, <1>5, <1>6, <1>7, <1>8, <1>9, <1>10, <1>11, <1>12, <1>13, <1>14, <1>15
  DEF Next, Command

-----------------------------------------------------------------------------
(* The lock of the job row *)

\* A thread that goes idle, or waits for a job that exists, keeps the lock's promise.
LEMMA LocksFrame ==
  ASSUME TypeOK, Locks, NEW w \in Workers, worker' = [worker EXCEPT ![w] = Idle],
         jobStatus' = jobStatus, \A j \in Jobs : msgs'[j] > 0 => jobStatus[j] # "absent"
  PROVE  Locks'
<1>1. worker'[w].pc = "idle" /\ \A u \in Workers : u # w => worker'[u] = worker[u]
  BY DEF TypeOK, Idle
<1> QED BY <1>1 DEF Locks

\* Every step keeps the locks.
LEMMA LockStep == TypeOK /\ Locks /\ [Next]_vars => Locks'
<1> SUFFICES ASSUME TypeOK, Locks, [Next]_vars PROVE Locks'
  OBVIOUS
<1>1. CASE UNCHANGED <<jobStatus, msgs, worker>>
  BY <1>1 DEF Locks
<1>2. ASSUME NEW q \in Requests, NEW j \in Jobs, NEW sent \in BOOLEAN, RequestAnalysis(q, j, sent)
      PROVE  Locks'
  <2>1. /\ jobStatus' = [jobStatus EXCEPT ![j] = "queued"]
        /\ jobStatus[j] = "absent"
        /\ worker' = worker
        /\ \A i \in Jobs : i # j => msgs'[i] = msgs[i]
    BY <1>2 DEF RequestAnalysis, Send, queueVars, TypeOK
  <2>2. \A i \in Jobs : jobStatus[i] # "absent" => jobStatus'[i] = jobStatus[i]
    BY <2>1 DEF TypeOK
  <2>3. jobStatus'[j] = "queued"
    BY <2>1 DEF TypeOK
  <2> QED BY <2>1, <2>2, <2>3 DEF Locks
<1>3. ASSUME NEW j \in Jobs, Redeliver(j) PROVE Locks'
  <2>1. /\ jobStatus' = jobStatus /\ jobStatus[j] = "queued" /\ worker' = worker
        /\ \A i \in Jobs : i # j => msgs'[i] = msgs[i]
    BY <1>3 DEF Redeliver, Send, jobVars, TypeOK
  <2> QED BY <2>1 DEF Locks
<1>4. ASSUME NEW w \in Workers, ReplayTerminal(w) PROVE Locks'
  <2>1. \A j \in Jobs : msgs'[j] > 0 => jobStatus[j] # "absent"
    BY <1>4 DEF ReplayTerminal, queueVars, Locks
  <2> QED BY <1>4, <2>1, LocksFrame DEF ReplayTerminal, jobVars
<1>5. ASSUME NEW w \in Workers, Claim(w) PROVE Locks'
  <2>1. /\ worker'[w].pc = "analyzing" /\ worker'[w].job = worker[w].job
        /\ worker'[w].file = Last(uploads)
        /\ \A u \in Workers : u # w => worker'[u] = worker[u]
    BY <1>5 DEF Claim, TypeOK, Deliveries
  <2>2. Last(uploads) \in Files
    BY <1>5 DEF Claim, TypeOK, Last
  <2>3. /\ worker[w].job \in Jobs /\ jobStatus[worker[w].job] = "queued"
        /\ \A u \in Workers : worker[u].pc = "analyzing" => worker[u].job # worker[w].job
    BY <1>5 DEF Claim, JobLocked, Locks
  <2>4. jobStatus' = jobStatus /\ msgs' = msgs
    BY <1>5 DEF Claim, jobVars, queueVars
  <2> QED BY <2>1, <2>2, <2>3, <2>4 DEF Locks
<1>6. ASSUME NEW w \in Workers, Complete(w) PROVE Locks'
  <2> DEFINE j == worker[w].job
  <2>1. /\ worker'[w].pc = "idle"
        /\ \A u \in Workers : u # w => worker'[u] = worker[u]
    BY <1>6 DEF Complete, TypeOK, Idle
  <2>2. /\ j \in Jobs /\ jobStatus'[j] = "succeeded"
        /\ \A i \in Jobs : i # j => jobStatus'[i] = jobStatus[i]
        /\ \A u \in Workers : u # w /\ worker[u].pc = "analyzing" => worker[u].job # j
    BY <1>6 DEF Complete, TypeOK, Locks
  <2>3. msgs' = msgs
    BY <1>6 DEF Complete, queueVars
  <2> QED BY <2>1, <2>2, <2>3 DEF Locks
<1>7. ASSUME NEW w \in Workers, NEW j \in Jobs, Receive(w, j) PROVE Locks'
  <2>1. /\ worker'[w].pc = "waiting" /\ worker'[w].job = j
        /\ \A u \in Workers : u # w => worker'[u] = worker[u]
    BY <1>7 DEF Receive, TypeOK
  <2>2. jobStatus' = jobStatus /\ jobStatus[j] # "absent"
    BY <1>7 DEF Receive, jobVars, Locks
  <2>3. \A i \in Jobs : msgs'[i] > 0 => msgs[i] > 0
    BY <1>7 DEF Receive, TypeOK
  <2> QED BY <2>1, <2>2, <2>3 DEF Locks
<1>8. ASSUME NEW w \in Workers, NEW retried \in BOOLEAN, Lose(w, retried) PROVE Locks'
  <2>1. worker[w].job \in Jobs /\ jobStatus[worker[w].job] # "absent"
    BY <1>8 DEF Lose, TypeOK, Locks
  <2>2. \A j \in Jobs : j # worker[w].job => msgs'[j] = msgs[j]
    BY <1>8, <2>1 DEF Lose, Send, queueVars, TypeOK
  <2>3. \A j \in Jobs : msgs'[j] > 0 => jobStatus[j] # "absent"
    BY <2>1, <2>2 DEF Locks
  <2> QED BY <1>8, <2>3, LocksFrame DEF Lose, jobVars
<1> QED
  BY <1>1, <1>2, <1>3, <1>4, <1>5, <1>6, <1>7, <1>8
  DEF Next, Command, vars, CreateRevision, Upload, OpenRequest, FinalizeUpload, Approve, Deprecate,
      Refuse, jobVars, queueVars

\* Every step keeps one analysis per job.
LEMMA OnceStep == TypeOK /\ Locks /\ OneAnalysisPerJob /\ [Next]_vars => OneAnalysisPerJob'
<1> SUFFICES ASSUME TypeOK, Locks, OneAnalysisPerJob, [Next]_vars PROVE OneAnalysisPerJob'
  OBVIOUS
<1>1. CASE UNCHANGED <<jobStatus, analyses>>
  BY <1>1 DEF OneAnalysisPerJob
<1>2. ASSUME NEW q \in Requests, NEW j \in Jobs, NEW sent \in BOOLEAN, RequestAnalysis(q, j, sent)
      PROVE  OneAnalysisPerJob'
  BY <1>2 DEF RequestAnalysis, OneAnalysisPerJob, TypeOK
<1>3. ASSUME NEW w \in Workers, Complete(w) PROVE OneAnalysisPerJob'
  <2> DEFINE j == worker[w].job
  <2>1. j \in Jobs /\ jobStatus[j] = "queued" /\ analyses[j] \in Seq(Analysis)
    BY <1>3 DEF Complete, Locks, TypeOK
  <2>2. Len(analyses[j]) = 0
    BY <2>1 DEF OneAnalysisPerJob
  <2>3. jobStatus'[j] = "succeeded" /\ Len(analyses'[j]) = 1
    BY <1>3, <2>1, <2>2 DEF Complete, TypeOK
  <2>4. \A i \in Jobs : i # j => jobStatus'[i] = jobStatus[i] /\ analyses'[i] = analyses[i]
    BY <1>3, <2>1 DEF Complete, TypeOK
  <2> QED BY <2>3, <2>4 DEF OneAnalysisPerJob
<1> QED
  BY <1>1, <1>2, <1>3
  DEF Next, Command, vars, CreateRevision, Upload, OpenRequest, FinalizeUpload, Approve, Deprecate,
      Refuse, Redeliver, ReplayTerminal, Claim, Receive, Lose, jobVars

-----------------------------------------------------------------------------
(* Verification is earned *)

\* Validation runs are append-only: a run that exists stays.
LEMMA RunsStay ==
  ASSUME TypeOK, NEW w \in Workers, worker[w].job \in Jobs, NEW a \in Analysis,
         analyses' = [analyses EXCEPT ![worker[w].job] = Append(@, a)]
  PROVE  /\ \A v \in Revisions, grade \in Grades : HasAnalysis(v, grade) => HasAnalysis(v, grade)'
         /\ HasAnalysis(a.rev, a.grade)'
<1> DEFINE j == worker[w].job
<1>1. analyses[j] \in Seq(Analysis) /\ analyses'[j] = Append(analyses[j], a)
  BY DEF TypeOK
<1>2. /\ Len(analyses'[j]) = Len(analyses[j]) + 1
      /\ analyses'[j][Len(analyses[j]) + 1] = a
      /\ \A i \in 1 .. Len(analyses[j]) : analyses'[j][i] = analyses[j][i]
      /\ 1 .. Len(analyses[j]) \subseteq 1 .. Len(analyses'[j])
      /\ Len(analyses[j]) + 1 \in 1 .. Len(analyses'[j])
  BY <1>1
<1>3. \A k \in Jobs : k # j => analyses'[k] = analyses[k]
  BY DEF TypeOK
<1>4. ASSUME NEW v \in Revisions, NEW grade \in Grades, HasAnalysis(v, grade)
      PROVE  HasAnalysis(v, grade)'
  <2>1. PICK k \in Jobs : \E i \in 1 .. Len(analyses[k]) :
          analyses[k][i].rev = v /\ analyses[k][i].grade = grade
    BY <1>4 DEF HasAnalysis
  <2>3. PICK i \in 1 .. Len(analyses[k]) :
          analyses[k][i].rev = v /\ analyses[k][i].grade = grade
    BY <2>1
  <2>2. i \in 1 .. Len(analyses'[k]) /\ analyses'[k][i] = analyses[k][i]
    BY <1>2, <1>3
  <2> QED BY <2>2, <2>3 DEF HasAnalysis
<1>5. HasAnalysis(a.rev, a.grade)'
  BY <1>2 DEF HasAnalysis
<1> QED BY <1>4, <1>5

\* When no run is added, what is backed stays backed.
LEMMA SameRuns ==
  ASSUME analyses' = analyses
  PROVE  \A v, grade : HasAnalysis(v, grade)' <=> HasAnalysis(v, grade)
  BY DEF HasAnalysis

\* A command that assigns a state its copy backs keeps verification earned.
LEMMA CommandEarns ==
  ASSUME TypeOK, Earned, NEW q \in Requests, request[q].op # "none",
         NEW state \in RevisionStates, Backed(state, request[q].rev),
         Assign(q, state), Close(q), UNCHANGED <<validation, analyses, worker>>,
         \A w \in Workers : worker[w].pc = "analyzing"
                             => jobRev'[worker[w].job] = jobRev[worker[w].job]
  PROVE  Earned'
<1>1. request[q].rev \in Revisions
  BY OpenRequestNames
<1>2. \A v \in Revisions : Backed(revState'[v], v) /\ Seen(validation[v], v)
  BY <1>1 DEF Assign, Flush, Earned, TypeOK
<1>3. \A p \in Requests :
        request'[p] # NoRequest => Backed(request'[p].seen, request'[p].rev)
  BY DEF Close, Earned, TypeOK
<1> QED BY <1>2, <1>3, SameRuns DEF Earned, Backed, Seen

\* A step that adds no run and moves no revision, and leaves nothing new in a copy.
LEMMA QuietEarns ==
  ASSUME Earned, UNCHANGED <<revState, validation, analyses>>,
         \A q \in Requests : request'[q] = NoRequest \/ request'[q] = request[q],
         \A w \in Workers :
           worker'[w].pc = "analyzing"
             => worker'[w] = worker[w] /\ jobRev'[worker[w].job] = jobRev[worker[w].job]
  PROVE  Earned'
  BY SameRuns DEF Earned, Backed, Seen

\* A finished analysis backs the state and the status it writes.
LEMMA CompleteEarns ==
  ASSUME TypeOK, Locks, Earned, NEW w \in Workers, worker[w].job \in Jobs,
         NEW v \in Revisions, NEW grade \in Grades, NEW next, NEW seen, NEW seenStatus,
         NEW a \in Analysis, a.rev = v, a.grade = grade,
         next \in {"verified", "approved", "deprecated"} => grade = "pass" \/ HasAnalysis(v, "pass"),
         analyses' = [analyses EXCEPT ![worker[w].job] = Append(@, a)],
         revState' = [revState EXCEPT ![v] = Flush(@, seen, next)],
         validation' = [validation EXCEPT ![v] = Flush(@, seenStatus, grade)],
         UNCHANGED <<jobRev, request>>,
         \A u \in Workers : worker'[u].pc = "analyzing" => worker'[u] = worker[u]
  PROVE  Earned'
<1>1. /\ \A x \in Revisions, g \in Grades : HasAnalysis(x, g) => HasAnalysis(x, g)'
      /\ HasAnalysis(v, grade)'
  BY RunsStay
<1>2. \A x \in Revisions : Backed(revState[x], x)'
  <2>1. \A x \in Revisions : x # v => revState'[x] = revState[x]
    BY DEF TypeOK
  <2>2. revState'[v] = revState[v] \/ revState'[v] = next
    BY DEF TypeOK, Flush
  <2>3. ASSUME NEW x \in Revisions, revState'[x] \in {"verified", "approved", "deprecated"}
        PROVE  HasAnalysis(x, "pass")'
    BY <1>1, <2>1, <2>2, <2>3 DEF Earned, Backed
  <2> QED BY <2>3 DEF Backed
<1>3. \A x \in Revisions : Seen(validation[x], x)'
  <2>1. \A x \in Revisions : x # v => validation'[x] = validation[x]
    BY DEF TypeOK
  <2>2. validation'[v] = validation[v] \/ validation'[v] = grade
    BY DEF TypeOK, Flush
  <2>3. ASSUME NEW x \in Revisions, NEW g \in Grades, validation'[x] = g
        PROVE  HasAnalysis(x, g)'
    <3>1. CASE x = v /\ g = grade
      BY <1>1, <3>1
    <3>2. CASE validation[x] = g
      BY <1>1, <3>2 DEF Earned, Seen
    <3> QED BY <2>1, <2>2, <2>3, <3>1, <3>2
  <2>4. \A x \in Revisions : validation'[x] \in Grades \cup {"none"}
    BY <2>1, <2>2 DEF TypeOK
  <2>5. ASSUME NEW x \in Revisions, validation'[x] # "none"
        PROVE  \E j \in Jobs : \E i \in 1 .. Len(analyses'[j]) :
                 analyses'[j][i].rev = x /\ analyses'[j][i].grade = validation'[x]
    <3>1. PICK g \in Grades : g = validation'[x]
      BY <2>4, <2>5
    <3>2. HasAnalysis(x, g)'
      BY <2>3, <3>1
    <3>3. \E j \in Jobs : \E i \in 1 .. Len(analyses'[j]) :
            analyses'[j][i].rev = x /\ analyses'[j][i].grade = g
      BY <3>2 DEF HasAnalysis
    <3> QED BY <3>1, <3>3
  <2> QED BY <2>5 DEF Seen, HasAnalysis
<1>4. \A q \in Requests : request'[q] # NoRequest => Backed(request[q].seen, request[q].rev)'
  <2>1. \A q \in Requests : request[q] # NoRequest => request[q].rev \in Revisions
    <3>1. \A q \in Requests : request[q] # NoRequest => request[q].op # "none"
      BY DEF TypeOK, OpenRequests
    <3> QED BY <3>1, OpenRequestNames
  <2> QED BY <1>1, <2>1 DEF Earned, Backed
<1>5. ASSUME NEW u \in Workers, worker'[u].pc = "analyzing"
      PROVE  /\ Backed(worker[u].seen, jobRev[worker[u].job])'
             /\ Seen(worker[u].seenStatus, jobRev[worker[u].job])'
  <2>1. worker'[u] = worker[u] /\ jobRev' = jobRev
    BY <1>5
  <2>2. jobRev[worker[u].job] \in Revisions /\ worker[u].seenStatus \in Grades \cup {"none"}
    BY <1>5, <2>1, JobNames DEF Locks, TypeOK, Deliveries
  <2> QED BY <1>1, <1>5, <2>1, <2>2 DEF Earned, Backed, Seen
<1> QED BY <1>2, <1>3, <1>4, <1>5 DEF Earned

\* Every step keeps what revisions have earned.
LEMMA EarnedStep == TypeOK /\ Locks /\ Earned /\ [Next]_vars => Earned'
<1> SUFFICES ASSUME TypeOK, Locks, Earned, [Next]_vars PROVE Earned'
  OBVIOUS
<1>1. CASE UNCHANGED <<revState, validation, jobRev, analyses, request, worker>>
  BY <1>1, QuietEarns
<1>2. CASE CreateRevision
  <2>1. \A v \in Revisions : Backed(revState'[v], v) /\ Seen(validation[v], v)
    BY <1>2 DEF CreateRevision, Earned, Backed, TypeOK
  <2> QED BY <1>2, <2>1, SameRuns DEF CreateRevision, Earned, Backed, Seen, jobVars
<1>3. ASSUME NEW q \in Requests, NEW op \in Operations, NEW v \in Revisions, OpenRequest(q, op, v)
      PROVE  Earned'
  <2>1. /\ request'[q].seen = revState[v] /\ request'[q].rev = v
        /\ \A p \in Requests : p # q => request'[p] = request[p]
    BY <1>3 DEF OpenRequest, TypeOK
  <2>2. \A p \in Requests :
          request'[p] # NoRequest => Backed(request'[p].seen, request'[p].rev)
    BY <2>1 DEF Earned
  <2> QED BY <1>3, <2>2, SameRuns DEF OpenRequest, Earned, Backed, Seen, revisionVars, jobVars
<1>4. ASSUME NEW q \in Requests, NEW j \in Jobs, NEW sent \in BOOLEAN, RequestAnalysis(q, j, sent)
      PROVE  Earned'
  <2>1. \A w \in Workers : worker[w].pc = "analyzing"
                            => jobRev'[worker[w].job] = jobRev[worker[w].job]
    BY <1>4 DEF RequestAnalysis, Locks, TypeOK
  <2> QED BY <1>4, <2>1, CommandEarns DEF RequestAnalysis, Backed
<1>5. ASSUME NEW q \in Requests, FinalizeUpload(q) PROVE Earned'
  <2>1. request[q].op # "none" /\ request[q].seen \in RevisionStates
    BY <1>5, OpenRequestNames DEF FinalizeUpload, OpenRequests
  <2>2. Backed(request[q].seen, request[q].rev) /\ Backed("uploading", request[q].rev)
    BY <2>1 DEF Earned, Backed, NoRequest
  <2>3. CASE request[q].seen = "draft"
    BY <1>5, <2>1, <2>2, <2>3, CommandEarns DEF FinalizeUpload, jobVars
  <2>4. CASE request[q].seen # "draft"
    BY <1>5, <2>1, <2>2, <2>4, CommandEarns DEF FinalizeUpload, jobVars
  <2> QED BY <2>3, <2>4
<1>6. ASSUME NEW q \in Requests, Approve(q) PROVE Earned'
  <2>1. request[q].seen = "verified"
    <3>1. request[q].seen \in RevisionStates /\ "approved" \in Allowed[request[q].seen]
      BY <1>6, OpenRequestNames DEF Approve, OpenRequests
    <3> QED BY <3>1 DEF Allowed
  <2>2. HasAnalysis(request[q].rev, "pass")
    BY <1>6, <2>1 DEF Approve, Earned, Backed, NoRequest
  <2> QED BY <1>6, <2>2, CommandEarns DEF Approve, Backed, jobVars
<1>7. ASSUME NEW q \in Requests, Deprecate(q) PROVE Earned'
  <2>1. request[q].seen = "approved"
    <3>1. request[q].seen \in RevisionStates /\ "deprecated" \in Allowed[request[q].seen]
      BY <1>7, OpenRequestNames DEF Deprecate, OpenRequests
    <3> QED BY <3>1 DEF Allowed
  <2>2. HasAnalysis(request[q].rev, "pass")
    BY <1>7, <2>1 DEF Deprecate, Earned, Backed, NoRequest
  <2> QED BY <1>7, <2>2, CommandEarns DEF Deprecate, Backed, jobVars
<1>8. ASSUME NEW q \in Requests, Refuse(q) PROVE Earned'
  <2>1. \A p \in Requests : request'[p] = NoRequest \/ request'[p] = request[p]
    BY <1>8 DEF Refuse, Close, TypeOK
  <2> QED BY <1>8, <2>1, QuietEarns DEF Refuse, revisionVars, jobVars
<1>9. ASSUME NEW w \in Workers, worker' = [worker EXCEPT ![w] = Idle],
             UNCHANGED <<revisionVars, jobVars, request>>
      PROVE  Earned'
  <2>1. \A u \in Workers : worker'[u].pc = "analyzing" => worker'[u] = worker[u]
    BY <1>9 DEF TypeOK, Idle
  <2> QED BY <1>9, <2>1, QuietEarns DEF revisionVars, jobVars
<1>10. ASSUME NEW w \in Workers, Claim(w) PROVE Earned'
  <2> DEFINE j == worker[w].job
  <2>1. j \in Jobs /\ jobRev[j] \in Revisions
    BY <1>10, JobNames DEF Claim, Locks
  <2>2. /\ worker'[w].job = j /\ worker'[w].seen = revState[jobRev[j]]
        /\ worker'[w].seenStatus = validation[jobRev[j]]
        /\ \A u \in Workers : u # w => worker'[u] = worker[u]
    BY <1>10 DEF Claim, TypeOK, Deliveries
  <2>3. UNCHANGED <<revState, validation, jobRev, analyses, request>>
    BY <1>10 DEF Claim, revisionVars, jobVars
  <2>4. Backed(worker'[w].seen, jobRev[j]) /\ Seen(worker'[w].seenStatus, jobRev[j])
    BY <2>1, <2>2 DEF Earned
  <2>5. \A u \in Workers :
          worker'[u].pc = "analyzing" => /\ Backed(worker'[u].seen, jobRev[worker'[u].job])
                                         /\ Seen(worker'[u].seenStatus, jobRev[worker'[u].job])
    BY <2>2, <2>4 DEF Earned
  <2> QED BY <2>3, <2>5, SameRuns DEF Earned, Backed, Seen
<1>11. ASSUME NEW w \in Workers, NEW j \in Jobs, Receive(w, j) PROVE Earned'
  <2>1. \A u \in Workers : worker'[u].pc = "analyzing" => worker'[u] = worker[u]
    BY <1>11 DEF Receive, TypeOK
  <2> QED BY <1>11, <2>1, QuietEarns DEF Receive, revisionVars, jobVars
<1>12. ASSUME NEW w \in Workers, Complete(w) PROVE Earned'
  <2>1. PICK d \in Deliveries : d = worker[w]
    BY DEF TypeOK
  <2>2. d.job \in Jobs /\ d.file \in Files /\ d.at \in Nat /\ d.pc = "analyzing"
    BY <1>12, <2>1 DEF Complete, Locks, TypeOK, Deliveries
  <2>3. PICK v \in Revisions : v = jobRev[d.job]
    BY <1>12, <2>1, <2>2, JobNames DEF Complete, Locks
  <2>4. PICK grade \in Grades : grade = Grade(d.file)
    BY DEF Grade
  <2>5. PICK next : next = IF d.seen = "analyzing" THEN DecideOutcome(grade) ELSE d.seen
    OBVIOUS
  <2>6. PICK a \in Analysis : a = [rev |-> v, at |-> d.at, grade |-> grade]
    BY <2>2 DEF Analysis
  <2>7. /\ analyses' = [analyses EXCEPT ![worker[w].job] = Append(@, a)]
        /\ revState' = [revState EXCEPT ![v] = Flush(@, d.seen, next)]
        /\ validation' = [validation EXCEPT ![v] = Flush(@, d.seenStatus, grade)]
        /\ UNCHANGED <<jobRev, request>>
    BY <1>12, <2>1, <2>3, <2>4, <2>5, <2>6 DEF Complete
  <2>8. \A u \in Workers : worker'[u].pc = "analyzing" => worker'[u] = worker[u]
    BY <1>12 DEF Complete, TypeOK, Idle
  <2>9. next \in {"verified", "approved", "deprecated"} => grade = "pass" \/ HasAnalysis(v, "pass")
    <3>1. CASE d.seen = "analyzing"
      BY <2>5, <3>1 DEF DecideOutcome
    <3>2. CASE d.seen # "analyzing"
      BY <2>1, <2>2, <2>3, <2>5, <3>2 DEF Earned, Backed
    <3> QED BY <3>1, <3>2
  <2> QED BY <2>1, <2>2, <2>6, <2>7, <2>8, <2>9, CompleteEarns
<1> QED
  BY <1>1, <1>2, <1>3, <1>4, <1>5, <1>6, <1>7, <1>8, <1>9, <1>10, <1>11, <1>12
  DEF Next, Command, vars, Upload, Redeliver, ReplayTerminal, Lose, revisionVars, jobVars, queueVars

-----------------------------------------------------------------------------
(* The theorems *)

\* The invariant holds at first.
LEMMA InitHolds == Init => TypeOK /\ Locks /\ OneAnalysisPerJob /\ Earned
<1> SUFFICES ASSUME Init PROVE TypeOK /\ Locks /\ OneAnalysisPerJob /\ Earned
  OBVIOUS
<1>1. TypeOK
  <2>1. 1 \in Revisions /\ 0 \in 0 .. MaxSends
    BY MarketBoundsAssumption
  <2>2. worker \in [Workers -> Deliveries]
    BY IdleType DEF Init
  <2>3. \A v \in Revisions : v = 1 \/ v > 1
    BY MarketBoundsAssumption
  <2> QED BY <2>1, <2>2, <2>3, IdleType DEF Init, TypeOK
<1>2. Locks
  BY DEF Init, Locks, Idle
<1>3. OneAnalysisPerJob
  BY DEF Init, OneAnalysisPerJob
<1>4. Earned
  BY DEF Init, Earned, Backed, Seen, Idle
<1> QED BY <1>1, <1>2, <1>3, <1>4

\* The invariant holds always.
LEMMA AnalysisInvariant == Spec => [](TypeOK /\ Locks /\ OneAnalysisPerJob /\ Earned)
<1>1. TypeOK /\ Locks /\ OneAnalysisPerJob /\ Earned /\ [Next]_vars
        => (TypeOK /\ Locks /\ OneAnalysisPerJob /\ Earned)'
  BY TypeStep, LockStep, OnceStep, EarnedStep
<1> QED BY <1>1, InitHolds, PTL DEF Spec

\* Every variable of the dataset, its jobs and its deliveries keeps its type.
THEOREM MarketTypes == Spec => []TypeOK
  BY AnalysisInvariant, PTL

\* However often and in whatever order its messages are delivered, lost and
\* repeated, a job leaves exactly one validation run and one processed asset.
THEOREM AnalysedOnce == Spec => []OneAnalysisPerJob
  BY AnalysisInvariant, PTL

\* Although requests and workers write back from unlocked copies, no revision is
\* verified, approved or deprecated without a validation run that passed.
THEOREM VerificationEarned == Spec => []VerificationIsEarned
<1>1. Earned => VerificationIsEarned
  BY DEF Earned, Backed, Seen, VerificationIsEarned
<1> QED BY <1>1, AnalysisInvariant, PTL
=============================================================================
