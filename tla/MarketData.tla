----------------------------- MODULE MarketData -----------------------------
(***************************************************************************)
(* One market dataset: the commands on its revisions, the durable analysis *)
(* jobs of the data queue, and the worker that runs them.                  *)
(*                                                                         *)
(* Neither a command nor the worker locks a revision row.  Each loads the  *)
(* row when its transaction begins and writes back from that copy when it  *)
(* commits, so a transaction is two actions here: one that reads, one that *)
(* commits.  The only lock is the job row's, which a delivery holds from   *)
(* its claim to its commit.                                                *)
(*                                                                         *)
(* A route sends the job's message before the middleware commits its row.  *)
(* A message that comes too early fails and is retried, or is lost; both   *)
(* are the send or the lost send of RequestAnalysis.                       *)
(***************************************************************************)
EXTENDS Integers, SequencesExt

CONSTANTS Jobs,          \* ids of analysis jobs
          Workers,       \* worker threads consuming the data queue
          Requests,      \* API requests that may be open at once
          CleanFiles,    \* raw files whose rows all pass
          DoubtfulFiles, \* raw files with a warning
          BrokenFiles,   \* raw files with a blocking finding
          NoJob, NoFile, \* what an idle worker has loaded
          MaxRevisions,  \* bound: revisions of the dataset
          MaxSends       \* bound: messages ever handed to the broker

Files == CleanFiles \cup DoubtfulFiles \cup BrokenFiles

ASSUME FilesAssumption ==
  /\ CleanFiles \cap DoubtfulFiles = {}
  /\ BrokenFiles \cap (CleanFiles \cup DoubtfulFiles) = {}
  /\ NoFile \notin Files
ASSUME NoJobAssumption == NoJob \notin Jobs
ASSUME MarketBoundsAssumption ==
  /\ MaxRevisions \in Nat \ {0}
  /\ MaxSends \in Nat

VARIABLES revState,   \* market_dataset_revision.revision_state
          validation, \* market_dataset_revision.validation_status
          head,       \* the current revision; revisions 1 .. head exist
          uploads,    \* market_raw_asset rows, oldest first
          jobStatus,  \* jobs.status
          jobRev,     \* the revision in the job's payload
          analyses,   \* per job, the validation run and the processed asset it inserted
          msgs,       \* messages of the job waiting in the broker
          sends,      \* messages ever sent
          clock,      \* worker transactions ever begun
          request,    \* what each open request has loaded
          worker      \* what each worker thread has loaded

revisionVars == <<revState, validation, head>>
jobVars == <<jobStatus, jobRev, analyses>>
queueVars == <<msgs, sends>>
vars == <<revisionVars, uploads, jobVars, queueVars, clock, request, worker>>

Revisions == 1 .. MaxRevisions
RevisionStates == {"absent", "draft", "uploading", "analyzing", "needs_review",
                   "verified", "approved", "deprecated"}
Grades == {"pass", "warning", "blocking_fail"}

\* The worst severity of the per-row and cross-row rules over the file.  The
\* timezone and resolution they also read never change after the revision is made.
Grade(f) == IF f \in CleanFiles THEN "pass"
            ELSE IF f \in DoubtfulFiles THEN "warning" ELSE "blocking_fail"

\* _ALLOWED, without the transitions to rejected, which no command makes.
Allowed ==
  [absent |-> {"draft"},
   draft |-> {"uploading"},
   uploading |-> {"analyzing"},
   analyzing |-> {"needs_review", "verified"},
   needs_review |-> {"analyzing", "verified"},
   verified |-> {"approved", "needs_review"},
   approved |-> {"deprecated"},
   deprecated |-> {}]

Operations == {"finalize", "analyze", "approve", "deprecate"}
NoRequest == [op |-> "none", rev |-> 0, seen |-> "absent"]
Idle == [pc |-> "idle", job |-> NoJob, at |-> 0,
         seen |-> "absent", seenStatus |-> "none", file |-> NoFile]

Init ==
  /\ revState = [v \in Revisions |-> IF v = 1 THEN "draft" ELSE "absent"]
  /\ validation = [v \in Revisions |-> "none"]
  /\ head = 1
  /\ uploads = <<>>
  /\ jobStatus = [j \in Jobs |-> "absent"]
  /\ jobRev = [j \in Jobs |-> 0]
  /\ analyses = [j \in Jobs |-> <<>>]
  /\ msgs = [j \in Jobs |-> 0]
  /\ sends = 0
  /\ clock = 0
  /\ request = [q \in Requests |-> NoRequest]
  /\ worker = [w \in Workers |-> Idle]

-----------------------------------------------------------------------------
(* Helpers *)

\* The unit of work emits an UPDATE only for a column whose assigned value
\* differs from the one the session loaded.
Flush(stored, loaded, assigned) == IF assigned = loaded THEN stored ELSE assigned

Send(j, sent) ==
  IF sent THEN /\ sends < MaxSends
               /\ sends' = sends + 1
               /\ msgs' = [msgs EXCEPT ![j] = @ + 1]
          ELSE UNCHANGED queueVars

Close(q) == request' = [request EXCEPT ![q] = NoRequest]

\* The revision takes the state the request assigned to its copy.
Assign(q, state) ==
  revState' = [revState EXCEPT ![request[q].rev] = Flush(@, request[q].seen, state)]

-----------------------------------------------------------------------------
(* Commands of the API process *)

\* start_market_raw_upload: evidence is immutable and content-addressed, and the
\* state of the revision is not asked for.
Upload(f) ==
  /\ f \notin ToSet(uploads)
  /\ uploads' = Append(uploads, f)
  /\ UNCHANGED <<revisionVars, jobVars, queueVars, clock, request, worker>>

\* create_market_dataset_revision and create_successor_revision.
CreateRevision ==
  /\ head < MaxRevisions
  /\ head' = head + 1
  /\ revState' = [revState EXCEPT ![head + 1] = "draft"]
  /\ UNCHANGED <<validation, uploads, jobVars, queueVars, clock, request, worker>>

\* A request loads the root and a revision: the current one to finalize or to
\* analyze, the one it names to approve or to deprecate.
OpenRequest(q, op, v) ==
  /\ request[q] = NoRequest
  /\ v \in 1 .. head
  /\ op \in {"finalize", "analyze"} => v = head
  /\ request' = [request EXCEPT ![q] = [op |-> op, rev |-> v, seen |-> revState[v]]]
  /\ UNCHANGED <<revisionVars, uploads, jobVars, queueVars, clock, worker>>

\* finalize_market_raw_upload
FinalizeUpload(q) ==
  /\ request[q].op = "finalize"
  /\ Assign(q, IF request[q].seen = "draft" THEN "uploading" ELSE request[q].seen)
  /\ Close(q)
  /\ UNCHANGED <<validation, head, uploads, jobVars, queueVars, clock, worker>>

\* request_market_dataset_analysis: a job per call, also while one is running.
RequestAnalysis(q, j, sent) ==
  /\ request[q].op = "analyze"
  /\ request[q].seen = "analyzing" \/ "analyzing" \in Allowed[request[q].seen]
  /\ jobStatus[j] = "absent"
  /\ Assign(q, "analyzing")
  /\ jobStatus' = [jobStatus EXCEPT ![j] = "queued"]
  /\ jobRev' = [jobRev EXCEPT ![j] = request[q].rev]
  /\ Send(j, sent)
  /\ Close(q)
  /\ UNCHANGED <<validation, head, uploads, analyses, clock, worker>>

\* approve_market_dataset_revision
Approve(q) ==
  /\ request[q].op = "approve"
  /\ "approved" \in Allowed[request[q].seen]
  /\ Assign(q, "approved")
  /\ Close(q)
  /\ UNCHANGED <<validation, head, uploads, jobVars, queueVars, clock, worker>>

\* deprecate_market_dataset_revision
Deprecate(q) ==
  /\ request[q].op = "deprecate"
  /\ "deprecated" \in Allowed[request[q].seen]
  /\ Assign(q, "deprecated")
  /\ Close(q)
  /\ UNCHANGED <<validation, head, uploads, jobVars, queueVars, clock, worker>>

\* The transition is refused with 409, or the request fails: nothing is written.
Refuse(q) ==
  /\ request[q] # NoRequest
  /\ Close(q)
  /\ UNCHANGED <<revisionVars, uploads, jobVars, queueVars, clock, worker>>

\* redeliver_data_queue_jobs: an operator sends the queued jobs again.  The
\* scheduler's sweep leaves the data queue out.
Redeliver(j) ==
  /\ jobStatus[j] = "queued"
  /\ Send(j, TRUE)
  /\ UNCHANGED <<revisionVars, uploads, jobVars, clock, request, worker>>

-----------------------------------------------------------------------------
(* The worker: run_market_data_analysis around run_analysis *)

\* The transaction begins; its start is the created_at of every row it inserts.
Receive(w, j) ==
  /\ worker[w] = Idle
  /\ msgs[j] > 0
  /\ msgs' = [msgs EXCEPT ![j] = @ - 1]
  /\ clock' = clock + 1
  /\ worker' = [worker EXCEPT ![w] = [pc |-> "waiting", job |-> j, at |-> clock + 1,
                                       seen |-> "absent", seenStatus |-> "none", file |-> NoFile]]
  /\ UNCHANGED <<revisionVars, uploads, jobVars, sends, request>>

JobLocked(j) == \E w \in Workers : worker[w].pc = "analyzing" /\ worker[w].job = j

\* claim_job_for_delivery on a terminal job: nothing is written.
ReplayTerminal(w) ==
  /\ worker[w].pc = "waiting"
  /\ ~JobLocked(worker[w].job)
  /\ jobStatus[worker[w].job] = "succeeded"
  /\ worker' = [worker EXCEPT ![w] = Idle]
  /\ UNCHANGED <<revisionVars, uploads, jobVars, queueVars, clock, request>>

\* Mutation: the job row is read without FOR UPDATE.
ClaimUnlocked(w) ==
  LET j == worker[w].job IN
  /\ worker[w].pc = "waiting"
  /\ jobStatus[j] = "queued"
  /\ uploads # <<>>
  /\ worker' = [worker EXCEPT ![w].pc = "analyzing",
                              ![w].seen = revState[jobRev[j]],
                              ![w].seenStatus = validation[jobRev[j]],
                              ![w].file = Last(uploads)]
  /\ UNCHANGED <<revisionVars, uploads, jobVars, queueVars, clock, request>>

\* claim_job_for_delivery on a queued job, then the copy of the revision and the
\* newest raw file of the dataset.  The running status is not committed.
Claim(w) ==
  LET j == worker[w].job IN
  /\ worker[w].pc = "waiting"
  /\ ~JobLocked(j)
  /\ jobStatus[j] = "queued"
  /\ uploads # <<>>
  /\ worker' = [worker EXCEPT ![w].pc = "analyzing",
                              ![w].seen = revState[jobRev[j]],
                              ![w].seenStatus = validation[jobRev[j]],
                              ![w].file = Last(uploads)]
  /\ UNCHANGED <<revisionVars, uploads, jobVars, queueVars, clock, request>>

\* Mutation: only a blocking finding needs a review.
DecideOutcomeLenient(grade) == IF grade = "blocking_fail" THEN "needs_review" ELSE "verified"

DecideOutcome(grade) == IF grade = "pass" THEN "verified" ELSE "needs_review"

\* The end of run_analysis with _advance_revision, committed by the actor.
Complete(w) ==
  LET d == worker[w]
      v == jobRev[d.job]
      grade == Grade(d.file)
      next == IF d.seen = "analyzing" THEN DecideOutcome(grade) ELSE d.seen IN
  /\ d.pc = "analyzing"
  /\ analyses' = [analyses EXCEPT ![d.job] = Append(@, [rev |-> v, at |-> d.at, grade |-> grade])]
  /\ validation' = [validation EXCEPT ![v] = Flush(@, d.seenStatus, grade)]
  /\ revState' = [revState EXCEPT ![v] = Flush(@, d.seen, next)]
  /\ jobStatus' = [jobStatus EXCEPT ![d.job] = "succeeded"]
  /\ worker' = [worker EXCEPT ![w] = Idle]
  /\ UNCHANGED <<head, uploads, jobRev, queueVars, clock, request>>

\* No raw file, an exception or a crash: the transaction is undone, the message
\* retried or discarded.
Lose(w, retried) ==
  /\ worker[w] # Idle
  /\ Send(worker[w].job, retried)
  /\ worker' = [worker EXCEPT ![w] = Idle]
  /\ UNCHANGED <<revisionVars, uploads, jobVars, clock, request>>

-----------------------------------------------------------------------------
Command(q) ==
  \/ \E op \in Operations, v \in Revisions : OpenRequest(q, op, v)
  \/ \E j \in Jobs, sent \in BOOLEAN : RequestAnalysis(q, j, sent)
  \/ FinalizeUpload(q) \/ Approve(q) \/ Deprecate(q) \/ Refuse(q)

Next ==
  \/ CreateRevision
  \/ \E f \in Files : Upload(f)
  \/ \E q \in Requests : Command(q)
  \/ \E j \in Jobs : Redeliver(j)
  \/ \E w \in Workers : ReplayTerminal(w) \/ Claim(w) \/ Complete(w)
  \/ \E w \in Workers, j \in Jobs : Receive(w, j)
  \/ \E w \in Workers, retried \in BOOLEAN : Lose(w, retried)

Spec == Init /\ [][Next]_vars

-----------------------------------------------------------------------------
(* Properties *)

Analysis == [rev : Revisions, at : Nat, grade : Grades]
OpenRequests == [op : Operations, rev : 1 .. head, seen : RevisionStates \ {"absent"}]
Deliveries == [pc : {"idle", "waiting", "analyzing"}, job : Jobs \cup {NoJob}, at : 0 .. clock,
               seen : RevisionStates, seenStatus : Grades \cup {"none"},
               file : Files \cup {NoFile}]

\* Every variable keeps its type; an open request and a busy worker name rows
\* that exist.
TypeOK ==
  /\ revState \in [Revisions -> RevisionStates]
  /\ validation \in [Revisions -> Grades \cup {"none"}]
  /\ head \in Revisions
  /\ \A v \in Revisions : revState[v] = "absent" <=> v > head
  /\ uploads \in Seq(Files)
  /\ jobStatus \in [Jobs -> {"absent", "queued", "succeeded"}]
  /\ jobRev \in [Jobs -> 0 .. head]
  /\ \A j \in Jobs : jobRev[j] = 0 <=> jobStatus[j] = "absent"
  /\ analyses \in [Jobs -> Seq(Analysis)]
  /\ msgs \in [Jobs -> Nat]
  /\ sends \in 0 .. MaxSends
  /\ clock \in Nat
  /\ request \in [Requests -> OpenRequests \cup {NoRequest}]
  /\ worker \in [Workers -> Deliveries]
  /\ \A w \in Workers : worker[w].pc = "idle" <=> worker[w] = Idle

\* However often a job is delivered, it leaves one validation run and one
\* processed asset, and it leaves them exactly when it succeeds: runs are
\* append-only with fresh ids, so nothing but the locked claim prevents a second.
OneAnalysisPerJob ==
  \A j \in Jobs : Len(analyses[j]) = IF jobStatus[j] = "succeeded" THEN 1 ELSE 0

\* Some validation run of revision v has this status.
HasAnalysis(v, grade) ==
  \E j \in Jobs : \E i \in 1 .. Len(analyses[j]) :
    analyses[j][i].rev = v /\ analyses[j][i].grade = grade

\* No order of requests and deliveries, stale copies included, brings a revision
\* to verified or beyond without a validation run that passed, or shows a
\* validation status that none of its runs had.
VerificationIsEarned ==
  \A v \in Revisions :
    /\ revState[v] \in {"verified", "approved", "deprecated"}
         => HasAnalysis(v, "pass")
    /\ validation[v] # "none" => HasAnalysis(v, validation[v])

=============================================================================
