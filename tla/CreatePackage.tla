--------------------------- MODULE CreatePackage ---------------------------
(***************************************************************************)
(* One Create-Package request made from code, its durable jobs, and the    *)
(* packages it drafts as the Library changes them.                         *)
(*                                                                         *)
(* A command locks the request's row and then reads the request, in one    *)
(* action - but for the submission of a candidate, which goes on with what *)
(* it read before the lock.  A worker loads its job without a lock, waits  *)
(* for the request's row, and commits once at the end: since it may have   *)
(* loaded the job long ago, any job that was ever admitted may be worked   *)
(* on, and a worker that dies leaves no trace but the job, queued.  Two    *)
(* transactions read the registry while they hold the request's row and    *)
(* take two steps, since the registry has no part in that lock: a          *)
(* Pre-Check, which reads it twice, and an approval, which looks up the    *)
(* pins before it commits.  Code depends on one resolver of the registry,  *)
(* which administrators change meanwhile.                                  *)
(*                                                                         *)
(* Left out: requests made from a description (they skip the Pre-Check),   *)
(* the states precheck_stale and rejected (nothing sets them).             *)
(***************************************************************************)
EXTENDS Integers, Sequences, FiniteSets

CONSTANTS Submits,       \* submissions of a candidate that may be open at the same time
          Claims,        \* whether the package claims to be equivalent to its source
          MaxJobs,       \* bound: jobs of each kind
          MaxRevisions,  \* bound: package revisions
          MaxUploads     \* bound: baseline uploads

Kinds == {"precheck", "candidate_generation", "validation", "baseline_parse"}

ASSUME CreatePackageBoundsAssumption ==
  /\ Claims \in BOOLEAN
  /\ MaxRevisions \in Nat /\ MaxUploads \in Nat
  /\ MaxJobs \in [Kinds -> Nat]

VARIABLES registry, \* the resolver: trust of its entry, lifecycle of its package's root
          request,  \* the request: state, scan, candidate, draft, validation run
          baseline, \* parse status of each baseline upload; the last one counts
          holder,   \* who holds the request's row between two steps, and what it looked up
          revision, \* package revisions
          package,  \* package roots: head revision, visibility, state
          runs,     \* validation runs
          admitted, \* durable jobs
          queued,   \* the jobs that have not ended
          submit    \* what each open submission has read

library == <<revision, package>>
queue == <<admitted, queued>>
packageVars == <<registry, request, baseline, holder, library, runs, queue, submit>>

-----------------------------------------------------------------------------
(* States *)

RequestAllowed ==
  [requested |-> {"precheck_passed", "precheck_blocked", "precheck_failed", "candidate_generating"},
   precheck_passed |-> {"precheck_passed", "precheck_blocked", "precheck_failed", "candidate_generating"},
   precheck_blocked |-> {"precheck_passed", "precheck_blocked", "precheck_failed"},
   precheck_failed |-> {"precheck_passed", "precheck_blocked", "precheck_failed"},
   candidate_generating |-> {"candidate_ready", "candidate_failed"},
   candidate_ready |-> {"draft_created", "candidate_generating"},
   candidate_failed |-> {"candidate_generating"},
   draft_created |-> {"validation_running", "eligible_for_approval", "revision_required",
                      "candidate_generating"},
   validation_running |-> {"eligible_for_approval", "revision_required"},
   eligible_for_approval |-> {"approved", "revision_required"},
   revision_required |-> {"candidate_generating"},
   approved |-> {}]

May(state, target) == target \in RequestAllowed[state]

PrecheckRecordable == {"requested", "precheck_passed", "precheck_blocked", "precheck_failed"}

NoScan == [status |-> "none", pins |-> FALSE, fingerprint |-> [trust |-> "none", root |-> "none"]]

Closed == [open |-> FALSE, token |-> FALSE, fresh |-> FALSE, state |-> "requested", scan |-> NoScan]
\* generate_candidate: a candidate contains the resolvers of the scan in force.
Candidate(scan) == IF scan.pins THEN "resolved" ELSE "unresolved"

\* Nobody holds the request's row between two steps.
Free == [by |-> "nobody", job |-> 0, pins |-> FALSE]

\* The version of the request's row moves: what open submissions have seen is old.
Bumped == [q \in Submits |-> [submit[q] EXCEPT !.fresh = FALSE]]

\* enqueue_job: a job about arg (a validation run, a baseline asset)
Admit(kind, arg) ==
  LET no == Cardinality({job \in admitted : job.kind = kind}) + 1
      new == [kind |-> kind, no |-> no, arg |-> arg] IN
  /\ no <= MaxJobs[kind]
  /\ admitted' = admitted \cup {new}
  /\ queued' = queued \cup {new}

-----------------------------------------------------------------------------
(* The registry of resolvers *)

ActivateResolver ==
  /\ registry.trust = "candidate"
  /\ registry' = [registry EXCEPT !.trust = "trusted_active"]
  /\ UNCHANGED <<request, baseline, holder, library, runs, queue, submit>>

DeprecateResolver ==
  /\ registry.trust = "trusted_active"
  /\ registry' = [registry EXCEPT !.trust = "deprecated"]
  /\ UNCHANGED <<request, baseline, holder, library, runs, queue, submit>>

\* The Library deprecates the resolver's package; the registry entry does not move.
RetireResolver ==
  /\ registry.root = "active"
  /\ registry' = [registry EXCEPT !.root = "deprecated"]
  /\ UNCHANGED <<request, baseline, holder, library, runs, queue, submit>>

\* resolve_embedded_dependency, for new work
Resolves == registry.trust = "trusted_active" /\ registry.root = "active"

\* ensure_pinned_resolvers_active looks at the entry, not at the root.
PinsHold(v) == revision[v].pins => registry.trust = "trusted_active"

-----------------------------------------------------------------------------
(* Commands of Create Package *)

RunPrecheck ==
  /\ holder = Free
  /\ Admit("precheck", 0)
  /\ submit' = Bumped
  /\ UNCHANGED <<registry, request, baseline, holder, library, runs>>

\* submit_candidate_generation reads the request before it waits for the lock; a
\* client may send the version it has seen.
SubmitOpen(q, token) ==
  /\ ~submit[q].open
  /\ submit' = [submit EXCEPT ![q] = [open |-> TRUE, token |-> token, fresh |-> TRUE,
                                      state |-> request.state, scan |-> request.scan]]
  /\ UNCHANGED <<registry, request, baseline, holder, library, runs, queue>>

\* _enforce_precheck_gate: a passed scan, and the registry as it was scanned
PrecheckGate(scan) == scan.status = "passed" /\ scan.fingerprint = registry

Accepted(q) ==
  /\ submit[q].token => submit[q].fresh
  /\ PrecheckGate(submit[q].scan)
  /\ May(submit[q].state, "candidate_generating")

SubmitCommit(q) ==
  /\ submit[q].open /\ holder = Free
  /\ IF Accepted(q)
     THEN /\ Admit("candidate_generation", 0)
          /\ request' = [request EXCEPT !.state = "candidate_generating"]
          /\ submit' = [Bumped EXCEPT ![q] = Closed]
     ELSE /\ submit' = [submit EXCEPT ![q] = Closed]
          /\ UNCHANGED <<request, queue>>
  /\ UNCHANGED <<registry, baseline, holder, library, runs>>

\* The revision a candidate becomes (_draft_dependency_snapshot).
Draft(p) == [package |-> p, implements |-> request.candidate, pins |-> request.scan.pins,
             validation |-> "pending", approval |-> "draft"]

\* A request that has a draft answers with it; else the draft is the head of a new,
\* private package and pins what the current scan resolved.
CreateDraft ==
  LET v == Len(revision) + 1 p == Len(package) + 1 IN
  /\ holder = Free /\ v <= MaxRevisions
  /\ request.draft = 0 /\ request.state = "candidate_ready"
  /\ request.scan.status = "passed"
  /\ revision' = Append(revision, Draft(p))
  /\ package' = Append(package, [head |-> v, published |-> FALSE, state |-> "active"])
  /\ request' = [request EXCEPT !.draft = v, !.state = "draft_created"]
  /\ submit' = Bumped
  /\ UNCHANGED <<registry, baseline, holder, runs, queue>>

StartValidation ==
  /\ holder = Free
  /\ request.draft # 0 /\ May(request.state, "validation_running")
  /\ runs' = Append(runs, [draft |-> request.draft, candidate |-> request.candidate,
                           status |-> "queued"])
  /\ Admit("validation", Len(runs) + 1)
  /\ request' = [request EXCEPT !.state = "validation_running", !.run = Len(runs) + 1]
  /\ submit' = Bumped
  /\ UNCHANGED <<registry, baseline, holder, library>>

\* request_package_revision clears the draft and generates the next candidate itself.
RequestRevision ==
  /\ holder = Free
  /\ request.state = "revision_required"
  /\ request' = [request EXCEPT !.state = "candidate_ready", !.draft = 0, !.run = 0,
                                !.candidate = Candidate(request.scan)]
  /\ submit' = Bumped
  /\ UNCHANGED <<registry, baseline, holder, library, runs, queue>>

UploadBaseline ==
  /\ holder = Free /\ Len(baseline) < MaxUploads
  /\ baseline' = Append(baseline, "uploaded")
  /\ submit' = Bumped
  /\ UNCHANGED <<registry, request, holder, library, runs, queue>>

\* start_baseline_parse parses the current asset, again if asked to.
StartParse ==
  /\ holder = Free /\ baseline # <<>>
  /\ Admit("baseline_parse", Len(baseline))
  /\ baseline' = [baseline EXCEPT ![Len(baseline)] = "parsing"]
  /\ submit' = Bumped
  /\ UNCHANGED <<registry, request, holder, library, runs>>

BaselineHolds == Claims => (baseline # <<>> /\ baseline[Len(baseline)] = "passed")

\* The evidence approve_and_publish asks for under the request's lock.
Approvable ==
  /\ request.state = "eligible_for_approval" /\ request.draft # 0
  /\ runs[request.run].status = "passed" /\ runs[request.run].candidate = request.candidate
  /\ BaselineHolds

\* What the approval finds of the resolver, by a plain query.
Approver == [by |-> "approval", job |-> 0, pins |-> registry.trust = "trusted_active"]

\* Mutation: the pins are not looked up again.
ApproveOpenUnpinned ==
  /\ holder = Free /\ Approvable
  /\ holder' = Approver
  /\ UNCHANGED <<registry, request, baseline, library, runs, queue, submit>>

\* approve_and_publish locks the request: evidence, baseline and pins hold at that moment.
ApproveOpen ==
  /\ holder = Free /\ Approvable /\ PinsHold(request.draft)
  /\ holder' = Approver
  /\ UNCHANGED <<registry, request, baseline, library, runs, queue, submit>>

\* It publishes and commits without another look.  The package's own row is neither locked
\* nor asked for its state.
ApproveCommit ==
  /\ holder.by = "approval"
  /\ revision' = [revision EXCEPT ![request.draft].approval = "approved"]
  /\ package' = [package EXCEPT ![revision[request.draft].package].published = TRUE]
  /\ request' = [request EXCEPT !.state = "approved"]
  /\ submit' = Bumped /\ holder' = Free
  /\ UNCHANGED <<registry, baseline, runs, queue>>

-----------------------------------------------------------------------------
(* Commands of the Library *)

\* deprecate_package, soft_delete_package
Retire(p, state) ==
  /\ package[p].state # "deleted"
  /\ state = "deprecated" => package[p].state = "active"
  /\ package' = [package EXCEPT ![p].state = state]
  /\ UNCHANGED <<registry, request, baseline, holder, revision, runs, queue, submit>>

\* create_package_revision copies the contracts and pins, not the implementation.
AppendRevision(p) ==
  /\ package[p].state = "active" /\ Len(revision) < MaxRevisions
  /\ revision' = Append(revision, [package |-> p, implements |-> "nothing",
                                   pins |-> revision[package[p].head].pins,
                                   validation |-> "pending", approval |-> "draft"])
  /\ package' = [package EXCEPT ![p].head = Len(revision) + 1]
  /\ UNCHANGED <<registry, request, baseline, holder, runs, queue, submit>>

\* request_package_validation: the head is looked at, the request's draft is validated.
RequestValidation(p) ==
  /\ package[p].state = "active"
  /\ request.draft # 0 /\ revision[request.draft].package = p
  /\ StartValidation

RequestApproval(p) ==
  LET v == package[p].head IN
  /\ package[p].state = "active"
  /\ revision[v].validation = "passed" /\ revision[v].approval = "draft"
  /\ revision' = [revision EXCEPT ![v].approval = "approval_requested"]
  /\ UNCHANGED <<registry, request, baseline, holder, package, runs, queue, submit>>

\* approve_and_publish_package, under the lock of the package's row
ApproveHead(p) ==
  LET v == package[p].head IN
  /\ package[p].state # "deleted"
  /\ revision[v].validation = "passed" /\ revision[v].approval = "approval_requested"
  /\ revision' = [revision EXCEPT ![v].approval = "approved"]
  /\ package' = [package EXCEPT ![p].published = TRUE]
  /\ UNCHANGED <<registry, request, baseline, holder, runs, queue, submit>>

-----------------------------------------------------------------------------
(* Workers *)

\* The worker commits: its job has ended.
Land(job) == queued' = queued \ {job}

Superseded(job) ==
  /\ job \in queued
  /\ Land(job)
  /\ UNCHANGED <<registry, request, baseline, holder, library, runs, admitted, submit>>

\* run_precheck_job locks the request and resolves what the code declares; a request
\* that is past its Pre-Check supersedes the job.
PrecheckResolve(job) ==
  /\ job.kind = "precheck" /\ holder = Free
  /\ IF request.state \in PrecheckRecordable
     THEN /\ holder' = [by |-> "precheck", job |-> job.no, pins |-> Resolves]
          /\ UNCHANGED <<registry, request, baseline, library, runs, queue, submit>>
     ELSE Superseded(job)

\* compute_precheck: the fingerprint of the registry is read after the resolvers.  A
\* scan also fails: on the declared language, on the source, on an error.
ScanOf(pins, fails) ==
  IF fails THEN [NoScan EXCEPT !.status = "failed"]
  ELSE [status |-> IF pins THEN "passed" ELSE "blocked", pins |-> pins, fingerprint |-> registry]

PrecheckState ==
  [passed |-> "precheck_passed", blocked |-> "precheck_blocked", failed |-> "precheck_failed"]

PrecheckRecord(job, fails) ==
  LET scan == ScanOf(holder.pins, fails) IN
  /\ job.kind = "precheck" /\ holder.by = "precheck" /\ holder.job = job.no
  /\ May(request.state, PrecheckState[scan.status])
  /\ request' = [request EXCEPT !.scan = scan, !.state = PrecheckState[scan.status]]
  /\ submit' = Bumped
  /\ Land(job) /\ holder' = Free
  /\ UNCHANGED <<registry, baseline, library, runs, admitted>>

\* The worker or the request dies: its transaction rolls back, the row is free again.
Crash ==
  /\ holder # Free
  /\ holder' = Free
  /\ UNCHANGED <<registry, request, baseline, library, runs, queue, submit>>

\* Mutation: a failed generation ends the job and leaves the request as it was.
GenerateCandidateSilently(job, fails) ==
  /\ job.kind = "candidate_generation" /\ holder = Free
  /\ IF request.state = "candidate_generating"
     THEN /\ request' = IF fails THEN request
                        ELSE [request EXCEPT !.state = "candidate_ready",
                                             !.candidate = Candidate(request.scan)]
          /\ submit' = Bumped
          /\ Land(job)
          /\ UNCHANGED <<registry, baseline, holder, library, runs, admitted>>
     ELSE Superseded(job)

GenerateCandidate(job, fails) ==
  /\ job.kind = "candidate_generation" /\ holder = Free
  /\ IF request.state = "candidate_generating"
     THEN /\ request' = IF fails THEN [request EXCEPT !.state = "candidate_failed"]
                        ELSE [request EXCEPT !.state = "candidate_ready",
                                             !.candidate = Candidate(request.scan)]
          /\ submit' = Bumped
          /\ Land(job)
          /\ UNCHANGED <<registry, baseline, holder, library, runs, admitted>>
     ELSE Superseded(job)

\* build_validation_report: the resolvers resolve now, there is an implementation, the
\* baseline holds; good stands for the other checks.
Validates(good) == good /\ Resolves /\ request.candidate # "nothing" /\ BaselineHolds

\* Mutation: whichever run a message is about, it validates the request's draft.
OwnsRunAny(n) == request.state = "validation_running"

\* The request still runs this run.
OwnsRun(n) == request.state = "validation_running" /\ request.run = n

ValidateDraft(job, good) ==
  LET n == job.arg passed == Validates(good) IN
  /\ job.kind = "validation" /\ holder = Free
  /\ IF OwnsRun(n)
     THEN /\ runs' = [runs EXCEPT ![n].status = IF passed THEN "passed" ELSE "failed"]
          /\ revision' = [revision EXCEPT ![runs[n].draft].validation =
                                            IF passed THEN "passed" ELSE "failed"]
          /\ request' = [request EXCEPT !.state = IF passed THEN "eligible_for_approval"
                                                  ELSE "revision_required"]
          /\ submit' = Bumped
          /\ Land(job)
          /\ UNCHANGED <<registry, baseline, holder, package, admitted>>
     ELSE Superseded(job)

\* Mutation: an asset that is being parsed is written whether or not it still counts.
OwnsAssetAny(a) == baseline[a] = "parsing"

\* The asset is still the current one, and not yet parsed.
OwnsAsset(a) == a = Len(baseline) /\ baseline[a] = "parsing"

ParseBaseline(job, good) ==
  /\ job.kind = "baseline_parse" /\ holder = Free
  /\ IF OwnsAsset(job.arg)
     THEN /\ baseline' = [baseline EXCEPT ![job.arg] = IF good THEN "passed" ELSE "failed"]
          /\ submit' = Bumped
          /\ Land(job)
          /\ UNCHANGED <<registry, request, holder, library, runs, admitted>>
     ELSE Superseded(job)

-----------------------------------------------------------------------------
InitPackages ==
  /\ registry \in [trust : {"candidate", "trusted_active"}, root : {"active"}]
  /\ request = [state |-> "requested", scan |-> NoScan, candidate |-> "nothing", draft |-> 0, run |-> 0]
  /\ baseline = <<>> /\ holder = Free
  /\ revision = <<>> /\ package = <<>> /\ runs = <<>>
  /\ admitted = {} /\ queued = {}
  /\ submit = [q \in Submits |-> Closed]

Command ==
  \/ RunPrecheck \/ CreateDraft \/ StartValidation \/ RequestRevision
  \/ UploadBaseline \/ StartParse \/ ApproveOpen \/ ApproveCommit
  \/ \E q \in Submits, token \in BOOLEAN : SubmitOpen(q, token)
  \/ \E q \in Submits : SubmitCommit(q)

Library ==
  \E p \in 1 .. Len(package) :
    \/ \E state \in {"deprecated", "deleted"} : Retire(p, state)
    \/ AppendRevision(p) \/ RequestValidation(p) \/ RequestApproval(p) \/ ApproveHead(p)

Work(job) ==
  \/ PrecheckResolve(job)
  \/ \E ok \in BOOLEAN : \/ PrecheckRecord(job, ok) \/ GenerateCandidate(job, ok)
                         \/ ValidateDraft(job, ok) \/ ParseBaseline(job, ok)

NextPackages ==
  \/ ActivateResolver \/ DeprecateResolver \/ RetireResolver
  \/ Command \/ Library
  \/ Crash \/ \E job \in admitted : Work(job)

WorkOn(kind) == \E job \in queued : job.kind = kind /\ Work(job)

\* A job that stays queued is delivered until a worker ends it, and who holds the
\* request's row commits or dies; clients and administrators need not act.
Fairness ==
  /\ \A kind \in Kinds : SF_packageVars(WorkOn(kind))
  /\ WF_packageVars(Crash \/ ApproveCommit
                    \/ \E job \in admitted, fails \in BOOLEAN : PrecheckRecord(job, fails))

SpecPackages == InitPackages /\ [][NextPackages]_packageVars /\ Fairness

-----------------------------------------------------------------------------
(* Properties *)

Drafted == {"draft_created", "validation_running", "eligible_for_approval"}

\* Every variable keeps its type; a request has what its state speaks of.
TypeOKPackages ==
  /\ registry \in [trust : {"candidate", "trusted_active", "deprecated"},
                  root : {"active", "deprecated"}]
  /\ request.state \in DOMAIN RequestAllowed
  /\ request.scan.status \in {"none", "passed", "blocked", "failed"}
  /\ request.candidate \in {"nothing", "resolved", "unresolved"}
  /\ request.draft \in 0 .. Len(revision) /\ request.run \in 0 .. Len(runs)
  /\ request.state \in Drafted => request.draft # 0
  /\ request.state \in {"validation_running", "eligible_for_approval"} => request.run # 0
  /\ \A a \in 1 .. Len(baseline) : baseline[a] \in {"uploaded", "parsing", "passed", "failed"}
  /\ \A v \in 1 .. Len(revision) : revision[v].package \in 1 .. Len(package)
  /\ \A p \in 1 .. Len(package) : revision[package[p].head].package = p
  /\ \A n \in 1 .. Len(runs) : runs[n].draft \in 1 .. Len(revision)
  /\ queued \subseteq admitted
  /\ \A job \in admitted : job.kind \in Kinds /\ job.no \in 1 .. MaxJobs[job.kind]
  /\ holder.by = "precheck" => \E job \in admitted : job.kind = "precheck" /\ job.no = holder.job
  /\ holder.by = "approval" => request.draft # 0 /\ request.run # 0
  /\ \A q \in Submits : submit[q].state \in DOMAIN RequestAllowed

\* A request that is offered for approval rests on a passed run of its own draft and
\* candidate, whichever deliveries and regenerations came between.
EligibleIsCertified ==
  request.state = "eligible_for_approval" =>
    /\ request.run # 0 /\ runs[request.run].status = "passed"
    /\ runs[request.run].draft = request.draft
    /\ runs[request.run].candidate = request.candidate
    /\ revision[request.draft].implements = request.candidate

\* A revision that may be used was validated as the implementation it contains.
PassedIsItsOwn ==
  \A v \in 1 .. Len(revision) : revision[v].validation = "passed" =>
    \E n \in 1 .. Len(runs) : /\ runs[n].draft = v /\ runs[n].status = "passed"
                              /\ runs[n].candidate = revision[v].implements

\* A draft contains and pins the resolver its code calls, though a Pre-Check that failed
\* meanwhile may have replaced the scan a submission went ahead on.
DraftHasItsResolvers ==
  \A v \in 1 .. Len(revision) :
    revision[v].implements # "nothing" => revision[v].implements = "resolved" /\ revision[v].pins

\* What a publication rests on: a draft that has passed, the candidate it passed as, the
\* baseline, and its resolver - active now, or when the approval looked it up.
PublishedHolds ==
  LET v == request'.draft IN
  /\ revision'[v].validation = "passed"
  /\ \E n \in 1 .. Len(runs) : /\ runs[n].draft = v /\ runs[n].status = "passed"
                              /\ runs[n].candidate = revision'[v].implements
  /\ BaselineHolds'
  /\ PinsHold(v) \/ (holder.by = "approval" /\ holder.pins)

\* Create Package publishes the draft that has passed, as the candidate it was validated
\* for, and never under a baseline that no longer holds, whatever is submitted, uploaded and
\* changed in the Library while the approval is under way.  Its resolver is active when the
\* approval looks it up, however long after the Pre-Check; only a deprecation that commits
\* between that look and the approval's own commit comes too late.
PublishesWhatHolds ==
  [][request.state # "approved" /\ request'.state = "approved" => PublishedHolds]_packageVars

\* An approved request is final: only a submission without a version, read before the
\* approval, opens it again.
ApprovedIsFinal ==
  [][request.state = "approved" /\ request'.state # "approved"
       => \E q \in Submits : submit[q].open /\ ~submit[q].token /\ ~submit'[q].open]_packageVars

\* An upload that a newer one has replaced is never written again, though its parse was
\* admitted before and lands later.
PriorAttemptsUnchanged ==
  [][\A a \in 1 .. Len(baseline) - 1 : baseline'[a] = baseline[a]]_packageVars

Underway ==
  \/ request.state \in {"candidate_generating", "validation_running"}
  \/ baseline # <<>> /\ baseline[Len(baseline)] = "parsing"

\* What is admitted ends, whichever deliveries are lost, late or repeated and whichever
\* workers crash: the request is not left generating, validating or parsing.
AdmittedWorkEnds == []<>~Underway

\* What is offered and published rests on evidence about exactly that draft.
EvidenceIsItsOwn == TypeOKPackages /\ EligibleIsCertified /\ PassedIsItsOwn /\ DraftHasItsResolvers

\* What has ended stays as it ended, whatever lands late.
EndedStaysEnded == ApprovedIsFinal /\ PriorAttemptsUnchanged
=============================================================================
