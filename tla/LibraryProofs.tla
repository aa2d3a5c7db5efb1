---------------------------- MODULE LibraryProofs ----------------------------
(* Theorems of CreatePackage, how a package enters the Library, and of Trash,  *)
(* how an object leaves it and comes back, for any submissions, runs, workers  *)
(* and bounds.  A sweep of the trash is assumed to re-send only what is lost.  *)
EXTENDS CreatePackage, Trash, FiniteSetTheorems, TLAPS

-----------------------------------------------------------------------------
(* What is known of a request and its packages *)

States == DOMAIN RequestAllowed
Implementations == {"nothing", "resolved", "unresolved"}
Registry == [trust : {"none", "candidate", "trusted_active", "deprecated"}, root : {"none", "active", "deprecated"}]
Scan == [status : {"none", "passed", "blocked", "failed"}, pins : BOOLEAN, fingerprint : Registry]
PackageRequest == [state : States, scan : Scan, candidate : Implementations, draft : Nat, run : Nat]
Revision ==
  [package : Nat, implements : Implementations, pins : BOOLEAN, validation : {"pending", "passed", "failed"},
   approval : {"draft", "approval_requested", "approved"}]
Package == [head : Nat, published : BOOLEAN, state : {"active", "deprecated", "deleted"}]
Run == [draft : Nat, candidate : Implementations, status : {"queued", "passed", "failed"}]
DurableJob == [kind : Kinds, no : Nat, arg : Nat]
Holder == [by : {"nobody", "precheck", "approval"}, job : Nat, pins : BOOLEAN]
Submission == [open : BOOLEAN, token : BOOLEAN, fresh : BOOLEAN, state : States, scan : Scan]

PackageTypes ==
  /\ registry \in [trust : {"candidate", "trusted_active", "deprecated"}, root : {"active", "deprecated"}]
  /\ request \in PackageRequest
  /\ baseline \in Seq({"uploaded", "parsing", "passed", "failed"})
  /\ holder \in Holder
  /\ revision \in Seq(Revision) /\ package \in Seq(Package) /\ runs \in Seq(Run)
  /\ admitted \subseteq DurableJob /\ IsFiniteSet(admitted) /\ queued \subseteq admitted
  /\ submit \in [Submits -> Submission]

\* What one record names in another exists.
LibraryNamed ==
  /\ \A v \in 1 .. Len(revision) : revision[v].package \in 1 .. Len(package)
  /\ \A p \in 1 .. Len(package) : package[p].head \in 1 .. Len(revision) /\ revision[package[p].head].package = p
  /\ \A n \in 1 .. Len(runs) : runs[n].draft \in 1 .. Len(revision)

JobsNamed ==
  \A job \in admitted :
    /\ job.no \in 1 .. MaxJobs[job.kind]
    /\ job.kind = "validation" => job.arg \in 1 .. Len(runs)
    /\ job.kind = "baseline_parse" => job.arg \in 1 .. Len(baseline)

HolderNamed == holder.by = "precheck" => \E job \in admitted : job.kind = "precheck" /\ job.no = holder.job

RequestNamed == request.draft <= Len(revision) /\ request.run <= Len(runs)

NamesExist == RequestNamed /\ LibraryNamed /\ JobsNamed /\ HolderNamed

\* What the request has reached, and what it rests on.
StateHolds ==
  /\ request.scan.status = "passed" => request.scan.pins
  /\ request.state = "candidate_ready" => request.candidate = Candidate(request.scan)
  /\ request.state \in Drafted =>
       request.draft # 0 /\ revision[request.draft].implements = request.candidate
  /\ request.state \in {"validation_running", "eligible_for_approval"} =>
       /\ request.run # 0 /\ runs[request.run].draft = request.draft
       /\ runs[request.run].candidate = request.candidate
  /\ request.state = "validation_running" => runs[request.run].status = "queued"
  /\ request.state = "eligible_for_approval" =>
       runs[request.run].status = "passed" /\ revision[request.draft].validation = "passed"

\* What an open submission has read is what the request is, while its version is.
SubmissionsRead ==
  \A q \in Submits : submit[q].open /\ submit[q].fresh => submit[q].state = request.state

\* While an approval holds the row, what it asked for holds, and it found the pins it needs.
ApprovalHolds ==
  holder.by = "approval" => Approvable /\ (revision[request.draft].pins => holder.pins)

PackageInv ==
  PackageTypes /\ NamesExist /\ StateHolds /\ PassedIsItsOwn /\ DraftHasItsResolvers /\ SubmissionsRead

-----------------------------------------------------------------------------
(* What steps leave alone *)

\* Revisions and runs are added; what is known of one stays, but for its approval.
RevisionsStay ==
  /\ Len(revision') >= Len(revision)
  /\ \A v \in 1 .. Len(revision) :
       /\ revision'[v].package = revision[v].package /\ revision'[v].implements = revision[v].implements
       /\ revision'[v].pins = revision[v].pins /\ revision'[v].validation = revision[v].validation

RunsStay ==
  /\ Len(runs') >= Len(runs)
  /\ \A n \in 1 .. Len(runs) : runs'[n] = runs[n]

\* A revision begins unvalidated, empty or with its resolver.
NewRevisionsBegin ==
  \A v \in 1 .. Len(revision') : v > Len(revision) =>
    /\ revision'[v].validation = "pending"
    /\ revision'[v].implements # "nothing" => revision'[v].implements = "resolved" /\ revision'[v].pins

\* The lengths of the tables.
LEMMA Lengths ==
  ASSUME PackageTypes
  PROVE  /\ Len(revision) \in Nat /\ Len(package) \in Nat /\ Len(runs) \in Nat /\ Len(baseline) \in Nat
         /\ request.draft \in Nat /\ request.run \in Nat /\ request.state \in States /\ request.scan \in Scan
         /\ request.candidate \in Implementations
         /\ \A v \in 1 .. Len(revision) : revision[v] \in Revision
         /\ \A p \in 1 .. Len(package) : package[p] \in Package
         /\ \A n \in 1 .. Len(runs) : runs[n] \in Run
BY DEF PackageTypes, PackageRequest

\* Evidence stays.
LEMMA CertificatesStay ==
  ASSUME PackageInv, PackageTypes', RevisionsStay, RunsStay, NewRevisionsBegin
  PROVE  PassedIsItsOwn' /\ DraftHasItsResolvers'
<1>1. Len(revision) \in Nat /\ Len(revision') \in Nat /\ Len(runs) \in Nat /\ Len(runs') \in Nat
  BY DEF PackageInv, PackageTypes
<1>2. \A v \in 1 .. Len(revision') : v \in 1 .. Len(revision) \/ v > Len(revision)
  BY <1>1
<1>3. \A n \in 1 .. Len(runs) : n \in 1 .. Len(runs')
  BY <1>1 DEF RunsStay
<1>4. ASSUME NEW v \in 1 .. Len(revision'), revision'[v].validation = "passed"
      PROVE  \E n \in 1 .. Len(runs') : /\ runs'[n].draft = v /\ runs'[n].status = "passed"
                                        /\ runs'[n].candidate = revision'[v].implements
  <2>1. v \in 1 .. Len(revision) /\ revision[v].validation = "passed" /\ revision'[v].implements = revision[v].implements
    BY <1>2, <1>4 DEF NewRevisionsBegin, RevisionsStay
  <2>2. PICK n \in 1 .. Len(runs) : runs[n].draft = v /\ runs[n].status = "passed" /\ runs[n].candidate = revision[v].implements
    BY <2>1 DEF PackageInv, PassedIsItsOwn
  <2> QED BY <1>3, <2>1, <2>2 DEF RunsStay
<1>5. DraftHasItsResolvers'
  BY <1>2 DEF PackageInv, DraftHasItsResolvers, NewRevisionsBegin, RevisionsStay
<1> QED BY <1>4, <1>5 DEF PassedIsItsOwn

\* What the request rests on stays.
LEMMA StateStays ==
  ASSUME PackageInv, PackageTypes', request' = request, RevisionsStay, RunsStay
  PROVE  StateHolds' /\ RequestNamed'
<1>1. /\ Len(revision) \in Nat /\ Len(revision') \in Nat /\ Len(runs) \in Nat /\ Len(runs') \in Nat
      /\ request.draft \in Nat /\ request.run \in Nat
  BY DEF PackageInv, PackageTypes, PackageRequest
<1>2. request.draft <= Len(revision) /\ request.run <= Len(runs)
  BY DEF PackageInv, NamesExist, RequestNamed
<1>3. request'.draft <= Len(revision') /\ request'.run <= Len(runs')
  BY <1>1, <1>2 DEF RevisionsStay, RunsStay
<1>4. request.draft # 0 => /\ revision'[request.draft].implements = revision[request.draft].implements
                           /\ revision'[request.draft].validation = revision[request.draft].validation
  <2>1. request.draft # 0 => request.draft \in 1 .. Len(revision)
    BY <1>1, <1>2
  <2> QED BY <2>1 DEF RevisionsStay
<1>5. request.run # 0 => runs'[request.run] = runs[request.run]
  <2>1. request.run # 0 => request.run \in 1 .. Len(runs)
    BY <1>1, <1>2
  <2> QED BY <2>1 DEF RunsStay
<1>6. StateHolds
  BY DEF PackageInv
<1>7. StateHolds'
  BY <1>4, <1>5, <1>6 DEF StateHolds, Drafted
<1> QED BY <1>3, <1>7 DEF RequestNamed

\* Nothing is added to the tables.
LEMMA TablesStay ==
  ASSUME PackageInv, revision' = revision, runs' = runs
  PROVE  RevisionsStay /\ RunsStay /\ NewRevisionsBegin
<1>1. Len(revision) \in Nat /\ Len(runs) \in Nat
  BY DEF PackageInv, PackageTypes
<1> QED BY <1>1 DEF RevisionsStay, RunsStay, NewRevisionsBegin

\* Jobs name what is there, while nothing is taken away and no job is added.
LEMMA JobsStay ==
  ASSUME PackageInv, admitted' = admitted, Len(runs') >= Len(runs), Len(baseline') >= Len(baseline),
         Len(runs') \in Nat, Len(baseline') \in Nat
  PROVE  JobsNamed'
<1>1. Len(runs) \in Nat /\ Len(baseline) \in Nat
  BY DEF PackageInv, PackageTypes
<1>2. \A n \in 1 .. Len(runs) : n \in 1 .. Len(runs')
  BY <1>1
<1>3. \A n \in 1 .. Len(baseline) : n \in 1 .. Len(baseline')
  BY <1>1
<1> QED BY <1>2, <1>3 DEF PackageInv, NamesExist, JobsNamed

\* A job is admitted.
LEMMA AdmitAdds ==
  ASSUME PackageInv, NEW kind \in Kinds, NEW arg \in Nat, Admit(kind, arg)
  PROVE  /\ admitted' \subseteq DurableJob /\ IsFiniteSet(admitted') /\ queued' \subseteq admitted'
         /\ admitted \subseteq admitted'
         /\ \A job \in admitted' : job \in admitted \/ (job.kind = kind /\ job.arg = arg /\ job.no \in 1 .. MaxJobs[kind])
<1> DEFINE no == Cardinality({job \in admitted : job.kind = kind}) + 1
           new == [kind |-> kind, no |-> no, arg |-> arg]
<1>1. admitted' = admitted \cup {new} /\ queued' = queued \cup {new} /\ no <= MaxJobs[kind]
  BY DEF Admit
<1>2. IsFiniteSet(admitted) /\ admitted \subseteq DurableJob /\ queued \subseteq admitted
  BY DEF PackageInv, PackageTypes
<1>3. no \in Nat /\ no >= 1
  <2>1. {job \in admitted : job.kind = kind} \in SUBSET admitted
    OBVIOUS
  <2>2. IsFiniteSet({job \in admitted : job.kind = kind})
    BY <1>2, <2>1, FS_Subset
  <2>3. Cardinality({job \in admitted : job.kind = kind}) \in Nat
    BY <2>2, FS_CardinalityType
  <2> QED BY <2>3
<1> HIDE DEF no
<1>4. new \in DurableJob
  BY <1>3 DEF DurableJob
<1>5. IsFiniteSet(admitted')
  <2> HIDE DEF new
  <2> QED BY <1>1, <1>2, FS_AddElement
<1>6. MaxJobs[kind] \in Nat
  BY CreatePackageBoundsAssumption
<1>7. no \in 1 .. MaxJobs[kind]
  BY <1>1, <1>3, <1>6
<1> QED BY <1>1, <1>2, <1>4, <1>5, <1>7

\* Bumped versions: nobody holds the version any more.
LEMMA Bumps ==
  ASSUME PackageInv
  PROVE  Bumped \in [Submits -> Submission] /\ \A q \in Submits : ~Bumped[q].fresh /\ Bumped[q].open = submit[q].open
<1>1. submit \in [Submits -> Submission]
  BY DEF PackageInv, PackageTypes
<1>2. ASSUME NEW q \in Submits
      PROVE  /\ [submit[q] EXCEPT !.fresh = FALSE] \in Submission /\ ~[submit[q] EXCEPT !.fresh = FALSE].fresh
             /\ [submit[q] EXCEPT !.fresh = FALSE].open = submit[q].open
  <2>1. submit[q] \in Submission
    BY <1>1
  <2> QED BY <2>1 DEF Submission
<1> QED BY <1>2 DEF Bumped

\* The parts together.
LEMMA Together ==
  ASSUME PackageInv, PackageTypes', RequestNamed', LibraryNamed', JobsNamed', HolderNamed', StateHolds',
         RevisionsStay, RunsStay, NewRevisionsBegin, SubmissionsRead'
  PROVE  PackageInv'
BY CertificatesStay DEF PackageInv, NamesExist

\* Steps that leave the request, the packages and the runs as they are.
LEMMA RequestLeft ==
  ASSUME PackageInv, PackageTypes', JobsNamed', HolderNamed', SubmissionsRead', request' = request, UNCHANGED library,
         runs' = runs
  PROVE  PackageInv'
<1>1. revision' = revision /\ package' = package
  BY DEF library
<1>2. RevisionsStay /\ RunsStay /\ NewRevisionsBegin
  BY <1>1, TablesStay
<1>3. StateHolds' /\ RequestNamed'
  BY <1>2, StateStays
<1>4. LibraryNamed'
  BY <1>1 DEF PackageInv, NamesExist, LibraryNamed
<1> QED BY <1>2, <1>3, <1>4, Together

\* Who holds the request's row is a job that was admitted.
LEMMA HolderStays ==
  ASSUME PackageInv, holder' \in {holder, Free}, admitted \subseteq admitted'
  PROVE  HolderNamed'
BY DEF PackageInv, NamesExist, HolderNamed, Free

\* What submissions have read is as current as it was.
LEMMA SubmissionsStay ==
  ASSUME PackageInv, submit' = submit, request'.state = request.state
  PROVE  SubmissionsRead'
BY DEF PackageInv, SubmissionsRead

\* No submission holds a version that has moved.
LEMMA SubmissionsBumped ==
  ASSUME PackageInv, submit' = Bumped
  PROVE  SubmissionsRead'
BY Bumps DEF SubmissionsRead

-----------------------------------------------------------------------------
(* The steps that leave the request alone *)

\* An administrator moves the registry.
LEMMA RegistryStep ==
  ASSUME PackageInv, ActivateResolver \/ DeprecateResolver \/ RetireResolver
  PROVE  PackageInv'
<1>1. /\ registry' \in [trust : {"candidate", "trusted_active", "deprecated"}, root : {"active", "deprecated"}]
      /\ UNCHANGED <<request, baseline, holder, library, runs, queue, submit>>
  BY DEF PackageInv, PackageTypes, ActivateResolver, DeprecateResolver, RetireResolver
<1>2. PackageTypes'
  BY <1>1 DEF PackageInv, PackageTypes, library, queue
<1>3. JobsNamed' /\ HolderNamed' /\ SubmissionsRead'
  BY <1>1 DEF PackageInv, NamesExist, JobsNamed, HolderNamed, SubmissionsRead, queue
<1> QED BY <1>1, <1>2, <1>3, RequestLeft

\* A worker finds that its job no longer counts.
LEMMA SupersededStep ==
  ASSUME PackageInv, NEW job, Superseded(job)
  PROVE  PackageInv'
<1>1. queued' \subseteq queued /\ UNCHANGED <<registry, request, baseline, holder, library, runs, admitted, submit>>
  BY DEF Superseded, Land
<1>2. PackageTypes'
  BY <1>1 DEF PackageInv, PackageTypes, library
<1>3. JobsNamed' /\ HolderNamed' /\ SubmissionsRead'
  BY <1>1 DEF PackageInv, NamesExist, JobsNamed, HolderNamed, SubmissionsRead
<1> QED BY <1>1, <1>2, <1>3, RequestLeft

\* Who holds the row dies.
LEMMA CrashStep ==
  ASSUME PackageInv, Crash
  PROVE  PackageInv'
<1>1. holder' = Free /\ UNCHANGED <<registry, request, baseline, library, runs, queue, submit>>
  BY DEF Crash
<1>2. PackageTypes'
  BY <1>1 DEF PackageInv, PackageTypes, Holder, library, queue, Free
<1>3. JobsNamed' /\ HolderNamed' /\ SubmissionsRead'
  BY <1>1 DEF PackageInv, NamesExist, JobsNamed, HolderNamed, SubmissionsRead, queue, Free
<1> QED BY <1>1, <1>2, <1>3, RequestLeft

\* An approval takes the row and looks the pins up.
LEMMA ApproveOpenStep ==
  ASSUME PackageInv, ApproveOpen
  PROVE  PackageInv'
<1>1. holder' = Approver /\ UNCHANGED <<registry, request, baseline, library, runs, queue, submit>>
  BY DEF ApproveOpen
<1>2. PackageTypes'
  BY <1>1 DEF PackageInv, PackageTypes, Holder, library, queue, Approver
<1>3. JobsNamed' /\ HolderNamed' /\ SubmissionsRead'
  BY <1>1 DEF PackageInv, NamesExist, JobsNamed, HolderNamed, SubmissionsRead, queue, Approver
<1> QED BY <1>1, <1>2, <1>3, RequestLeft

\* A Pre-Check takes the row and looks the resolver up.
LEMMA PrecheckResolveStep ==
  ASSUME PackageInv, NEW job \in admitted, PrecheckResolve(job)
  PROVE  PackageInv'
<1>1. CASE request.state \in PrecheckRecordable
  <2>1. /\ job.kind = "precheck" /\ holder' = [by |-> "precheck", job |-> job.no, pins |-> Resolves]
        /\ UNCHANGED <<registry, request, baseline, library, runs, queue, submit>>
    BY <1>1 DEF PrecheckResolve
  <2>2. job \in DurableJob
    BY DEF PackageInv, PackageTypes
  <2>3. job.no \in Nat
    BY <2>2 DEF DurableJob
  <2>4. PackageTypes'
    BY <2>1, <2>3 DEF PackageInv, PackageTypes, Holder, library, queue, Resolves
  <2>5. JobsNamed' /\ SubmissionsRead'
    BY <2>1 DEF PackageInv, NamesExist, JobsNamed, SubmissionsRead, queue
  <2>6. HolderNamed'
    BY <2>1 DEF HolderNamed, queue
  <2> QED BY <2>1, <2>4, <2>5, <2>6, RequestLeft
<1>2. CASE request.state \notin PrecheckRecordable
  BY <1>2, SupersededStep DEF PrecheckResolve
<1> QED BY <1>1, <1>2

\* A submission reads the request.
LEMMA SubmitOpenStep ==
  ASSUME PackageInv, NEW q \in Submits, NEW token \in BOOLEAN, SubmitOpen(q, token)
  PROVE  PackageInv'
<1> DEFINE s == [open |-> TRUE, token |-> token, fresh |-> TRUE, state |-> request.state, scan |-> request.scan]
<1>1. submit' = [submit EXCEPT ![q] = s] /\ UNCHANGED <<registry, request, baseline, holder, library, runs, queue>>
  BY DEF SubmitOpen
<1>2. s \in Submission
  BY Lengths DEF Submission, PackageInv
<1>3. submit \in [Submits -> Submission]
  BY DEF PackageInv, PackageTypes
<1>4. submit' \in [Submits -> Submission]
  BY <1>1, <1>2, <1>3
<1>5. PackageTypes'
  BY <1>1, <1>4 DEF PackageInv, PackageTypes, library, queue
<1>6. JobsNamed' /\ HolderNamed'
  BY <1>1 DEF PackageInv, NamesExist, JobsNamed, HolderNamed, queue
<1>7. SubmissionsRead'
  <2>1. s.state = request.state
    OBVIOUS
  <2> HIDE DEF s
  <2> QED BY <1>1, <1>3, <2>1 DEF PackageInv, SubmissionsRead
<1> QED BY <1>1, <1>5, <1>6, <1>7, RequestLeft

\* A Pre-Check is admitted.
LEMMA RunPrecheckStep ==
  ASSUME PackageInv, RunPrecheck
  PROVE  PackageInv'
<1>1. Admit("precheck", 0) /\ submit' = Bumped /\ UNCHANGED <<registry, request, baseline, holder, library, runs>>
  BY DEF RunPrecheck
<1>2. "precheck" \in Kinds /\ 0 \in Nat
  BY DEF Kinds
<1>3. /\ admitted' \subseteq DurableJob /\ IsFiniteSet(admitted') /\ queued' \subseteq admitted'
      /\ admitted \subseteq admitted'
      /\ \A job \in admitted' :
           job \in admitted \/ (job.kind = "precheck" /\ job.arg = 0 /\ job.no \in 1 .. MaxJobs["precheck"])
  BY <1>1, <1>2, AdmitAdds
<1>4. PackageTypes'
  BY <1>1, <1>3, Bumps DEF PackageInv, PackageTypes, library
<1>5. JobsNamed'
  BY <1>1, <1>3 DEF PackageInv, NamesExist, JobsNamed
<1>6. HolderNamed' /\ SubmissionsRead'
  BY <1>1, <1>3, HolderStays, SubmissionsBumped
<1> QED BY <1>1, <1>4, <1>5, <1>6, RequestLeft

\* A baseline is uploaded.
LEMMA UploadStep ==
  ASSUME PackageInv, UploadBaseline
  PROVE  PackageInv'
<1>1. /\ baseline' = Append(baseline, "uploaded") /\ submit' = Bumped
      /\ UNCHANGED <<registry, request, holder, library, runs, queue>>
  BY DEF UploadBaseline
<1>2. baseline \in Seq({"uploaded", "parsing", "passed", "failed"})
  BY DEF PackageInv, PackageTypes
<1>3. /\ baseline' \in Seq({"uploaded", "parsing", "passed", "failed"})
      /\ Len(baseline') = Len(baseline) + 1 /\ Len(baseline) \in Nat
  BY <1>1, <1>2
<1>4. PackageTypes'
  BY <1>1, <1>3, Bumps DEF PackageInv, PackageTypes, library, queue
<1>5. JobsNamed'
  <2>1. Len(runs) \in Nat
    BY Lengths DEF PackageInv
  <2> QED BY <1>1, <1>3, <2>1, JobsStay DEF queue
<1>6. HolderNamed' /\ SubmissionsRead'
  BY <1>1, HolderStays, SubmissionsBumped DEF queue
<1> QED BY <1>1, <1>4, <1>5, <1>6, RequestLeft

\* A parse is admitted.
LEMMA StartParseStep ==
  ASSUME PackageInv, StartParse
  PROVE  PackageInv'
<1>1. /\ baseline # <<>> /\ Admit("baseline_parse", Len(baseline))
      /\ baseline' = [baseline EXCEPT ![Len(baseline)] = "parsing"] /\ submit' = Bumped
      /\ UNCHANGED <<registry, request, holder, library, runs>>
  BY DEF StartParse
<1>2. baseline \in Seq({"uploaded", "parsing", "passed", "failed"})
  BY DEF PackageInv, PackageTypes
<1>3. Len(baseline) \in 1 .. Len(baseline)
  BY <1>1, <1>2
<1>4. /\ baseline' \in Seq({"uploaded", "parsing", "passed", "failed"})
      /\ Len(baseline') = Len(baseline) /\ Len(baseline) \in Nat
  BY <1>1, <1>2
<1>5. /\ admitted' \subseteq DurableJob /\ IsFiniteSet(admitted') /\ queued' \subseteq admitted'
      /\ admitted \subseteq admitted'
      /\ \A job \in admitted' : job \in admitted \/ (job.kind = "baseline_parse" /\ job.arg = Len(baseline)
                                                     /\ job.no \in 1 .. MaxJobs["baseline_parse"])
  <2>1. "baseline_parse" \in Kinds
    BY DEF Kinds
  <2> QED BY <1>1, <1>4, <2>1, AdmitAdds
<1>6. PackageTypes'
  BY <1>1, <1>4, <1>5, Bumps DEF PackageInv, PackageTypes, library
<1>7. JobsNamed'
  BY <1>1, <1>3, <1>4, <1>5 DEF PackageInv, NamesExist, JobsNamed
<1>8. HolderNamed' /\ SubmissionsRead'
  BY <1>1, <1>5, HolderStays, SubmissionsBumped
<1> QED BY <1>1, <1>6, <1>7, <1>8, RequestLeft

\* A parse lands.
LEMMA ParseBaselineStep ==
  ASSUME PackageInv, NEW job \in admitted, NEW good \in BOOLEAN, ParseBaseline(job, good)
  PROVE  PackageInv'
<1> DEFINE verdict == IF good THEN "passed" ELSE "failed"
<1>1. CASE OwnsAsset(job.arg)
  <2>1. /\ baseline' = [baseline EXCEPT ![job.arg] = verdict] /\ submit' = Bumped
        /\ queued' \subseteq queued /\ UNCHANGED <<registry, request, holder, library, runs, admitted>>
    BY <1>1 DEF ParseBaseline, Land
  <2>2. baseline \in Seq({"uploaded", "parsing", "passed", "failed"})
    BY DEF PackageInv, PackageTypes
  <2>3. /\ baseline' \in Seq({"uploaded", "parsing", "passed", "failed"})
        /\ Len(baseline') = Len(baseline) /\ Len(baseline) \in Nat
    <3>1. job.arg \in 1 .. Len(baseline)
      BY DEF ParseBaseline, PackageInv, NamesExist, JobsNamed
    <3>2. verdict \in {"passed", "failed"}
      OBVIOUS
    <3> HIDE DEF verdict
    <3> QED BY <2>1, <2>2, <3>1, <3>2
  <2>4. PackageTypes'
    BY <2>1, <2>3, Bumps DEF PackageInv, PackageTypes, library
  <2>5. JobsNamed'
    BY <2>1, <2>3 DEF PackageInv, NamesExist, JobsNamed
  <2>6. HolderNamed' /\ SubmissionsRead'
    BY <2>1, HolderStays, SubmissionsBumped
  <2> QED BY <2>1, <2>4, <2>5, <2>6, RequestLeft
<1>2. CASE ~OwnsAsset(job.arg)
  BY <1>2, SupersededStep DEF ParseBaseline
<1> QED BY <1>1, <1>2

-----------------------------------------------------------------------------
(* The steps that move the request *)

\* The states of a request, and the constants of the model.
LEMMA StatesAre ==
  States = {"requested", "precheck_passed", "precheck_blocked", "precheck_failed", "candidate_generating",
            "candidate_ready", "candidate_failed", "draft_created", "validation_running",
            "eligible_for_approval", "revision_required", "approved"}
BY DEF States, RequestAllowed

\* The initial records have their types.
LEMMA Constants ==
  NoScan \in Scan /\ Closed \in Submission /\ Free \in Holder
BY StatesAre DEF NoScan, Scan, Registry, Closed, Submission, Free, Holder

\* Steps that change the request, and neither the packages nor the runs.
LEMMA RequestMoves ==
  ASSUME PackageInv, PackageTypes', RequestNamed', JobsNamed', HolderNamed', StateHolds', SubmissionsRead',
         UNCHANGED library, runs' = runs
  PROVE  PackageInv'
<1>1. revision' = revision /\ package' = package
  BY DEF library
<1>2. RevisionsStay /\ RunsStay /\ NewRevisionsBegin
  BY <1>1, TablesStay
<1>3. LibraryNamed'
  BY <1>1 DEF PackageInv, NamesExist, LibraryNamed
<1> QED BY <1>2, <1>3, Together

\* A submission commits: generation is admitted, or it is refused.
LEMMA SubmitCommitStep ==
  ASSUME PackageInv, NEW q \in Submits, SubmitCommit(q)
  PROVE  PackageInv'
<1>1. submit \in [Submits -> Submission] /\ Closed \in Submission /\ ~Closed.open
  BY Constants DEF PackageInv, PackageTypes, Closed
<1>2. CASE Accepted(q)
  <2>1. /\ Admit("candidate_generation", 0) /\ request' = [request EXCEPT !.state = "candidate_generating"]
        /\ submit' = [Bumped EXCEPT ![q] = Closed] /\ UNCHANGED <<registry, baseline, holder, library, runs>>
    BY <1>2 DEF SubmitCommit
  <2>2. /\ admitted' \subseteq DurableJob /\ IsFiniteSet(admitted') /\ queued' \subseteq admitted'
        /\ admitted \subseteq admitted'
        /\ \A job \in admitted' : job \in admitted \/ (job.kind = "candidate_generation" /\ job.arg = 0
                                                       /\ job.no \in 1 .. MaxJobs["candidate_generation"])
    <3>1. "candidate_generation" \in Kinds /\ 0 \in Nat
      BY DEF Kinds
    <3> QED BY <2>1, <3>1, AdmitAdds
  <2>3. /\ request' \in PackageRequest /\ request'.state = "candidate_generating" /\ request'.scan = request.scan
        /\ request'.draft = request.draft /\ request'.run = request.run
    <3>1. request \in PackageRequest
      BY DEF PackageInv, PackageTypes
    <3> QED BY <2>1, <3>1, StatesAre DEF PackageRequest
  <2>4. submit' \in [Submits -> Submission] /\ \A r \in Submits : ~(submit'[r].open /\ submit'[r].fresh)
    <3> DEFINE bumped == Bumped
    <3>1. bumped \in [Submits -> Submission] /\ \A r \in Submits : ~bumped[r].fresh
      BY Bumps
    <3>2. submit' = [bumped EXCEPT ![q] = Closed]
      BY <2>1
    <3> HIDE DEF bumped
    <3> QED BY <1>1, <3>1, <3>2
  <2>5. PackageTypes'
    BY <2>1, <2>2, <2>3, <2>4 DEF PackageInv, PackageTypes, library
  <2>6. JobsNamed'
    BY <2>1, <2>2 DEF PackageInv, NamesExist, JobsNamed
  <2>7. HolderNamed' /\ SubmissionsRead' /\ RequestNamed'
    <3>1. SubmissionsRead'
      BY <2>4 DEF SubmissionsRead
    <3>2. RequestNamed'
      BY <2>1, <2>3 DEF PackageInv, NamesExist, RequestNamed, library
    <3> QED BY <2>1, <2>2, <3>1, <3>2, HolderStays
  <2>8. StateHolds'
    BY <2>3 DEF PackageInv, StateHolds, Drafted
  <2> QED BY <2>1, <2>5, <2>6, <2>7, <2>8, RequestMoves
<1>3. CASE ~Accepted(q)
  <2>1. /\ submit' = [submit EXCEPT ![q] = Closed]
        /\ UNCHANGED <<request, queue, registry, baseline, holder, library, runs>>
    BY <1>3 DEF SubmitCommit
  <2>2. submit' \in [Submits -> Submission]
    BY <1>1, <2>1
  <2>3. PackageTypes'
    BY <2>1, <2>2 DEF PackageInv, PackageTypes, library, queue
  <2>4. JobsNamed' /\ HolderNamed'
    BY <2>1 DEF PackageInv, NamesExist, JobsNamed, HolderNamed, queue
  <2>5. SubmissionsRead'
    BY <1>1, <2>1 DEF PackageInv, SubmissionsRead
  <2> QED BY <2>1, <2>3, <2>4, <2>5, RequestLeft
<1> QED BY <1>2, <1>3

\* The next candidate is generated in place, and the draft is let go.
LEMMA RequestRevisionStep ==
  ASSUME PackageInv, RequestRevision
  PROVE  PackageInv'
<1>1. /\ request' = [request EXCEPT !.state = "candidate_ready", !.draft = 0, !.run = 0,
                                    !.candidate = Candidate(request.scan)]
      /\ submit' = Bumped /\ UNCHANGED <<registry, baseline, holder, library, runs, queue>>
  BY DEF RequestRevision
<1>2. /\ request' \in PackageRequest /\ request'.state = "candidate_ready" /\ request'.scan = request.scan
      /\ request'.draft = 0 /\ request'.run = 0 /\ request'.candidate = Candidate(request.scan)
  <2>1. request \in PackageRequest
    BY DEF PackageInv, PackageTypes
  <2>2. Candidate(request.scan) \in Implementations /\ "candidate_ready" \in States
    BY StatesAre DEF Candidate, Implementations
  <2> HIDE DEF Candidate
  <2> QED BY <1>1, <2>1, <2>2 DEF PackageRequest
<1>3. PackageTypes'
  BY <1>1, <1>2, Bumps DEF PackageInv, PackageTypes, library, queue
<1>4. JobsNamed'
  BY <1>1 DEF PackageInv, NamesExist, JobsNamed, queue
<1>5. HolderNamed' /\ SubmissionsRead'
  BY <1>1, HolderStays, SubmissionsBumped DEF queue
<1>6. RequestNamed'
  BY <1>2, <1>3 DEF RequestNamed, PackageTypes
<1>7. StateHolds'
  BY <1>2 DEF PackageInv, StateHolds, Drafted
<1> QED BY <1>1, <1>3, <1>4, <1>5, <1>6, <1>7, RequestMoves

\* A candidate is generated, or not.
LEMMA GenerateStep ==
  ASSUME PackageInv, NEW job \in admitted, NEW fails \in BOOLEAN, GenerateCandidate(job, fails)
  PROVE  PackageInv'
<1>1. CASE request.state = "candidate_generating"
  <2>1. /\ request' = IF fails THEN [request EXCEPT !.state = "candidate_failed"]
                      ELSE [request EXCEPT !.state = "candidate_ready", !.candidate = Candidate(request.scan)]
        /\ submit' = Bumped /\ queued' \subseteq queued
        /\ UNCHANGED <<registry, baseline, holder, library, runs, admitted>>
    BY <1>1 DEF GenerateCandidate, Land
  <2>2. /\ request' \in PackageRequest /\ request'.scan = request.scan
        /\ request'.draft = request.draft /\ request'.run = request.run
        /\ \/ request'.state = "candidate_failed"
           \/ request'.state = "candidate_ready" /\ request'.candidate = Candidate(request.scan)
    <3>1. request \in PackageRequest
      BY DEF PackageInv, PackageTypes
    <3>2. Candidate(request.scan) \in Implementations /\ "candidate_ready" \in States /\ "candidate_failed" \in States
      BY StatesAre DEF Candidate, Implementations
    <3>3. CASE fails
      BY <2>1, <3>1, <3>2, <3>3 DEF PackageRequest
    <3>4. CASE ~fails
      BY <2>1, <3>1, <3>2, <3>4 DEF PackageRequest
    <3> QED BY <3>3, <3>4
  <2>3. PackageTypes'
    BY <2>1, <2>2, Bumps DEF PackageInv, PackageTypes, library
  <2>4. JobsNamed'
    BY <2>1 DEF PackageInv, NamesExist, JobsNamed
  <2>5. HolderNamed' /\ SubmissionsRead'
    BY <2>1, HolderStays, SubmissionsBumped
  <2>6. RequestNamed'
    BY <2>1, <2>2 DEF PackageInv, NamesExist, RequestNamed, library
  <2>7. StateHolds'
    BY <2>2 DEF PackageInv, StateHolds, Drafted
  <2> QED BY <2>1, <2>3, <2>4, <2>5, <2>6, <2>7, RequestMoves
<1>2. CASE request.state # "candidate_generating"
  BY <1>2, SupersededStep DEF GenerateCandidate
<1> QED BY <1>1, <1>2

\* The scan a Pre-Check records passes only with its resolver.
LEMMA ScanHolds ==
  ASSUME PackageInv, NEW pins \in BOOLEAN, NEW fails \in BOOLEAN
  PROVE  /\ ScanOf(pins, fails) \in Scan /\ (ScanOf(pins, fails).status = "passed" => ScanOf(pins, fails).pins)
         /\ ScanOf(pins, fails).status \in {"passed", "blocked", "failed"}
<1>1. registry \in [trust : {"candidate", "trusted_active", "deprecated"}, root : {"active", "deprecated"}]
  BY DEF PackageInv, PackageTypes
<1>2. registry \in Registry
  BY <1>1 DEF Registry
<1>3. CASE fails
  <2>1. ScanOf(pins, fails) = [NoScan EXCEPT !.status = "failed"]
    BY <1>3 DEF ScanOf
  <2>2. NoScan \in Scan
    BY Constants
  <2> QED BY <2>1, <2>2 DEF Scan, NoScan
<1>4. CASE ~fails
  BY <1>2, <1>4 DEF ScanOf, Scan
<1> QED BY <1>3, <1>4

\* A Pre-Check records its scan.
LEMMA PrecheckRecordStep ==
  ASSUME PackageInv, NEW job \in admitted, NEW fails \in BOOLEAN, PrecheckRecord(job, fails)
  PROVE  PackageInv'
<1> DEFINE scan == ScanOf(holder.pins, fails)
<1>1. /\ request' = [request EXCEPT !.scan = scan, !.state = PrecheckState[scan.status]]
      /\ submit' = Bumped /\ queued' \subseteq queued /\ holder' = Free
      /\ UNCHANGED <<registry, baseline, library, runs, admitted>>
  BY DEF PrecheckRecord, Land
<1>2. scan \in Scan /\ (scan.status = "passed" => scan.pins) /\ scan.status \in {"passed", "blocked", "failed"}
  <2>1. holder.pins \in BOOLEAN
    BY DEF PackageInv, PackageTypes, Holder
  <2> QED BY <2>1, ScanHolds
<1> HIDE DEF scan
<1>3. PrecheckState[scan.status] \in {"precheck_passed", "precheck_blocked", "precheck_failed"}
  BY <1>2 DEF PrecheckState
<1>4. /\ request' \in PackageRequest /\ request'.scan = scan /\ request'.state = PrecheckState[scan.status]
      /\ request'.draft = request.draft /\ request'.run = request.run
  <2> DEFINE target == PrecheckState[scan.status]
  <2>1. request \in PackageRequest
    BY DEF PackageInv, PackageTypes
  <2>2. target \in States
    BY <1>3, StatesAre
  <2>3. request' = [request EXCEPT !.scan = scan, !.state = target]
    BY <1>1
  <2> HIDE DEF target
  <2>4. /\ request' \in PackageRequest /\ request'.scan = scan /\ request'.state = target
        /\ request'.draft = request.draft /\ request'.run = request.run
    BY <1>2, <2>1, <2>2, <2>3 DEF PackageRequest
  <2> QED BY <2>4 DEF target
<1>5. PackageTypes'
  BY <1>1, <1>4, Bumps, Constants DEF PackageInv, PackageTypes, library
<1>6. JobsNamed'
  BY <1>1 DEF PackageInv, NamesExist, JobsNamed
<1>7. HolderNamed' /\ SubmissionsRead'
  BY <1>1, HolderStays, SubmissionsBumped
<1>8. RequestNamed'
  BY <1>1, <1>4 DEF PackageInv, NamesExist, RequestNamed, library
<1>9. StateHolds'
  <2>1. /\ request'.state \notin Drafted
        /\ request'.state \notin {"candidate_ready", "validation_running", "eligible_for_approval"}
    BY <1>3, <1>4 DEF Drafted
  <2> QED BY <1>2, <1>4, <2>1 DEF StateHolds, Drafted
<1> QED BY <1>1, <1>5, <1>6, <1>7, <1>8, <1>9, RequestMoves

-----------------------------------------------------------------------------
(* The steps that touch packages, revisions or runs *)

\* The candidate becomes a draft, the head of a new package.
LEMMA CreateDraftStep ==
  ASSUME PackageInv, CreateDraft
  PROVE  PackageInv'
<1> DEFINE v == Len(revision) + 1
           p == Len(package) + 1
           row == [head |-> v, published |-> FALSE, state |-> "active"]
           draft == Draft(p)
<1>1. /\ request.state = "candidate_ready" /\ request.scan.status = "passed"
      /\ revision' = Append(revision, draft) /\ package' = Append(package, row)
      /\ request' = [request EXCEPT !.draft = v, !.state = "draft_created"]
      /\ submit' = Bumped /\ UNCHANGED <<registry, baseline, holder, runs, queue>>
  BY DEF CreateDraft
<1>2. /\ revision \in Seq(Revision) /\ package \in Seq(Package) /\ Len(revision) \in Nat /\ Len(package) \in Nat
      /\ request \in PackageRequest
  BY DEF PackageInv, PackageTypes
<1>3. /\ draft \in Revision /\ draft.package = p /\ draft.validation = "pending"
      /\ draft.implements = request.candidate /\ draft.pins = request.scan.pins
  <2>1. request.candidate \in Implementations /\ request.scan.pins \in BOOLEAN /\ p \in Nat
    BY <1>2 DEF PackageRequest, Scan
  <2> QED BY <2>1 DEF Draft, Revision
<1>4. row \in Package /\ row.head = v
  BY <1>2 DEF Package
<1>5. request.candidate = "resolved" /\ request.scan.pins
  BY <1>1 DEF PackageInv, StateHolds, Candidate
<1>6. /\ request' \in PackageRequest /\ request'.state = "draft_created" /\ request'.scan = request.scan
      /\ request'.draft = v /\ request'.run = request.run /\ request'.candidate = request.candidate
  <2>1. v \in Nat /\ "draft_created" \in States
    BY <1>2, StatesAre
  <2> HIDE DEF v
  <2> QED BY <1>1, <1>2, <2>1 DEF PackageRequest
<1> HIDE DEF draft, row
<1>7. /\ revision' \in Seq(Revision) /\ Len(revision') = v /\ revision'[v] = draft
      /\ \A w \in 1 .. Len(revision) : revision'[w] = revision[w]
  BY <1>1, <1>2, <1>3
<1>8. /\ package' \in Seq(Package) /\ Len(package') = p /\ package'[p] = row
      /\ \A o \in 1 .. Len(package) : package'[o] = package[o]
  BY <1>1, <1>2, <1>4
<1>9. PackageTypes'
  BY <1>1, <1>6, <1>7, <1>8, Bumps DEF PackageInv, PackageTypes, queue
<1>10. RevisionsStay /\ RunsStay /\ NewRevisionsBegin
  <2>1. RevisionsStay
    BY <1>2, <1>7 DEF RevisionsStay
  <2>2. RunsStay
    BY <1>1, Lengths DEF PackageInv, RunsStay
  <2>3. NewRevisionsBegin
    <3>1. \A w \in 1 .. Len(revision') : w > Len(revision) => w = v
      BY <1>2, <1>7
    <3> QED BY <1>3, <1>5, <1>7, <3>1 DEF NewRevisionsBegin
  <2> QED BY <2>1, <2>2, <2>3
<1>11. LibraryNamed'
  <2>1. ASSUME NEW w \in 1 .. Len(revision')
        PROVE  revision'[w].package \in 1 .. Len(package')
    <3>1. CASE w \in 1 .. Len(revision)
      <4>1. revision[w].package \in 1 .. Len(package)
        BY <3>1 DEF PackageInv, NamesExist, LibraryNamed
      <4> QED BY <1>2, <1>7, <1>8, <3>1, <4>1
    <3>2. CASE w = v
      BY <1>2, <1>3, <1>7, <1>8, <3>2
    <3> QED BY <1>2, <1>7, <3>1, <3>2
  <2>2. ASSUME NEW o \in 1 .. Len(package')
        PROVE  package'[o].head \in 1 .. Len(revision') /\ revision'[package'[o].head].package = o
    <3>1. CASE o \in 1 .. Len(package)
      <4>1. package[o].head \in 1 .. Len(revision) /\ revision[package[o].head].package = o
        BY <3>1 DEF PackageInv, NamesExist, LibraryNamed
      <4> QED BY <1>2, <1>7, <1>8, <3>1, <4>1
    <3>2. CASE o = p
      BY <1>2, <1>3, <1>4, <1>7, <1>8, <3>2
    <3> QED BY <1>2, <1>8, <3>1, <3>2
  <2>3. \A n \in 1 .. Len(runs') : runs'[n].draft \in 1 .. Len(revision')
    <3>1. \A n \in 1 .. Len(runs) : runs[n].draft \in 1 .. Len(revision)
      BY DEF PackageInv, NamesExist, LibraryNamed
    <3>2. \A w \in 1 .. Len(revision) : w \in 1 .. Len(revision')
      BY <1>2, <1>7
    <3> QED BY <1>1, <3>1, <3>2
  <2> QED BY <2>1, <2>2, <2>3 DEF LibraryNamed
<1>12. JobsNamed'
  BY <1>1 DEF PackageInv, NamesExist, JobsNamed, queue
<1>13. HolderNamed' /\ SubmissionsRead'
  BY <1>1, HolderStays, SubmissionsBumped DEF queue
<1>14. RequestNamed'
  <2>1. request.run <= Len(runs)
    BY DEF PackageInv, NamesExist, RequestNamed
  <2> QED BY <1>1, <1>2, <1>6, <1>7, <2>1 DEF RequestNamed
<1>15. StateHolds'
  <2>1. request'.draft # 0
    BY <1>2, <1>6
  <2> QED BY <1>3, <1>6, <1>7, <2>1 DEF PackageInv, StateHolds, Drafted
<1> QED BY <1>9, <1>10, <1>11, <1>12, <1>13, <1>14, <1>15, Together

\* A validation of the draft is admitted.
LEMMA StartValidationStep ==
  ASSUME PackageInv, StartValidation
  PROVE  PackageInv'
<1> DEFINE n == Len(runs) + 1
           started == [draft |-> request.draft, candidate |-> request.candidate, status |-> "queued"]
<1>1. /\ request.draft # 0 /\ May(request.state, "validation_running")
      /\ runs' = Append(runs, started) /\ Admit("validation", n)
      /\ request' = [request EXCEPT !.state = "validation_running", !.run = n]
      /\ submit' = Bumped /\ UNCHANGED <<registry, baseline, holder, library>>
  BY DEF StartValidation
<1>2. /\ runs \in Seq(Run) /\ Len(runs) \in Nat /\ Len(revision) \in Nat /\ request \in PackageRequest
      /\ request.draft \in Nat
  BY DEF PackageInv, PackageTypes, PackageRequest
<1>3. started \in Run /\ started.draft = request.draft /\ started.candidate = request.candidate /\ started.status = "queued"
  BY <1>2 DEF Run, PackageRequest
<1>4. /\ request' \in PackageRequest /\ request'.state = "validation_running" /\ request'.scan = request.scan
      /\ request'.draft = request.draft /\ request'.run = n /\ request'.candidate = request.candidate
  <2>1. n \in Nat /\ "validation_running" \in States
    BY <1>2, StatesAre
  <2> HIDE DEF n
  <2> QED BY <1>1, <1>2, <2>1 DEF PackageRequest
<1>5. request.state = "draft_created"
  <2>1. request.state \in States
    BY <1>2 DEF PackageRequest
  <2> QED BY <1>1, <2>1, StatesAre DEF May, RequestAllowed
<1> HIDE DEF started
<1>6. /\ runs' \in Seq(Run) /\ Len(runs') = n /\ runs'[n] = started
      /\ \A m \in 1 .. Len(runs) : runs'[m] = runs[m]
  BY <1>1, <1>2, <1>3
<1>7. /\ admitted' \subseteq DurableJob /\ IsFiniteSet(admitted') /\ queued' \subseteq admitted'
      /\ admitted \subseteq admitted'
      /\ \A job \in admitted' : job \in admitted \/ (job.kind = "validation" /\ job.arg = n
                                                     /\ job.no \in 1 .. MaxJobs["validation"])
  <2>1. "validation" \in Kinds /\ n \in Nat
    BY <1>2 DEF Kinds
  <2> HIDE DEF n
  <2> QED BY <1>1, <2>1, AdmitAdds
<1>8. PackageTypes'
  BY <1>1, <1>4, <1>6, <1>7, Bumps DEF PackageInv, PackageTypes, library
<1>9. revision' = revision /\ package' = package
  BY <1>1 DEF library
<1>10. RevisionsStay /\ RunsStay /\ NewRevisionsBegin
  <2>1. RevisionsStay /\ NewRevisionsBegin
    BY <1>2, <1>9 DEF RevisionsStay, NewRevisionsBegin
  <2>2. RunsStay
    BY <1>2, <1>6 DEF RunsStay
  <2> QED BY <2>1, <2>2
<1>11. request.draft \in 1 .. Len(revision)
  BY <1>1, <1>2 DEF PackageInv, NamesExist, RequestNamed
<1>12. LibraryNamed'
  <2>1. ASSUME NEW m \in 1 .. Len(runs')
        PROVE  runs'[m].draft \in 1 .. Len(revision)
    <3>1. CASE m \in 1 .. Len(runs)
      BY <1>6, <3>1 DEF PackageInv, NamesExist, LibraryNamed
    <3>2. CASE m = n
      BY <1>3, <1>6, <1>11, <3>2
    <3> QED BY <1>2, <1>6, <3>1, <3>2
  <2> QED BY <1>9, <2>1 DEF PackageInv, NamesExist, LibraryNamed
<1>13. JobsNamed'
  <2>1. \A m \in 1 .. Len(runs) : m \in 1 .. Len(runs')
    BY <1>2, <1>6
  <2>2. n \in 1 .. Len(runs')
    BY <1>2, <1>6
  <2> QED BY <1>1, <1>7, <2>1, <2>2 DEF PackageInv, NamesExist, JobsNamed
<1>14. HolderNamed' /\ SubmissionsRead'
  BY <1>1, <1>7, HolderStays, SubmissionsBumped
<1>15. RequestNamed'
  BY <1>2, <1>4, <1>6, <1>9, <1>11 DEF RequestNamed
<1>16. StateHolds'
  <2>1. n # 0
    BY <1>2
  <2>2. revision[request.draft].implements = request.candidate
    BY <1>5 DEF PackageInv, StateHolds, Drafted
  <2> HIDE DEF n
  <2> QED BY <1>1, <1>3, <1>4, <1>6, <1>9, <2>1, <2>2 DEF PackageInv, StateHolds, Drafted
<1> QED BY <1>8, <1>10, <1>12, <1>13, <1>14, <1>15, <1>16, Together

\* Revisions whose approval moves, and packages that are published or change state, name
\* what they named.
LEMMA LibraryMoves ==
  ASSUME PackageInv, PackageTypes', RequestNamed', JobsNamed', HolderNamed', StateHolds', SubmissionsRead',
         runs' = runs, Len(revision') = Len(revision), Len(package') = Len(package), RevisionsStay,
         \A p \in 1 .. Len(package) : package'[p].head = package[p].head
  PROVE  PackageInv'
<1>1. Len(revision) \in Nat /\ Len(runs) \in Nat
  BY Lengths DEF PackageInv
<1>2. RunsStay /\ NewRevisionsBegin
  BY <1>1 DEF RunsStay, NewRevisionsBegin
<1>3. LibraryNamed
  BY DEF PackageInv, NamesExist
<1>4. \A v \in 1 .. Len(revision') : revision'[v].package \in 1 .. Len(package')
  BY <1>3 DEF LibraryNamed, RevisionsStay
<1>5. ASSUME NEW p \in 1 .. Len(package')
      PROVE  package'[p].head \in 1 .. Len(revision') /\ revision'[package'[p].head].package = p
  <2>1. package[p].head \in 1 .. Len(revision) /\ revision[package[p].head].package = p /\ package'[p].head = package[p].head
    BY <1>3 DEF LibraryNamed
  <2> QED BY <2>1 DEF RevisionsStay
<1>6. \A n \in 1 .. Len(runs') : runs'[n].draft \in 1 .. Len(revision')
  BY <1>3 DEF LibraryNamed
<1>7. LibraryNamed'
  BY <1>4, <1>5, <1>6 DEF LibraryNamed
<1> QED BY <1>2, <1>7, Together

\* The approval of a revision moves, and nothing else of it.
LEMMA ApprovalMoves ==
  ASSUME PackageInv, NEW v \in 1 .. Len(revision), NEW approval \in {"draft", "approval_requested", "approved"},
         revision' = [revision EXCEPT ![v].approval = approval]
  PROVE  revision' \in Seq(Revision) /\ Len(revision') = Len(revision) /\ RevisionsStay
<1> DEFINE moved == [revision[v] EXCEPT !.approval = approval]
<1>1. revision \in Seq(Revision) /\ Len(revision) \in Nat /\ revision[v] \in Revision
  BY Lengths DEF PackageInv, PackageTypes
<1>2. /\ moved \in Revision /\ moved.package = revision[v].package /\ moved.implements = revision[v].implements
      /\ moved.pins = revision[v].pins /\ moved.validation = revision[v].validation
  BY <1>1 DEF Revision
<1>3. revision' = [revision EXCEPT ![v] = moved]
  OBVIOUS
<1> HIDE DEF moved
<1>4. revision' \in Seq(Revision) /\ Len(revision') = Len(revision)
  BY <1>1, <1>2, <1>3
<1>5. \A w \in 1 .. Len(revision) : revision'[w] = IF w = v THEN moved ELSE revision[w]
  BY <1>1, <1>3
<1> QED BY <1>1, <1>2, <1>4, <1>5 DEF RevisionsStay

\* A root is published, or changes its state: its head does not move.
LEMMA RootMoves ==
  ASSUME PackageInv, NEW p \in 1 .. Len(package), NEW row \in Package, row.head = package[p].head,
         package' = [package EXCEPT ![p] = row]
  PROVE  /\ package' \in Seq(Package) /\ Len(package') = Len(package)
         /\ \A o \in 1 .. Len(package) : package'[o].head = package[o].head
<1>1. package \in Seq(Package)
  BY DEF PackageInv, PackageTypes
<1> QED BY <1>1

\* A package is deprecated or deleted.
LEMMA RetireStep ==
  ASSUME PackageInv, NEW p \in 1 .. Len(package), NEW state \in {"deprecated", "deleted"}, Retire(p, state)
  PROVE  PackageInv'
<1> DEFINE row == [package[p] EXCEPT !.state = state]
<1>1. /\ package' = [package EXCEPT ![p] = row]
      /\ UNCHANGED <<registry, request, baseline, holder, revision, runs, queue, submit>>
  BY DEF Retire
<1>2. row \in Package /\ row.head = package[p].head
  <2>1. package[p] \in Package
    BY Lengths DEF PackageInv
  <2> QED BY <2>1 DEF Package
<1> HIDE DEF row
<1>3. /\ package' \in Seq(Package) /\ Len(package') = Len(package)
      /\ \A o \in 1 .. Len(package) : package'[o].head = package[o].head
  BY <1>1, <1>2, RootMoves
<1>4. PackageTypes'
  BY <1>1, <1>3 DEF PackageInv, PackageTypes, queue
<1>5. RevisionsStay /\ RunsStay
  BY <1>1, TablesStay
<1>6. StateHolds' /\ RequestNamed'
  BY <1>1, <1>4, <1>5, StateStays
<1>7. JobsNamed' /\ HolderNamed' /\ SubmissionsRead'
  BY <1>1 DEF PackageInv, NamesExist, JobsNamed, HolderNamed, SubmissionsRead, queue
<1> QED BY <1>1, <1>3, <1>4, <1>5, <1>6, <1>7, LibraryMoves

\* A package gets a new head, without an implementation.
LEMMA AppendRevisionStep ==
  ASSUME PackageInv, NEW p \in 1 .. Len(package), AppendRevision(p)
  PROVE  PackageInv'
<1> DEFINE v == Len(revision) + 1
           new == [package |-> p, implements |-> "nothing", pins |-> revision[package[p].head].pins,
                   validation |-> "pending", approval |-> "draft"]
           row == [package[p] EXCEPT !.head = v]
<1>1. /\ revision' = Append(revision, new) /\ package' = [package EXCEPT ![p] = row]
      /\ UNCHANGED <<registry, request, baseline, holder, runs, queue, submit>>
  BY DEF AppendRevision
<1>2. /\ revision \in Seq(Revision) /\ package \in Seq(Package) /\ Len(revision) \in Nat /\ Len(package) \in Nat
      /\ package[p] \in Package
  BY Lengths DEF PackageInv, PackageTypes
<1>3. new \in Revision /\ new.package = p /\ new.implements = "nothing" /\ new.validation = "pending"
  <2>1. package[p].head \in 1 .. Len(revision)
    BY DEF PackageInv, NamesExist, LibraryNamed
  <2>2. revision[package[p].head] \in Revision
    BY <2>1, Lengths DEF PackageInv
  <2>3. revision[package[p].head].pins \in BOOLEAN /\ p \in Nat
    BY <1>2, <2>2 DEF Revision
  <2> QED BY <2>3 DEF Revision, Implementations
<1>4. row \in Package /\ row.head = v
  BY <1>2 DEF Package
<1> HIDE DEF new, row
<1>5. /\ revision' \in Seq(Revision) /\ Len(revision') = v /\ revision'[v] = new
      /\ \A w \in 1 .. Len(revision) : revision'[w] = revision[w]
  BY <1>1, <1>2, <1>3
<1>6. /\ package' \in Seq(Package) /\ Len(package') = Len(package) /\ package'[p] = row
      /\ \A o \in 1 .. Len(package) : o # p => package'[o] = package[o]
  BY <1>1, <1>2, <1>4
<1>7. PackageTypes'
  BY <1>1, <1>5, <1>6 DEF PackageInv, PackageTypes, queue
<1>8. RevisionsStay /\ RunsStay /\ NewRevisionsBegin
  <2>1. RevisionsStay
    BY <1>2, <1>5 DEF RevisionsStay
  <2>2. RunsStay
    BY <1>1, Lengths DEF PackageInv, RunsStay
  <2>3. \A w \in 1 .. Len(revision') : w > Len(revision) => w = v
    BY <1>2, <1>5
  <2>4. NewRevisionsBegin
    BY <1>3, <1>5, <2>3 DEF NewRevisionsBegin
  <2> QED BY <2>1, <2>2, <2>4
<1>9. LibraryNamed
  BY DEF PackageInv, NamesExist
<1>10. \A w \in 1 .. Len(revision) : w \in 1 .. Len(revision')
  BY <1>2, <1>5
<1>11. LibraryNamed'
  <2>1. ASSUME NEW w \in 1 .. Len(revision')
        PROVE  revision'[w].package \in 1 .. Len(package')
    <3>1. CASE w \in 1 .. Len(revision)
      BY <1>5, <1>6, <1>9, <3>1 DEF LibraryNamed
    <3>2. CASE w = v
      BY <1>3, <1>5, <1>6, <3>2
    <3> QED BY <1>2, <1>5, <3>1, <3>2
  <2>2. ASSUME NEW o \in 1 .. Len(package')
        PROVE  package'[o].head \in 1 .. Len(revision') /\ revision'[package'[o].head].package = o
    <3>1. CASE o # p
      <4>1. package[o].head \in 1 .. Len(revision) /\ revision[package[o].head].package = o /\ package'[o] = package[o]
        BY <1>6, <1>9, <3>1 DEF LibraryNamed
      <4> QED BY <1>5, <1>10, <4>1
    <3>2. CASE o = p
      BY <1>2, <1>3, <1>4, <1>5, <1>6, <3>2
    <3> QED BY <3>1, <3>2
  <2>3. \A n \in 1 .. Len(runs') : runs'[n].draft \in 1 .. Len(revision')
    BY <1>1, <1>9, <1>10 DEF LibraryNamed
  <2> QED BY <2>1, <2>2, <2>3 DEF LibraryNamed
<1>12. StateHolds' /\ RequestNamed'
  BY <1>1, <1>7, <1>8, StateStays
<1>13. JobsNamed' /\ HolderNamed' /\ SubmissionsRead'
  BY <1>1 DEF PackageInv, NamesExist, JobsNamed, HolderNamed, SubmissionsRead, queue
<1> QED BY <1>7, <1>8, <1>11, <1>12, <1>13, Together

\* A validated head is offered.
LEMMA RequestApprovalStep ==
  ASSUME PackageInv, NEW p \in 1 .. Len(package), RequestApproval(p)
  PROVE  PackageInv'
<1> DEFINE v == package[p].head
<1>1. /\ revision' = [revision EXCEPT ![v].approval = "approval_requested"]
      /\ UNCHANGED <<registry, request, baseline, holder, package, runs, queue, submit>>
  BY DEF RequestApproval
<1>2. v \in 1 .. Len(revision)
  BY DEF PackageInv, NamesExist, LibraryNamed
<1> HIDE DEF v
<1>3. revision' \in Seq(Revision) /\ Len(revision') = Len(revision) /\ RevisionsStay
  BY <1>1, <1>2, ApprovalMoves
<1>4. PackageTypes'
  BY <1>1, <1>3 DEF PackageInv, PackageTypes, queue
<1>5. RunsStay
  BY <1>1, Lengths DEF PackageInv, RunsStay
<1>6. StateHolds' /\ RequestNamed'
  BY <1>1, <1>3, <1>4, <1>5, StateStays
<1>7. JobsNamed' /\ HolderNamed' /\ SubmissionsRead'
  BY <1>1 DEF PackageInv, NamesExist, JobsNamed, HolderNamed, SubmissionsRead, queue
<1> QED BY <1>1, <1>3, <1>4, <1>6, <1>7, LibraryMoves

\* A head is approved, and its package published.
LEMMA ApproveHeadStep ==
  ASSUME PackageInv, NEW p \in 1 .. Len(package), ApproveHead(p)
  PROVE  PackageInv'
<1> DEFINE v == package[p].head
           row == [package[p] EXCEPT !.published = TRUE]
<1>1. /\ revision' = [revision EXCEPT ![v].approval = "approved"] /\ package' = [package EXCEPT ![p] = row]
      /\ UNCHANGED <<registry, request, baseline, holder, runs, queue, submit>>
  BY DEF ApproveHead
<1>2. v \in 1 .. Len(revision) /\ row \in Package /\ row.head = package[p].head
  <2>1. package[p] \in Package
    BY Lengths DEF PackageInv
  <2> QED BY <2>1 DEF PackageInv, NamesExist, LibraryNamed, Package
<1> HIDE DEF v, row
<1>3. revision' \in Seq(Revision) /\ Len(revision') = Len(revision) /\ RevisionsStay
  BY <1>1, <1>2, ApprovalMoves
<1>4. /\ package' \in Seq(Package) /\ Len(package') = Len(package)
      /\ \A o \in 1 .. Len(package) : package'[o].head = package[o].head
  BY <1>1, <1>2, RootMoves
<1>5. PackageTypes'
  BY <1>1, <1>3, <1>4 DEF PackageInv, PackageTypes, queue
<1>6. RunsStay
  BY <1>1, Lengths DEF PackageInv, RunsStay
<1>7. StateHolds' /\ RequestNamed'
  BY <1>1, <1>3, <1>5, <1>6, StateStays
<1>8. JobsNamed' /\ HolderNamed' /\ SubmissionsRead'
  BY <1>1 DEF PackageInv, NamesExist, JobsNamed, HolderNamed, SubmissionsRead, queue
<1> QED BY <1>1, <1>3, <1>4, <1>5, <1>7, <1>8, LibraryMoves

\* The request is approved, and its package published.
LEMMA ApproveCommitStep ==
  ASSUME PackageInv, ApprovalHolds, ApproveCommit
  PROVE  PackageInv'
<1> DEFINE v == request.draft
           p == revision[v].package
           row == [package[p] EXCEPT !.published = TRUE]
<1>1. /\ v # 0 /\ revision' = [revision EXCEPT ![v].approval = "approved"]
      /\ package' = [package EXCEPT ![p] = row] /\ request' = [request EXCEPT !.state = "approved"]
      /\ submit' = Bumped /\ holder' = Free /\ UNCHANGED <<registry, baseline, runs, queue>>
  BY DEF ApproveCommit, ApprovalHolds, Approvable
<1>2. v \in 1 .. Len(revision)
  BY <1>1, Lengths DEF PackageInv, NamesExist, RequestNamed
<1>3. p \in 1 .. Len(package)
  BY <1>2 DEF PackageInv, NamesExist, LibraryNamed
<1>4. row \in Package /\ row.head = package[p].head
  <2>1. package[p] \in Package
    BY <1>3, Lengths DEF PackageInv
  <2> QED BY <2>1 DEF Package
<1>5. /\ request' \in PackageRequest /\ request'.state = "approved" /\ request'.scan = request.scan
      /\ request'.draft = request.draft /\ request'.run = request.run
  <2>1. request \in PackageRequest
    BY DEF PackageInv, PackageTypes
  <2> QED BY <1>1, <2>1, StatesAre DEF PackageRequest
<1> HIDE DEF v, p, row
<1>6. revision' \in Seq(Revision) /\ Len(revision') = Len(revision) /\ RevisionsStay
  BY <1>1, <1>2, ApprovalMoves
<1>7. /\ package' \in Seq(Package) /\ Len(package') = Len(package)
      /\ \A o \in 1 .. Len(package) : package'[o].head = package[o].head
  BY <1>1, <1>3, <1>4, RootMoves
<1>8. PackageTypes'
  BY <1>1, <1>5, <1>6, <1>7, Bumps, Constants DEF PackageInv, PackageTypes, queue
<1>9. StateHolds' /\ RequestNamed'
  <2>1. StateHolds'
    BY <1>5 DEF PackageInv, StateHolds, Drafted
  <2>2. RequestNamed'
    BY <1>1, <1>5, <1>6 DEF PackageInv, NamesExist, RequestNamed
  <2> QED BY <2>1, <2>2
<1>10. JobsNamed'
  BY <1>1 DEF PackageInv, NamesExist, JobsNamed, queue
<1>11. HolderNamed' /\ SubmissionsRead'
  BY <1>1, HolderStays, SubmissionsBumped DEF queue
<1> QED BY <1>1, <1>6, <1>7, <1>8, <1>9, <1>10, <1>11, LibraryMoves

\* A validation ends: the run and the draft it is about get the same verdict, the
\* request's own run is the one that ends.
LEMMA ValidateStep ==
  ASSUME PackageInv, NEW job \in admitted, NEW good \in BOOLEAN, ValidateDraft(job, good)
  PROVE  PackageInv'
<1> DEFINE n == job.arg
           v == request.draft
           passed == Validates(good)
           verdict == IF passed THEN "passed" ELSE "failed"
           target == IF passed THEN "eligible_for_approval" ELSE "revision_required"
           ended == [runs[n] EXCEPT !.status = verdict]
           judged == [revision[v] EXCEPT !.validation = verdict]
<1>1. CASE OwnsRun(n)
  <2>1. request.state = "validation_running" /\ request.run = n
    BY <1>1 DEF OwnsRun
  <2>2. /\ request.draft # 0 /\ runs[n].draft = v /\ runs[n].candidate = request.candidate
        /\ runs[n].status = "queued" /\ revision[v].implements = request.candidate
        /\ n # 0
    BY <2>1 DEF PackageInv, StateHolds, Drafted
  <2>3. /\ runs' = [runs EXCEPT ![n] = ended] /\ revision' = [revision EXCEPT ![v] = judged]
        /\ request' = [request EXCEPT !.state = target] /\ submit' = Bumped /\ queued' \subseteq queued
        /\ UNCHANGED <<registry, baseline, holder, package, admitted>>
    BY <1>1, <2>2 DEF ValidateDraft, Land
  <2>4. /\ v \in 1 .. Len(revision) /\ n \in 1 .. Len(runs) /\ revision[v] \in Revision /\ runs[n] \in Run
        /\ revision \in Seq(Revision) /\ runs \in Seq(Run)
    <3>1. v \in 1 .. Len(revision) /\ n \in 1 .. Len(runs)
      BY <2>1, <2>2, Lengths DEF PackageInv, NamesExist, RequestNamed
    <3> QED BY <3>1, Lengths DEF PackageInv, PackageTypes
  <2>5. /\ verdict \in {"passed", "failed"}
        /\ \/ target = "eligible_for_approval" /\ verdict = "passed"
           \/ target = "revision_required" /\ verdict = "failed"
    OBVIOUS
  <2> HIDE DEF passed, verdict, target
  <2>6. /\ ended \in Run /\ ended.draft = v /\ ended.candidate = request.candidate /\ ended.status = verdict
    BY <2>2, <2>4, <2>5 DEF Run
  <2>7. /\ judged \in Revision /\ judged.package = revision[v].package /\ judged.implements = revision[v].implements
        /\ judged.pins = revision[v].pins /\ judged.validation = verdict
    BY <2>4, <2>5 DEF Revision
  <2> HIDE DEF ended, judged
  <2>8. /\ request' \in PackageRequest /\ request'.state = target /\ request'.scan = request.scan
        /\ request'.draft = v /\ request'.run = n /\ request'.candidate = request.candidate
    <3>1. request \in PackageRequest /\ target \in States
      BY <2>5, StatesAre DEF PackageInv, PackageTypes
    <3> QED BY <2>1, <2>3, <3>1 DEF PackageRequest
  <2> HIDE DEF n, v
  <2>9. runs' \in Seq(Run) /\ Len(runs') = Len(runs)
    BY <2>3, <2>4, <2>6
  <2>10. runs'[n] = ended /\ \A m \in 1 .. Len(runs) : m # n => runs'[m] = runs[m]
    BY <2>3, <2>4
  <2>11. revision' \in Seq(Revision) /\ Len(revision') = Len(revision)
    BY <2>3, <2>4, <2>7
  <2>12. revision'[v] = judged /\ \A w \in 1 .. Len(revision) : w # v => revision'[w] = revision[w]
    BY <2>3, <2>4
  <2>13. \A w \in 1 .. Len(revision) :
           /\ revision'[w].package = revision[w].package /\ revision'[w].implements = revision[w].implements
           /\ revision'[w].pins = revision[w].pins
    BY <2>7, <2>12
  <2>14. PackageTypes'
    BY <2>3, <2>8, <2>9, <2>11, Bumps DEF PackageInv, PackageTypes
  <2>15. LibraryNamed'
    <3>1. LibraryNamed
      BY DEF PackageInv, NamesExist
    <3>2. \A w \in 1 .. Len(revision') : revision'[w].package \in 1 .. Len(package')
      BY <2>3, <2>11, <2>13, <3>1 DEF LibraryNamed
    <3>3. \A p \in 1 .. Len(package') :
            package'[p].head \in 1 .. Len(revision') /\ revision'[package'[p].head].package = p
      BY <2>3, <2>11, <2>13, <3>1 DEF LibraryNamed
    <3>4. \A m \in 1 .. Len(runs') : runs'[m].draft \in 1 .. Len(revision')
      BY <2>4, <2>6, <2>9, <2>10, <2>11, <3>1 DEF LibraryNamed
    <3> QED BY <3>2, <3>3, <3>4 DEF LibraryNamed
  <2>16. JobsNamed' /\ RequestNamed'
    <3>1. JobsNamed'
      BY <2>3, <2>9 DEF PackageInv, NamesExist, JobsNamed
    <3>2. RequestNamed'
      <4>1. v <= Len(revision) /\ n <= Len(runs)
        BY <2>4, Lengths DEF PackageInv
      <4> QED BY <2>8, <2>9, <2>11, <4>1 DEF RequestNamed
    <3> QED BY <3>1, <3>2
  <2>17. HolderNamed' /\ SubmissionsRead'
    BY <2>3, HolderStays, SubmissionsBumped
  <2>18. StateHolds'
    <3>1. revision'[v].implements = request.candidate /\ revision'[v].validation = verdict
      BY <2>2, <2>7, <2>12
    <3>2. runs'[n].draft = v /\ runs'[n].candidate = request.candidate /\ runs'[n].status = verdict
      BY <2>6, <2>10
    <3>3. v # 0 /\ n # 0
      BY <2>2 DEF v
    <3> QED BY <2>5, <2>8, <3>1, <3>2, <3>3 DEF PackageInv, StateHolds, Drafted
  <2>19. PassedIsItsOwn'
    <3>1. ASSUME NEW w \in 1 .. Len(revision'), revision'[w].validation = "passed"
          PROVE  \E m \in 1 .. Len(runs') : /\ runs'[m].draft = w /\ runs'[m].status = "passed"
                                            /\ runs'[m].candidate = revision'[w].implements
      <4>1. CASE w = v
        <5>1. verdict = "passed"
          BY <2>7, <2>12, <3>1, <4>1
        <5> QED BY <2>2, <2>4, <2>6, <2>7, <2>9, <2>10, <2>12, <4>1, <5>1 DEF v
      <4>2. CASE w # v
        <5>1. w \in 1 .. Len(revision) /\ revision'[w] = revision[w]
          BY <2>11, <2>12, <4>2
        <5>2. PICK m \in 1 .. Len(runs) : /\ runs[m].draft = w /\ runs[m].status = "passed"
                                          /\ runs[m].candidate = revision[w].implements
          BY <3>1, <5>1 DEF PackageInv, PassedIsItsOwn
        <5>3. m # n
          BY <2>2, <5>2
        <5> QED BY <2>9, <2>10, <5>1, <5>2, <5>3
      <4> QED BY <4>1, <4>2
    <3> QED BY <3>1 DEF PassedIsItsOwn
  <2>20. DraftHasItsResolvers'
    BY <2>11, <2>13 DEF PackageInv, DraftHasItsResolvers
  <2> QED BY <2>14, <2>15, <2>16, <2>17, <2>18, <2>19, <2>20 DEF PackageInv, NamesExist
<1>2. CASE ~OwnsRun(n)
  BY <1>2, SupersededStep DEF ValidateDraft
<1> QED BY <1>1, <1>2

-----------------------------------------------------------------------------
(* Every step of CreatePackage *)

\* The invariant holds at first.
LEMMA PackagesBegin == InitPackages => PackageInv /\ ApprovalHolds
<1> SUFFICES ASSUME InitPackages PROVE PackageInv /\ ApprovalHolds
  OBVIOUS
<1>1. Len(revision) = 0 /\ Len(package) = 0 /\ Len(runs) = 0 /\ Len(baseline) = 0
  BY DEF InitPackages
<1>2. request \in PackageRequest /\ request.scan = NoScan /\ request.state = "requested" /\ request.draft = 0 /\ request.run = 0
  BY Constants, StatesAre DEF InitPackages, PackageRequest, Implementations
<1>3. PackageTypes
  <2>1. registry \in [trust : {"candidate", "trusted_active", "deprecated"}, root : {"active", "deprecated"}]
    BY DEF InitPackages
  <2>2. submit \in [Submits -> Submission]
    BY Constants DEF InitPackages
  <2>3. IsFiniteSet(admitted)
    BY FS_EmptySet DEF InitPackages
  <2>4. holder \in Holder
    BY Constants DEF InitPackages
  <2> QED BY <1>2, <2>1, <2>2, <2>3, <2>4 DEF InitPackages, PackageTypes
<1>4. NamesExist
  BY <1>1, <1>2 DEF InitPackages, NamesExist, RequestNamed, LibraryNamed, JobsNamed, HolderNamed, Free
<1>5. StateHolds
  BY <1>2 DEF StateHolds, Drafted, NoScan
<1>6. PassedIsItsOwn /\ DraftHasItsResolvers
  BY <1>1 DEF PassedIsItsOwn, DraftHasItsResolvers
<1>7. SubmissionsRead
  BY DEF InitPackages, SubmissionsRead, Closed
<1>8. ApprovalHolds
  BY DEF InitPackages, ApprovalHolds, Free
<1> QED BY <1>3, <1>4, <1>5, <1>6, <1>7, <1>8 DEF PackageInv

\* Nothing moves.
LEMMA PackagesStutter ==
  ASSUME PackageInv, UNCHANGED packageVars
  PROVE  PackageInv'
<1>1. UNCHANGED <<registry, request, baseline, holder, revision, package, runs, admitted, queued, submit>>
  BY DEF packageVars, library, queue
<1>2. PackageTypes' /\ JobsNamed' /\ HolderNamed' /\ SubmissionsRead'
  BY <1>1 DEF PackageInv, NamesExist, PackageTypes, JobsNamed, HolderNamed, SubmissionsRead
<1> QED BY <1>1, <1>2, RequestLeft DEF library

\* Every step preserves the invariant.
LEMMA PackagesPreserved ==
  ASSUME PackageInv, ApprovalHolds, [NextPackages]_packageVars
  PROVE  PackageInv'
<1>1. CASE ActivateResolver \/ DeprecateResolver \/ RetireResolver
  BY <1>1, RegistryStep
<1>2. CASE Command
  <2>1. CASE \E q \in Submits, token \in BOOLEAN : SubmitOpen(q, token)
    BY <2>1, SubmitOpenStep
  <2>2. CASE \E q \in Submits : SubmitCommit(q)
    BY <2>2, SubmitCommitStep
  <2> QED
    BY <1>2, <2>1, <2>2, RunPrecheckStep, CreateDraftStep, StartValidationStep, RequestRevisionStep, UploadStep,
       StartParseStep, ApproveOpenStep, ApproveCommitStep
    DEF Command
<1>3. CASE Library
  <2>1. PICK p \in 1 .. Len(package) :
          \/ \E state \in {"deprecated", "deleted"} : Retire(p, state)
          \/ AppendRevision(p) \/ RequestValidation(p) \/ RequestApproval(p) \/ ApproveHead(p)
    BY <1>3 DEF Library
  <2>2. CASE \E state \in {"deprecated", "deleted"} : Retire(p, state)
    BY <2>2, RetireStep
  <2>3. CASE RequestValidation(p)
    BY <2>3, StartValidationStep DEF RequestValidation
  <2> QED BY <2>1, <2>2, <2>3, AppendRevisionStep, RequestApprovalStep, ApproveHeadStep
<1>4. CASE Crash
  BY <1>4, CrashStep
<1>5. CASE \E job \in admitted : Work(job)
  <2>1. PICK job \in admitted : Work(job)
    BY <1>5
  <2>2. CASE PrecheckResolve(job)
    BY <2>2, PrecheckResolveStep
  <2>3. ASSUME NEW ok \in BOOLEAN,
               PrecheckRecord(job, ok) \/ GenerateCandidate(job, ok) \/ ValidateDraft(job, ok) \/ ParseBaseline(job, ok)
        PROVE  PackageInv'
    BY <2>3, PrecheckRecordStep, GenerateStep, ValidateStep, ParseBaselineStep
  <2> QED BY <2>1, <2>2, <2>3 DEF Work
<1>6. CASE UNCHANGED packageVars
  BY <1>6, PackagesStutter
<1> QED BY <1>1, <1>2, <1>3, <1>4, <1>5, <1>6 DEF NextPackages

\* What an approval rests on stays, where a step leaves it alone.
LEMMA ApprovalStays ==
  ASSUME PackageInv, ApprovalHolds, UNCHANGED <<request, baseline, runs, holder>>,
         \A v \in 1 .. Len(revision) : revision'[v].pins = revision[v].pins
  PROVE  ApprovalHolds'
<1> SUFFICES ASSUME holder'.by = "approval"
             PROVE  Approvable' /\ (revision'[request'.draft].pins => holder'.pins)
  BY DEF ApprovalHolds
<1>1. Approvable /\ (revision[request.draft].pins => holder.pins)
  BY DEF ApprovalHolds
<1>2. request.draft \in 1 .. Len(revision)
  BY <1>1, Lengths DEF PackageInv, NamesExist, RequestNamed, Approvable
<1>3. Approvable'
  BY <1>1 DEF Approvable, BaselineHolds
<1> QED BY <1>1, <1>2, <1>3

\* While an approval holds the row, only the registry and the Library move, and neither
\* changes what it rests on: every command and every worker waits for the row.
LEMMA ApprovalPreserved ==
  ASSUME PackageInv, ApprovalHolds, [NextPackages]_packageVars
  PROVE  ApprovalHolds'
<1> SUFFICES ASSUME holder'.by = "approval" PROVE ApprovalHolds'
  BY DEF ApprovalHolds
<1>1. Free.by = "nobody"
  BY DEF Free
<1>2. CASE ApproveOpen
  BY <1>2 DEF ApproveOpen, ApprovalHolds, Approver, Approvable, BaselineHolds, PinsHold, library
<1>3. ASSUME UNCHANGED <<request, baseline, runs, holder, revision>> PROVE ApprovalHolds'
  BY <1>3, ApprovalStays
<1>4. ASSUME StartValidation PROVE ApprovalHolds'
  BY <1>1, <1>4 DEF StartValidation
<1>5. CASE Command
  <2>1. CASE \E q \in Submits, token \in BOOLEAN : SubmitOpen(q, token)
    BY <1>3, <2>1 DEF SubmitOpen, library
  <2>2. CASE \E q \in Submits : SubmitCommit(q)
    BY <1>1, <2>2 DEF SubmitCommit
  <2>3. CASE ApproveCommit
    BY <1>1, <2>3 DEF ApproveCommit
  <2>4. CASE RunPrecheck \/ CreateDraft \/ RequestRevision \/ UploadBaseline \/ StartParse
    BY <1>1, <2>4 DEF RunPrecheck, CreateDraft, RequestRevision, UploadBaseline, StartParse
  <2> QED BY <1>2, <1>4, <1>5, <2>1, <2>2, <2>3, <2>4 DEF Command
<1>6. CASE Library
  <2>1. PICK p \in 1 .. Len(package) :
          \/ \E state \in {"deprecated", "deleted"} : Retire(p, state)
          \/ AppendRevision(p) \/ RequestValidation(p) \/ RequestApproval(p) \/ ApproveHead(p)
    BY <1>6 DEF Library
  <2>2. CASE \E state \in {"deprecated", "deleted"} : Retire(p, state)
    BY <1>3, <2>2 DEF Retire
  <2>3. CASE RequestValidation(p)
    BY <1>4, <2>3 DEF RequestValidation
  <2>4. revision \in Seq(Revision) /\ package[p].head \in 1 .. Len(revision)
    BY DEF PackageInv, PackageTypes, NamesExist, LibraryNamed
  <2>5. CASE AppendRevision(p)
    BY <2>4, <2>5, ApprovalStays DEF AppendRevision
  <2>6. CASE RequestApproval(p) \/ ApproveHead(p)
    <3>1. PICK a \in {"approval_requested", "approved"} : revision' = [revision EXCEPT ![package[p].head].approval = a]
      BY <2>6 DEF RequestApproval, ApproveHead
    <3>2. \A v \in 1 .. Len(revision) : revision'[v].pins = revision[v].pins
      BY <2>4, <3>1 DEF Revision
    <3> QED BY <2>6, <3>2, ApprovalStays DEF RequestApproval, ApproveHead
  <2> QED BY <2>1, <2>2, <2>3, <2>5, <2>6
<1>7. ASSUME NEW job \in admitted, Work(job) PROVE ApprovalHolds'
  <2>1. CASE PrecheckResolve(job)
    BY <1>1, <2>1 DEF PrecheckResolve, Superseded
  <2>2. ASSUME NEW ok \in BOOLEAN, PrecheckRecord(job, ok) PROVE ApprovalHolds'
    BY <1>1, <2>2 DEF PrecheckRecord
  <2>3. ASSUME NEW ok \in BOOLEAN, GenerateCandidate(job, ok) \/ ValidateDraft(job, ok) \/ ParseBaseline(job, ok)
        PROVE  ApprovalHolds'
    BY <1>1, <2>3 DEF GenerateCandidate, ValidateDraft, ParseBaseline, Superseded
  <2> QED BY <1>7, <2>1, <2>2, <2>3 DEF Work
<1>8. CASE Crash
  BY <1>1, <1>8 DEF Crash
<1>9. CASE ActivateResolver \/ DeprecateResolver \/ RetireResolver \/ UNCHANGED packageVars
  BY <1>3, <1>9 DEF ActivateResolver, DeprecateResolver, RetireResolver, packageVars, library
<1> QED BY <1>5, <1>6, <1>7, <1>8, <1>9 DEF NextPackages

\* The invariant holds always.
LEMMA PackagesHold == SpecPackages => [](PackageInv /\ ApprovalHolds)
<1>1. PackageInv /\ ApprovalHolds /\ [NextPackages]_packageVars => PackageInv' /\ ApprovalHolds'
  BY PackagesPreserved, ApprovalPreserved
<1> QED BY PackagesBegin, <1>1, PTL DEF SpecPackages

-----------------------------------------------------------------------------
(* Theorems of CreatePackage *)

\* The invariant says what the run checks.
LEMMA EvidenceFollows == PackageInv /\ ApprovalHolds => EvidenceIsItsOwn
<1> SUFFICES ASSUME PackageInv, ApprovalHolds PROVE EvidenceIsItsOwn
  OBVIOUS
<1>1. /\ Len(revision) \in Nat /\ Len(package) \in Nat /\ Len(runs) \in Nat /\ request.draft \in Nat /\ request.run \in Nat
      /\ request.scan \in Scan /\ request.candidate \in Implementations /\ request.state \in States
  BY Lengths DEF PackageInv
<1>2. TypeOKPackages
  <2>1. /\ request.scan.status \in {"none", "passed", "blocked", "failed"} /\ request.state \in DOMAIN RequestAllowed
        /\ request.candidate \in {"nothing", "resolved", "unresolved"}
    BY <1>1 DEF Scan, States, Implementations
  <2>2. request.draft \in 0 .. Len(revision) /\ request.run \in 0 .. Len(runs)
    BY <1>1 DEF PackageInv, NamesExist, RequestNamed
  <2>3. /\ request.state \in Drafted => request.draft # 0
        /\ request.state \in {"validation_running", "eligible_for_approval"} => request.run # 0
    BY DEF PackageInv, StateHolds
  <2>4. \A a \in 1 .. Len(baseline) : baseline[a] \in {"uploaded", "parsing", "passed", "failed"}
    BY DEF PackageInv, PackageTypes
  <2>5. \A job \in admitted : job.kind \in Kinds /\ job.no \in 1 .. MaxJobs[job.kind]
    BY DEF PackageInv, PackageTypes, NamesExist, JobsNamed, DurableJob
  <2>6. \A q \in Submits : submit[q].state \in DOMAIN RequestAllowed
    BY DEF PackageInv, PackageTypes, Submission, States
  <2>7. /\ holder.by = "precheck" => \E job \in admitted : job.kind = "precheck" /\ job.no = holder.job
        /\ holder.by = "approval" => request.draft # 0 /\ request.run # 0
    BY DEF PackageInv, NamesExist, HolderNamed, ApprovalHolds, Approvable, StateHolds
  <2>8. LibraryNamed /\ queued \subseteq admitted
        /\ registry \in [trust : {"candidate", "trusted_active", "deprecated"}, root : {"active", "deprecated"}]
    BY DEF PackageInv, NamesExist, PackageTypes
  <2> QED BY <2>1, <2>2, <2>3, <2>4, <2>5, <2>6, <2>7, <2>8 DEF TypeOKPackages, LibraryNamed
<1>3. EligibleIsCertified
  BY DEF EligibleIsCertified, PackageInv, StateHolds, Drafted
<1> QED BY <1>2, <1>3 DEF EvidenceIsItsOwn, PackageInv

\* What is offered for approval rests on a passed run of that very draft and candidate, a
\* validated revision was validated as what it contains, and a draft has the resolver its
\* code calls: whatever Pre-Checks, generations, validations and parses land late, twice
\* or after a crash, however many submissions are open.
THEOREM EvidenceIsAboutTheDraft == SpecPackages => []EvidenceIsItsOwn
BY PackagesHold, EvidenceFollows, PTL

\* How a step moves the request's state.
LEMMA StateMoves ==
  ASSUME PackageInv, [NextPackages]_packageVars
  PROVE  \/ request'.state = request.state
         \/ ApproveCommit
         \/ \E q \in Submits : SubmitCommit(q) /\ Accepted(q) /\ request'.state = "candidate_generating"
         \/ request.state # "approved" /\ request'.state # "approved"
<1> DEFINE Goal == \/ request'.state = request.state
                   \/ ApproveCommit
                   \/ \E q \in Submits : SubmitCommit(q) /\ Accepted(q) /\ request'.state = "candidate_generating"
                   \/ request.state # "approved" /\ request'.state # "approved"
<1>1. request \in PackageRequest
  BY DEF PackageInv, PackageTypes
<1>2. ASSUME StartValidation PROVE Goal
  BY <1>1, <1>2 DEF StartValidation, PackageRequest, May, RequestAllowed
<1>3. ASSUME NEW q \in Submits, SubmitCommit(q) PROVE Goal
  BY <1>1, <1>3 DEF SubmitCommit, PackageRequest
<1>4. CASE Command
  <2>1. CASE CreateDraft \/ RequestRevision
    BY <1>1, <2>1 DEF CreateDraft, RequestRevision, PackageRequest
  <2>2. CASE RunPrecheck \/ UploadBaseline \/ StartParse \/ ApproveOpen
             \/ \E q \in Submits, token \in BOOLEAN : SubmitOpen(q, token)
    BY <2>2 DEF RunPrecheck, UploadBaseline, StartParse, ApproveOpen, SubmitOpen
  <2> QED BY <1>2, <1>3, <1>4, <2>1, <2>2 DEF Command
<1>5. CASE Library
  BY <1>2, <1>5 DEF Library, Retire, AppendRevision, RequestValidation, RequestApproval, ApproveHead
<1>6. ASSUME NEW job \in admitted, Work(job) PROVE Goal
  <2>1. ASSUME Superseded(job) PROVE Goal
    BY <2>1 DEF Superseded
  <2>2. CASE PrecheckResolve(job)
    BY <2>1, <2>2 DEF PrecheckResolve
  <2>3. ASSUME NEW ok \in BOOLEAN, PrecheckRecord(job, ok) PROVE Goal
    <3> DEFINE scan == ScanOf(holder.pins, ok)
    <3>1. /\ request' = [request EXCEPT !.scan = scan, !.state = PrecheckState[scan.status]]
          /\ May(request.state, PrecheckState[scan.status])
      BY <2>3 DEF PrecheckRecord
    <3>2. scan.status \in {"passed", "blocked", "failed"}
      <4>1. holder.pins \in BOOLEAN
        BY DEF PackageInv, PackageTypes, Holder
      <4> QED BY <4>1, ScanHolds
    <3> HIDE DEF scan
    <3>3. PrecheckState[scan.status] # "approved"
      BY <3>2 DEF PrecheckState
    <3>4. request.state # "approved"
      BY <3>1 DEF May, RequestAllowed
    <3>5. request'.state = PrecheckState[scan.status]
      BY <1>1, <3>1 DEF PackageRequest
    <3> QED BY <3>3, <3>4, <3>5
  <2>4. ASSUME NEW ok \in BOOLEAN, GenerateCandidate(job, ok) PROVE Goal
    <3>1. CASE request.state = "candidate_generating"
      <4>1. request' = IF ok THEN [request EXCEPT !.state = "candidate_failed"]
                       ELSE [request EXCEPT !.state = "candidate_ready", !.candidate = Candidate(request.scan)]
        BY <2>4, <3>1 DEF GenerateCandidate
      <4>2. request'.state \in {"candidate_failed", "candidate_ready"}
        BY <1>1, <4>1 DEF PackageRequest
      <4> QED BY <3>1, <4>2
    <3>2. CASE request.state # "candidate_generating"
      BY <2>1, <2>4, <3>2 DEF GenerateCandidate
    <3> QED BY <3>1, <3>2
  <2>5. ASSUME NEW ok \in BOOLEAN, ValidateDraft(job, ok) PROVE Goal
    <3>1. CASE OwnsRun(job.arg)
      <4> DEFINE target == IF Validates(ok) THEN "eligible_for_approval" ELSE "revision_required"
      <4>1. request' = [request EXCEPT !.state = target]
        BY <2>5, <3>1 DEF ValidateDraft
      <4>2. target # "approved"
        OBVIOUS
      <4> HIDE DEF target
      <4>3. request'.state # "approved"
        BY <1>1, <4>1, <4>2 DEF PackageRequest
      <4> QED BY <3>1, <4>3 DEF OwnsRun
    <3>2. CASE ~OwnsRun(job.arg)
      BY <2>1, <2>5, <3>2 DEF ValidateDraft
    <3> QED BY <3>1, <3>2
  <2>6. ASSUME NEW ok \in BOOLEAN, ParseBaseline(job, ok) PROVE Goal
    BY <2>1, <2>6 DEF ParseBaseline
  <2> QED BY <1>6, <2>2, <2>3, <2>4, <2>5, <2>6 DEF Work
<1>7. CASE ActivateResolver \/ DeprecateResolver \/ RetireResolver \/ Crash \/ UNCHANGED packageVars
  BY <1>7 DEF ActivateResolver, DeprecateResolver, RetireResolver, Crash, packageVars
<1> QED BY <1>4, <1>5, <1>6, <1>7 DEF NextPackages

\* Create Package publishes only a draft that passed, as the candidate it was validated for,
\* under a baseline that still holds, and on a pin that was active when the approval looked
\* it up under the request's lock - whatever submissions, workers, crashes and Library
\* commands come in between.
THEOREM OnlyWhatHoldsIsPublished == SpecPackages => PublishesWhatHolds
<1>1. PackageInv /\ ApprovalHolds /\ [NextPackages]_packageVars =>
        [request.state # "approved" /\ request'.state = "approved" => PublishedHolds]_packageVars
  <2> SUFFICES ASSUME PackageInv, ApprovalHolds, [NextPackages]_packageVars,
                      request.state # "approved", request'.state = "approved"
               PROVE  PublishedHolds
    OBVIOUS
  <2>1. ApproveCommit
    BY StateMoves
  <2>2. holder.by = "approval" /\ Approvable /\ (revision[request.draft].pins => holder.pins)
    BY <2>1 DEF ApproveCommit, ApprovalHolds
  <2>3. request.draft \in 1 .. Len(revision) /\ request.run \in 1 .. Len(runs) /\ request'.draft = request.draft
    <3>1. request \in PackageRequest /\ request.draft # 0 /\ request.run # 0
      BY <2>2 DEF PackageInv, PackageTypes, StateHolds, Approvable
    <3> QED BY <2>1, <3>1, Lengths DEF ApproveCommit, PackageInv, NamesExist, RequestNamed, PackageRequest
  <2>4. /\ revision'[request.draft].validation = revision[request.draft].validation
        /\ revision'[request.draft].implements = revision[request.draft].implements
    <3>1. revision \in Seq(Revision)
      BY DEF PackageInv, PackageTypes
    <3> QED BY <2>1, <2>3, <3>1 DEF ApproveCommit, Revision
  <2>5. /\ revision[request.draft].validation = "passed"
        /\ revision[request.draft].implements = request.candidate
        /\ runs[request.run].draft = request.draft /\ runs[request.run].status = "passed"
        /\ runs[request.run].candidate = request.candidate
    BY <2>2 DEF PackageInv, StateHolds, Approvable, Drafted
  <2>6. BaselineHolds'
    BY <2>1, <2>2 DEF ApproveCommit, Approvable, BaselineHolds
  <2> QED BY <2>2, <2>3, <2>4, <2>5, <2>6 DEF PublishedHolds, PinsHold
<1> QED BY <1>1, PackagesHold, PTL DEF SpecPackages, PublishesWhatHolds

\* What has ended stays: an approved request opens again only for a submission that sent
\* no version, and an upload that was replaced is not written again.
THEOREM WhatEndedStays == SpecPackages => EndedStaysEnded
<1>1. PackageInv /\ ApprovalHolds /\ [NextPackages]_packageVars =>
        [request.state = "approved" /\ request'.state # "approved" =>
           \E q \in Submits : submit[q].open /\ ~submit[q].token /\ ~submit'[q].open]_packageVars
  <2> SUFFICES ASSUME PackageInv, ApprovalHolds, [NextPackages]_packageVars,
                      request.state = "approved", request'.state # "approved"
               PROVE  \E q \in Submits : submit[q].open /\ ~submit[q].token /\ ~submit'[q].open
    OBVIOUS
  <2>1. PICK q \in Submits : SubmitCommit(q) /\ Accepted(q)
    <3>1. ~ApproveCommit
      BY DEF ApproveCommit, ApprovalHolds, Approvable
    <3> QED BY <3>1, StateMoves
  <2>2. submit[q].open /\ submit' = [Bumped EXCEPT ![q] = Closed]
    BY <2>1 DEF SubmitCommit
  <2>3. submit[q] \in Submission
    BY DEF PackageInv, PackageTypes
  <2>4. ~submit[q].token
    <3> SUFFICES ASSUME submit[q].token PROVE FALSE
      OBVIOUS
    <3>1. submit[q].fresh
      BY <2>1 DEF Accepted
    <3>2. submit[q].state = "approved"
      BY <2>2, <3>1 DEF PackageInv, SubmissionsRead
    <3> QED BY <2>1, <3>2 DEF Accepted, May, RequestAllowed
  <2>5. ~submit'[q].open
    BY <2>2 DEF Bumped, Closed
  <2> QED BY <2>2, <2>4, <2>5
<1>2. PackageInv /\ [NextPackages]_packageVars =>
        [\A a \in 1 .. Len(baseline) - 1 : baseline'[a] = baseline[a]]_packageVars
  <2> SUFFICES ASSUME PackageInv, [NextPackages]_packageVars, NEW a \in 1 .. Len(baseline) - 1
               PROVE  baseline'[a] = baseline[a]
    OBVIOUS
  <2>1. /\ baseline \in Seq({"uploaded", "parsing", "passed", "failed"}) /\ a \in 1 .. Len(baseline)
        /\ a # Len(baseline) /\ Len(baseline) \in Nat
    BY DEF PackageInv, PackageTypes
  <2>2. CASE UploadBaseline
    BY <2>1, <2>2 DEF UploadBaseline
  <2>3. CASE StartParse
    BY <2>1, <2>3 DEF StartParse
  <2>4. ASSUME NEW job \in admitted, NEW ok \in BOOLEAN, ParseBaseline(job, ok) PROVE baseline'[a] = baseline[a]
    BY <2>1, <2>4 DEF ParseBaseline, OwnsAsset, Superseded
  <2>5. CASE baseline' = baseline
    BY <2>5
  <2>6. CASE Command
    <3>1. CASE \E q \in Submits : SubmitCommit(q)
      BY <2>5, <3>1 DEF SubmitCommit
    <3>2. CASE RunPrecheck \/ CreateDraft \/ StartValidation \/ RequestRevision \/ ApproveOpen \/ ApproveCommit
               \/ \E q \in Submits, token \in BOOLEAN : SubmitOpen(q, token)
      BY <2>5, <3>2 DEF RunPrecheck, CreateDraft, StartValidation, RequestRevision, ApproveOpen, ApproveCommit, SubmitOpen
    <3> QED BY <2>2, <2>3, <2>6, <3>1, <3>2 DEF Command
  <2>7. CASE Library
    BY <2>5, <2>7
    DEF Library, Retire, AppendRevision, RequestValidation, StartValidation, RequestApproval, ApproveHead
  <2>8. ASSUME NEW job \in admitted, Work(job) PROVE baseline'[a] = baseline[a]
    <3>1. CASE PrecheckResolve(job)
      BY <2>5, <3>1 DEF PrecheckResolve, Superseded
    <3>2. ASSUME NEW ok \in BOOLEAN, PrecheckRecord(job, ok) PROVE baseline' = baseline
      BY <3>2 DEF PrecheckRecord
    <3>3. ASSUME NEW ok \in BOOLEAN, GenerateCandidate(job, ok) PROVE baseline' = baseline
      BY <3>3 DEF GenerateCandidate, Superseded
    <3>4. ASSUME NEW ok \in BOOLEAN, ValidateDraft(job, ok) PROVE baseline' = baseline
      BY <3>4 DEF ValidateDraft, Superseded
    <3> QED BY <2>4, <2>5, <2>8, <3>1, <3>2, <3>3, <3>4 DEF Work
  <2>9. CASE ActivateResolver \/ DeprecateResolver \/ RetireResolver \/ Crash \/ UNCHANGED packageVars
    BY <2>5, <2>9 DEF ActivateResolver, DeprecateResolver, RetireResolver, Crash, packageVars
  <2> QED BY <2>6, <2>7, <2>8, <2>9 DEF NextPackages
<1> QED BY <1>1, <1>2, PackagesHold, PTL DEF SpecPackages, EndedStaysEnded, ApprovedIsFinal, PriorAttemptsUnchanged
-----------------------------------------------------------------------------
(* What is known of an object and its trash entries *)

Entry == [status : EntryStates, head : 0 .. MaxHead]
Job == [status : {"queued", "succeeded"}, entry : Nat]
Delivery == [pc : {"idle", "loaded", "decided"}, job : Nat, eligible : BOOLEAN, seen : DeletionStates]

\* The types of TypeOK, without the bounds that depend on each other.
Types ==
  /\ root \in DeletionStates /\ head \in 0 .. MaxHead
  /\ entries \in Seq(Entry) /\ Len(entries) <= MaxDeletes
  /\ tombstone \in BOOLEAN
  /\ deleting \in {"none", "plain", "keyed"} /\ keyDone \in BOOLEAN /\ appending \in BOOLEAN
  /\ appending => head < MaxHead
  /\ run \in [Runs -> {"none", "open", "active", "ended"}]
  /\ jobs \in Seq(Job) /\ Len(jobs) <= MaxPurges
  /\ msgs \in [1 .. MaxPurges -> Nat] /\ lost \in 0 .. MaxLost
  /\ worker \in [Workers -> Delivery] /\ \A w \in Workers : worker[w].job \in 0 .. Len(jobs)
  /\ raced \subseteq Runs /\ replayed \in BOOLEAN

\* A delete begins on an active root and holds its lock; until it commits, whoever is
\* admitted was seen by nobody.
DeleteIsAlone ==
  ~Unlocked => root = "active" /\ Len(entries) < MaxDeletes /\ \A r \in Runs : run[r] \in {"open", "active"} => r \in raced

\* Runs of a root in the trash were admitted under a delete's check.
TrashedRunsRaced == root # "active" => \A r \in Runs : run[r] \in {"open", "active"} => r \in raced

\* The message of a job is in the broker, or with one worker, or nowhere; a job that has
\* one is queued.
OneDelivery ==
  /\ \A j \in 1 .. MaxPurges : msgs[j] <= 1
  /\ \A j \in 1 .. MaxPurges : msgs[j] = 1 => Queued(j) /\ OnJob(j) = {}
  /\ \A w \in Workers : worker[w].pc # "idle" => worker[w].job \in 1 .. MaxPurges /\ Queued(worker[w].job)
  /\ \A v, w \in Workers : worker[v].pc # "idle" /\ worker[w].pc # "idle" /\ worker[v].job = worker[w].job
                            => v = w

\* A root waits for its purge while one job is queued, and its entry waits with it.
PendingIsQueued ==
  /\ \A j \in 1 .. Len(jobs) : EntryOf(j) \in 1 .. Len(entries)
  /\ \A j \in 1 .. Len(jobs) : Queued(j) =>
       root = "purge_pending" /\ entries[EntryOf(j)].status = "purge_pending"
  /\ \A i, j \in 1 .. Len(jobs) : Queued(i) /\ Queued(j) => i = j
  /\ \A w \in Workers : worker[w].pc = "decided" => worker[w].seen = "purge_pending"
  /\ root = "purged" <=> tombstone

Inv ==
  /\ Types /\ DeleteIsAlone /\ TrashedRunsRaced /\ OneDelivery /\ PendingIsQueued
  /\ DeletedRootIsInTrash

-----------------------------------------------------------------------------
(* Rows *)

\* The entries after one of them has changed its status.
LEMMA SetEntryFacts ==
  ASSUME entries \in Seq(Entry), NEW e \in 1 .. Len(entries), NEW status \in EntryStates, SetEntry(e, status)
  PROVE  /\ entries' \in Seq(Entry) /\ Len(entries') = Len(entries)
         /\ \A k \in 1 .. Len(entries) : k # e => entries'[k] = entries[k]
         /\ entries'[e].status = status
<1> DEFINE new == [entries[e] EXCEPT !.status = status]
<1>1. entries[e] \in Entry
  OBVIOUS
<1>2. new \in Entry /\ new.status = status
  BY <1>1 DEF Entry
<1>3. entries' = [entries EXCEPT ![e] = new]
  BY DEF SetEntry
<1> HIDE DEF new
<1> QED BY <1>2, <1>3

\* The root's deletion state tells the entries apart, however they are reached.
LEMMA TrashFacts ==
  ASSUME DeletedRootIsInTrash, ~replayed, root \in DeletionStates
  PROVE  /\ root \in {"active", "purged"} => RecoverableEntries = {}
         /\ root = "soft_deleted" => \E e \in 1 .. Len(entries) :
              RecoverableEntries = {e} /\ entries[e].status \in Restorable
         /\ root = "purge_pending" => \E e \in 1 .. Len(entries) :
              RecoverableEntries = {e} /\ entries[e].status = "purge_pending"
BY DEF DeletedRootIsInTrash, DeletionStates

\* The one recoverable entry changes with the root.
LEMMA MoveEntry ==
  ASSUME Types, ~replayed => DeletedRootIsInTrash, NEW e \in 1 .. Len(entries), entries[e].status \in Recoverable,
         NEW status \in EntryStates, SetEntry(e, status), UNCHANGED replayed,
         root \in {"soft_deleted", "purge_pending"},
         \/ root' = "active" /\ status = "restored"
         \/ root' = "soft_deleted" /\ status \in Restorable
         \/ root' = "purge_pending" /\ status = "purge_pending"
         \/ root' = "purged" /\ status = "purged" /\ tombstone'
  PROVE  DeletedRootIsInTrash'
<1> SUFFICES ASSUME ~replayed PROVE DeletedRootIsInTrash'
  BY DEF DeletedRootIsInTrash
<1>1. /\ Len(entries') = Len(entries) /\ entries'[e].status = status
      /\ \A k \in 1 .. Len(entries) : k # e => entries'[k] = entries[k]
  BY SetEntryFacts DEF Types
<1>2. e \in RecoverableEntries
  BY DEF RecoverableEntries
<1>3. RecoverableEntries = {e}
  BY <1>2, TrashFacts DEF Types
<1>4. RecoverableEntries' = IF status \in Recoverable THEN {e} ELSE {}
  BY <1>1, <1>3 DEF RecoverableEntries
<1> QED BY <1>1, <1>4 DEF DeletedRootIsInTrash, Recoverable, Restorable

-----------------------------------------------------------------------------
(* Steps *)

\* Steps of runs, and of requests before they write.
LEMMA ReadingStep ==
  ASSUME Inv, UNCHANGED <<root, entries, tombstone, queueVars, worker, replayed, keyDone>>, head' \in 0 .. MaxHead,
         appending' \in BOOLEAN, appending' => head' < MaxHead,
         run' \in [Runs -> {"none", "open", "active", "ended"}], raced' \subseteq Runs,
         deleting' \in {"none", "plain", "keyed"}, raced \subseteq raced',
         deleting' # "none" => root = "active" /\ Len(entries) < MaxDeletes,
         deleting' # "none" \/ root # "active"
           => \A r \in Runs : run'[r] \in {"open", "active"} => r \in raced'
  PROVE  Inv'
<1>1. Types'
  BY DEF Inv, Types, queueVars
<1>2. DeleteIsAlone' /\ TrashedRunsRaced'
  BY DEF Inv, DeleteIsAlone, TrashedRunsRaced, Unlocked
<1>3. OneDelivery' /\ PendingIsQueued'
  BY DEF Inv, OneDelivery, PendingIsQueued, queueVars, Queued, OnJob, EntryOf
<1>4. DeletedRootIsInTrash'
  BY DEF Inv, DeletedRootIsInTrash, RecoverableEntries
<1> QED BY <1>1, <1>2, <1>3, <1>4 DEF Inv

\* A run is admitted, unless its root leaves before the admission reads it, or ends.
LEMMA RunSteps ==
  ASSUME Inv, NEW r \in Runs, AdmitOpen(r) \/ AdmitCommit(r) \/ RunEnds(r)
  PROVE  Inv'
<1>1. /\ UNCHANGED <<root, entries, tombstone, head, deleting, keyDone, appending, queueVars, worker, replayed>>
      /\ raced \subseteq raced'
  BY DEF AdmitOpen, AdmitCommit, RunEnds, rootVars, requestVars, history
<1>2. run \in [Runs -> {"none", "open", "active", "ended"}] /\ raced \subseteq Runs
  BY DEF Inv, Types
<1>3. run' \in [Runs -> {"none", "open", "active", "ended"}] /\ raced' \subseteq Runs
  BY <1>2 DEF AdmitOpen, AdmitCommit, RunEnds, history
<1>4. \A s \in Runs : s # r => run'[s] = run[s]
  BY <1>2 DEF AdmitOpen, AdmitCommit, RunEnds
<1>5. ASSUME deleting # "none" \/ root # "active", run'[r] \in {"open", "active"}
      PROVE  r \in raced'
  <2>1. CASE AdmitOpen(r)
    BY <1>5, <2>1 DEF AdmitOpen
  <2>2. CASE AdmitCommit(r)
    BY <1>1, <1>5, <2>2 DEF AdmitCommit, Inv, DeleteIsAlone, TrashedRunsRaced, Unlocked
  <2>3. CASE RunEnds(r)
    BY <1>2, <1>5, <2>3 DEF RunEnds
  <2> QED BY <2>1, <2>2, <2>3
<1>6. deleting' # "none" \/ root # "active" => \A s \in Runs : run'[s] \in {"open", "active"} => s \in raced'
  BY <1>1, <1>4, <1>5 DEF Inv, DeleteIsAlone, TrashedRunsRaced, Unlocked
<1>7. deleting' # "none" => root = "active" /\ Len(entries) < MaxDeletes
  BY <1>1 DEF Inv, DeleteIsAlone, Unlocked
<1>8. /\ head' \in 0 .. MaxHead /\ appending' \in BOOLEAN /\ deleting' \in {"none", "plain", "keyed"}
      /\ appending' => head' < MaxHead
  BY <1>1 DEF Inv, Types
<1> QED BY <1>1, <1>3, <1>6, <1>7, <1>8, ReadingStep

\* A request appends a revision, whose number stays within the bound.
LEMMA AppendSteps ==
  ASSUME Inv, AppendOpen \/ AppendCommit
  PROVE  Inv'
<1>1. /\ UNCHANGED <<root, entries, tombstone, deleting, keyDone, run, queueVars, worker, raced, replayed>>
      /\ appending' \in BOOLEAN
  BY DEF AppendOpen, AppendCommit, rootVars, history
<1>2. head' \in 0 .. MaxHead /\ (appending' => head' < MaxHead)
  BY TrashBoundsAssumption DEF AppendOpen, AppendCommit, rootVars, Inv, Types
<1>3. Types' /\ DeleteIsAlone' /\ TrashedRunsRaced'
  BY <1>1, <1>2 DEF Inv, Types, DeleteIsAlone, TrashedRunsRaced, Unlocked, queueVars
<1>4. OneDelivery' /\ PendingIsQueued'
  BY <1>1 DEF Inv, OneDelivery, PendingIsQueued, queueVars, Queued, OnJob, EntryOf
<1>5. DeletedRootIsInTrash'
  BY <1>1 DEF Inv, DeletedRootIsInTrash, RecoverableEntries
<1> QED BY <1>3, <1>4, <1>5 DEF Inv

\* A delete begins without an active run, and ends with an entry unless its key was stored.
LEMMA DeleteSteps ==
  ASSUME Inv, DeleteCommit \/ \E key \in {"plain", "keyed"} : DeleteOpen(key)
  PROVE  Inv'
<1>1. ASSUME NEW key \in {"plain", "keyed"}, DeleteOpen(key) PROVE Inv'
  <2>1. /\ UNCHANGED <<root, entries, tombstone, head, keyDone, appending, run, queueVars, worker, replayed>>
        /\ deleting' = key /\ raced' = raced \cup OpenRuns /\ root = "active" /\ Len(entries) < MaxDeletes
        /\ ~ActiveRunPinsRoot
    BY <1>1 DEF DeleteOpen, rootVars
  <2>2. \A r \in Runs : run'[r] \in {"open", "active"} => r \in raced'
    BY <2>1 DEF OpenRuns, ActiveRunPinsRoot
  <2>3. Types
    BY DEF Inv
  <2>4. raced' \subseteq Runs /\ raced \subseteq raced'
    BY <2>1, <2>3 DEF OpenRuns, Types
  <2> QED BY <2>1, <2>2, <2>3, <2>4, ReadingStep DEF Types
<1>2. ASSUME DeleteCommit PROVE Inv'
  <2> DEFINE replay == deleting = "keyed" /\ keyDone
             new == [status |-> "soft_deleted", head |-> head]
  <2>1. /\ root' = "soft_deleted" /\ deleting' = "none"
        /\ entries' = IF replay THEN entries ELSE Append(entries, new)
        /\ replayed' = (replayed \/ replay) /\ keyDone' = (keyDone \/ deleting = "keyed")
        /\ UNCHANGED <<head, tombstone, appending, run, queueVars, worker, raced>>
    BY <1>2 DEF DeleteCommit
  <2>2. /\ root = "active" /\ Len(entries) < MaxDeletes /\ entries \in Seq(Entry)
        /\ \A r \in Runs : run[r] \in {"open", "active"} => r \in raced
    BY <1>2 DEF DeleteCommit, Inv, DeleteIsAlone, Types
  <2>3. new \in Entry /\ new.status = "soft_deleted"
    BY DEF Entry, EntryStates, Inv, Types
  <2> HIDE DEF new
  <2>4. /\ entries' \in Seq(Entry) /\ Len(entries) <= Len(entries') /\ Len(entries') <= MaxDeletes
        /\ \A k \in 1 .. Len(entries) : entries'[k] = entries[k]
        /\ ~replay => Len(entries') = Len(entries) + 1 /\ entries'[Len(entries) + 1] = new
    BY <2>1, <2>2, <2>3, TrashBoundsAssumption
  <2>5. Types'
    <3>1. keyDone' \in BOOLEAN /\ replayed' \in BOOLEAN
      BY <2>1 DEF Inv, Types
    <3> QED BY <2>1, <2>4, <3>1 DEF Inv, Types, DeletionStates, queueVars
  <2>6. DeleteIsAlone' /\ TrashedRunsRaced'
    BY <2>1, <2>2 DEF DeleteIsAlone, TrashedRunsRaced, Unlocked
  <2>7. OneDelivery'
    BY <2>1 DEF Inv, OneDelivery, queueVars, Queued, OnJob
  <2>8. PendingIsQueued'
    <3>1. \A j \in 1 .. Len(jobs) : ~Queued(j)
      BY <2>2 DEF Inv, PendingIsQueued
    <3>2. \A j \in 1 .. Len(jobs) : EntryOf(j) \in 1 .. Len(entries')
      BY <2>4 DEF Inv, PendingIsQueued, Types
    <3> QED BY <2>1, <2>2, <3>1, <3>2 DEF Inv, PendingIsQueued, queueVars, Queued, EntryOf
  <2>9. DeletedRootIsInTrash'
    <3> SUFFICES ASSUME ~replayed' PROVE DeletedRootIsInTrash'
      BY DEF DeletedRootIsInTrash
    <3>1. ~replayed /\ ~replay
      BY <2>1
    <3>2. RecoverableEntries = {}
      BY <2>2, <3>1, TrashFacts DEF Inv, Types
    <3>3. \A k \in 1 .. Len(entries') : entries'[k].status \in Recoverable <=> k = Len(entries) + 1
      BY <2>2, <2>3, <2>4, <3>1, <3>2 DEF RecoverableEntries, Recoverable
    <3>4. Len(entries) + 1 \in 1 .. Len(entries') /\ entries'[Len(entries) + 1].status \in Restorable
      BY <2>2, <2>3, <2>4, <3>1 DEF Restorable
    <3>5. RecoverableEntries' = {Len(entries) + 1}
      BY <3>3, <3>4 DEF RecoverableEntries
    <3> QED BY <2>1, <3>4, <3>5 DEF DeletedRootIsInTrash
  <2> QED BY <2>5, <2>6, <2>7, <2>8, <2>9 DEF Inv
<1> QED BY <1>1, <1>2

\* A restore leaves no entry that could be recovered.
LEMMA RestoreStep ==
  ASSUME Inv, NEW e \in 1 .. Len(entries), NEW adopt \in BOOLEAN, Restore(e, adopt)
  PROVE  Inv'
<1>1. /\ SetEntry(e, "restored") /\ root' = "active" /\ root = "soft_deleted" /\ deleting = "none"
      /\ entries[e].status \in Restorable
      /\ UNCHANGED <<head, tombstone, requestVars, run, queueVars, worker, history>>
  BY DEF Restore, Unlocked
<1>2. "restored" \in EntryStates /\ entries \in Seq(Entry) /\ entries[e].status \in Recoverable
  BY <1>1 DEF EntryStates, Inv, Types, Restorable, Recoverable
<1>3. /\ entries' \in Seq(Entry) /\ Len(entries') = Len(entries)
  BY <1>1, <1>2, SetEntryFacts
<1>4. Types'
  BY <1>1, <1>3 DEF Inv, Types, DeletionStates, requestVars, queueVars, history
<1>5. DeleteIsAlone' /\ TrashedRunsRaced' /\ OneDelivery'
  BY <1>1 DEF Inv, DeleteIsAlone, TrashedRunsRaced, OneDelivery, requestVars, queueVars, Unlocked, Queued, OnJob
<1>6. PendingIsQueued'
  <2>1. \A j \in 1 .. Len(jobs) : ~Queued(j)
    BY <1>1 DEF Inv, PendingIsQueued
  <2> QED BY <1>1, <1>3, <2>1 DEF Inv, PendingIsQueued, queueVars, Queued, EntryOf
<1>7. DeletedRootIsInTrash'
  BY <1>1, <1>2, MoveEntry DEF Inv, history
<1> QED BY <1>4, <1>5, <1>6, <1>7 DEF Inv

\* A request puts the root and its entry on hold and queues the only job.
LEMMA RequestStep ==
  ASSUME Inv, NEW e \in 1 .. Len(entries), NEW sent \in BOOLEAN, RequestPurge(e, sent)
  PROVE  Inv'
<1> DEFINE n == Len(jobs) + 1
           new == [status |-> "queued", entry |-> e]
<1>1. /\ SetEntry(e, "purge_pending") /\ root' = "purge_pending" /\ root = "soft_deleted" /\ deleting = "none"
      /\ entries[e].status \in Restorable /\ Len(jobs) < MaxPurges
      /\ jobs' = Append(jobs, new) /\ msgs' = [msgs EXCEPT ![n] = IF sent THEN 1 ELSE 0]
      /\ UNCHANGED <<head, tombstone, requestVars, run, lost, worker, history>>
  BY DEF RequestPurge, Unlocked
<1>2. "purge_pending" \in EntryStates /\ entries \in Seq(Entry) /\ entries[e].status \in Recoverable
  BY <1>1 DEF EntryStates, Inv, Types, Restorable, Recoverable
<1>3. /\ entries' \in Seq(Entry) /\ Len(entries') = Len(entries)
      /\ entries'[e].status = "purge_pending"
  BY <1>1, <1>2, SetEntryFacts
<1>4. jobs \in Seq(Job) /\ Len(jobs) \in Nat /\ e \in Nat /\ new \in Job /\ new.status = "queued" /\ new.entry = e
  BY <1>2 DEF Inv, Types, Job
<1> HIDE DEF new
<1>5. /\ jobs' \in Seq(Job) /\ Len(jobs') = n
      /\ \A j \in 1 .. Len(jobs') : j = n \/ (j \in 1 .. Len(jobs) /\ j # n)
      /\ \A j \in 1 .. Len(jobs) : jobs'[j] = jobs[j]
      /\ jobs'[n] = new
  BY <1>1, <1>4
<1>6. n \in 1 .. MaxPurges /\ msgs \in [1 .. MaxPurges -> Nat]
  BY <1>1, <1>4, TrashBoundsAssumption DEF Inv, Types
<1>7. /\ msgs' \in [1 .. MaxPurges -> Nat] /\ msgs'[n] <= 1
      /\ \A j \in 1 .. MaxPurges : j # n => msgs'[j] = msgs[j]
  BY <1>1, <1>6
<1>8. \A j \in 1 .. Len(jobs) : jobs[j].status # "queued"
  BY <1>1 DEF Inv, PendingIsQueued, Queued
<1>9. \A w \in Workers : worker[w].pc = "idle"
  BY <1>8 DEF Inv, OneDelivery, Queued
<1>10. Types'
  <2>1. \A w \in Workers : worker'[w].job \in 0 .. Len(jobs')
    BY <1>1, <1>4, <1>5 DEF Inv, Types
  <2> QED BY <1>1, <1>3, <1>5, <1>6, <1>7, <2>1 DEF Inv, Types, DeletionStates, requestVars, history
<1>11. DeleteIsAlone' /\ TrashedRunsRaced'
  BY <1>1 DEF Inv, DeleteIsAlone, TrashedRunsRaced, requestVars, history, Unlocked
<1>12. OneDelivery'
  <2>1. \A j \in 1 .. MaxPurges : OnJob(j)' = {}
    BY <1>1, <1>9 DEF OnJob
  <2>2. \A j \in 1 .. MaxPurges : j = n => Queued(j)'
    BY <1>4, <1>5 DEF Queued
  <2>3. \A j \in 1 .. MaxPurges : j # n => msgs'[j] <= 1 /\ msgs'[j] # 1
    BY <1>7, <1>8 DEF Inv, OneDelivery, Queued
  <2>4. \A j \in 1 .. MaxPurges : msgs'[j] <= 1 /\ (msgs'[j] = 1 => Queued(j)')
    BY <1>7, <2>2, <2>3
  <2>5. \A w \in Workers : worker'[w].pc = "idle"
    BY <1>1, <1>9
  <2> QED BY <2>1, <2>4, <2>5 DEF OneDelivery
<1>13. PendingIsQueued'
  <2>1. \A j \in 1 .. Len(jobs') : jobs'[j].entry \in 1 .. Len(entries')
    BY <1>3, <1>4, <1>5 DEF Inv, PendingIsQueued, EntryOf
  <2>2. \A j \in 1 .. Len(jobs') : jobs'[j].status = "queued" => j = n /\ jobs'[j].entry = e
    BY <1>4, <1>5, <1>8
  <2> QED BY <1>1, <1>3, <1>9, <2>1, <2>2 DEF Inv, PendingIsQueued, Queued, EntryOf
<1>14. DeletedRootIsInTrash'
  BY <1>1, <1>2, MoveEntry DEF Inv, history
<1> QED BY <1>10, <1>11, <1>12, <1>13, <1>14 DEF Inv

\* A worker's delivery, by its columns.
LEMMA SetWorkerFacts ==
  ASSUME worker \in [Workers -> Delivery], NEW w \in Workers, NEW pc \in {"loaded", "decided"}, NEW j \in Nat,
         NEW eligible \in BOOLEAN, NEW seen \in DeletionStates, SetWorker(w, pc, j, eligible, seen)
  PROVE  /\ worker' \in [Workers -> Delivery] /\ \A v \in Workers : v # w => worker'[v] = worker[v]
         /\ worker'[w].pc = pc /\ worker'[w].job = j /\ worker'[w].seen = seen
<1> DEFINE new == [pc |-> pc, job |-> j, eligible |-> eligible, seen |-> seen]
<1>1. new \in Delivery /\ new.pc = pc /\ new.job = j /\ new.seen = seen
  BY DEF Delivery
<1>2. worker' = [worker EXCEPT ![w] = new]
  BY DEF SetWorker
<1> HIDE DEF new
<1> QED BY <1>1, <1>2

\* A message goes from the broker to one worker.
LEMMA ReceiveStep ==
  ASSUME Inv, NEW w \in Workers, NEW j \in 1 .. Len(jobs), Receive(w, j)
  PROVE  Inv'
<1>1. j \in 1 .. MaxPurges /\ msgs[j] = 1 /\ msgs \in [1 .. MaxPurges -> Nat] /\ j \in 0 .. Len(jobs) /\ j \in Nat
  BY TrashBoundsAssumption DEF Receive, Inv, Types, OneDelivery
<1>2. Queued(j) /\ OnJob(j) = {} /\ entries[EntryOf(j)].status = "purge_pending"
  BY <1>1 DEF Inv, OneDelivery, PendingIsQueued
<1>3. /\ msgs' = [msgs EXCEPT ![j] = @ - 1] /\ SetWorker(w, "loaded", j, FALSE, "active")
      /\ UNCHANGED <<rootVars, requestVars, run, jobs, lost, history>>
  BY <1>2 DEF Receive
<1>4. /\ worker' \in [Workers -> Delivery] /\ \A v \in Workers : v # w => worker'[v] = worker[v]
      /\ worker'[w].pc = "loaded" /\ worker'[w].job = j
  BY <1>1, <1>3, SetWorkerFacts DEF Inv, Types, DeletionStates
<1>5. msgs' \in [1 .. MaxPurges -> Nat] /\ msgs'[j] = 0 /\ \A k \in 1 .. MaxPurges : k # j => msgs'[k] = msgs[k]
  BY <1>1, <1>3
<1>6. Types'
  BY <1>1, <1>3, <1>4, <1>5 DEF Inv, Types, rootVars, requestVars, history
<1>7. DeleteIsAlone' /\ TrashedRunsRaced' /\ DeletedRootIsInTrash'
  BY <1>3 DEF Inv, DeleteIsAlone, TrashedRunsRaced, DeletedRootIsInTrash, RecoverableEntries, rootVars,
              requestVars, history, Unlocked
<1>8. OneDelivery'
  <2>1. \A k \in 1 .. MaxPurges : k # j => (OnJob(k) = {} => OnJob(k)' = {})
    BY <1>4 DEF OnJob
  <2>2. \A v \in Workers : v # w /\ worker[v].pc # "idle" => worker[v].job # j
    BY <1>2 DEF OnJob
  <2>3. \A k \in 1 .. MaxPurges : Queued(k) => Queued(k)'
    BY <1>3 DEF Queued
  <2>4. \A k \in 1 .. MaxPurges : msgs'[k] <= 1 /\ (msgs'[k] = 1 => k # j /\ msgs[k] = 1)
    BY <1>5 DEF Inv, OneDelivery
  <2>5. \A k \in 1 .. MaxPurges : msgs'[k] = 1 => Queued(k)' /\ OnJob(k)' = {}
    BY <2>1, <2>3, <2>4 DEF Inv, OneDelivery
  <2>6. \A v \in Workers : worker'[v].pc # "idle"
          => worker'[v].job \in 1 .. MaxPurges /\ Queued(worker'[v].job) /\ (v # w => worker'[v].job # j)
    BY <1>1, <1>2, <1>4, <2>2 DEF Inv, OneDelivery
  <2>7. \A v \in Workers : worker'[v].pc # "idle" => worker'[v].job \in 1 .. Len(jobs') /\ jobs'[worker'[v].job].status = "queued"
    BY <1>3, <2>6 DEF Queued
  <2>8. \A u, v \in Workers : worker'[u].pc # "idle" /\ worker'[v].pc # "idle" /\ worker'[u].job = worker'[v].job
                               => u = v
    BY <1>4, <2>6 DEF Inv, OneDelivery
  <2> QED BY <2>4, <2>5, <2>6, <2>7, <2>8 DEF OneDelivery, Queued
<1>9. PendingIsQueued'
  BY <1>3, <1>4 DEF Inv, PendingIsQueued, rootVars, Queued, EntryOf
<1> QED BY <1>6, <1>7, <1>8, <1>9 DEF Inv

\* A worker that decides has seen the root waiting for its purge.
LEMMA DecideStep ==
  ASSUME Inv, NEW w \in Workers, Decide(w)
  PROVE  Inv'
<1> DEFINE j == worker[w].job
<1>1. /\ worker[w].pc = "loaded" /\ SetWorker(w, "decided", j, ~ActiveRunPinsRoot, root)
      /\ UNCHANGED <<rootVars, requestVars, run, queueVars, history>>
  BY DEF Decide
<1>2. j \in 1 .. MaxPurges /\ Queued(j) /\ root = "purge_pending" /\ j \in Nat /\ root \in DeletionStates
  BY <1>1 DEF Inv, OneDelivery, PendingIsQueued, Queued, Types
<1>3. /\ worker' \in [Workers -> Delivery] /\ \A v \in Workers : v # w => worker'[v] = worker[v]
      /\ worker'[w].pc = "decided" /\ worker'[w].job = j /\ worker'[w].seen = "purge_pending"
  BY <1>1, <1>2, SetWorkerFacts DEF Inv, Types
<1> HIDE DEF j
<1>4. \A v \in Workers : worker'[v].job = worker[v].job /\ (worker'[v].pc = "idle" <=> worker[v].pc = "idle")
  BY <1>1, <1>3 DEF j
<1>5. Types'
  BY <1>1, <1>3, <1>4 DEF Inv, Types, rootVars, requestVars, queueVars, history
<1>6. DeleteIsAlone' /\ TrashedRunsRaced' /\ DeletedRootIsInTrash'
  BY <1>1 DEF Inv, DeleteIsAlone, TrashedRunsRaced, DeletedRootIsInTrash, RecoverableEntries, rootVars,
              requestVars, history, Unlocked
<1>7. OneDelivery'
  <2>1. \A k \in 1 .. MaxPurges : OnJob(k)' = OnJob(k) /\ (Queued(k)' <=> Queued(k))
    BY <1>1, <1>4 DEF OnJob, Queued, queueVars
  <2> QED BY <1>1, <1>4, <2>1 DEF Inv, OneDelivery, queueVars, Queued
<1>8. PendingIsQueued'
  BY <1>1, <1>3 DEF Inv, PendingIsQueued, rootVars, queueVars, Queued, EntryOf
<1> QED BY <1>5, <1>6, <1>7, <1>8 DEF Inv

\* A job that is carried out is no longer queued, and no other job changes.
LEMMA FinishedJob ==
  ASSUME jobs \in Seq(Job), NEW j \in 1 .. Len(jobs), jobs' = [jobs EXCEPT ![j].status = "succeeded"]
  PROVE  /\ jobs' \in Seq(Job) /\ Len(jobs') = Len(jobs)
         /\ jobs'[j].status = "succeeded" /\ jobs'[j].entry = jobs[j].entry
         /\ \A k \in 1 .. Len(jobs) : k # j => jobs'[k] = jobs[k]
<1> DEFINE new == [jobs[j] EXCEPT !.status = "succeeded"]
<1>1. jobs[j] \in Job
  OBVIOUS
<1>2. new \in Job /\ new.status = "succeeded" /\ new.entry = jobs[j].entry
  BY <1>1 DEF Job
<1>3. jobs' = [jobs EXCEPT ![j] = new]
  OBVIOUS
<1> HIDE DEF new
<1> QED BY <1>2, <1>3

\* The worker that holds the only queued job purges the root or returns it to the trash.
LEMMA FinishStep ==
  ASSUME Inv, NEW w \in Workers, FinishPurge(w)
  PROVE  Inv'
<1> DEFINE j == worker[w].job
           e == EntryOf(j)
           status == IF worker[w].eligible THEN "purged" ELSE "purge_failed"
<1>1. /\ j \in 1 .. MaxPurges /\ Queued(j) /\ j \in 1 .. Len(jobs) /\ worker[w].seen = "purge_pending"
      /\ root = "purge_pending" /\ e \in 1 .. Len(entries) /\ entries[e].status = "purge_pending"
  BY DEF FinishPurge, Inv, OneDelivery, PendingIsQueued, Queued
<1>2. /\ SetEntry(e, status) /\ deleting = "none"
      /\ \/ status = "purged" /\ root' = "purged" /\ tombstone' = TRUE
         \/ status = "purge_failed" /\ root' = "soft_deleted" /\ tombstone' = tombstone
      /\ jobs' = [jobs EXCEPT ![j].status = "succeeded"] /\ worker' = [worker EXCEPT ![w] = Idle]
      /\ UNCHANGED <<head, requestVars, run, msgs, lost, history>>
  BY <1>1 DEF FinishPurge, Unlocked
<1>3. status \in EntryStates /\ entries \in Seq(Entry) /\ jobs \in Seq(Job) /\ worker \in [Workers -> Delivery]
  BY DEF EntryStates, Inv, Types
<1> HIDE DEF e, status
<1>4. entries' \in Seq(Entry) /\ Len(entries') = Len(entries)
  BY <1>1, <1>2, <1>3, SetEntryFacts
<1>5. /\ jobs' \in Seq(Job) /\ Len(jobs') = Len(jobs) /\ \A k \in 1 .. Len(jobs) : jobs'[k].entry = jobs[k].entry
      /\ \A k \in 1 .. Len(jobs) : jobs'[k].status # "queued"
  <2>1. /\ jobs' \in Seq(Job) /\ Len(jobs') = Len(jobs)
        /\ jobs'[j].status = "succeeded" /\ jobs'[j].entry = jobs[j].entry
        /\ \A k \in 1 .. Len(jobs) : k # j => jobs'[k] = jobs[k]
    <3> HIDE DEF j
    <3> QED BY <1>1, <1>2, <1>3, FinishedJob
  <2>2. \A k \in 1 .. Len(jobs) : Queued(k) => k = j
    BY <1>1 DEF Inv, PendingIsQueued
  <2> HIDE DEF j
  <2>3. \A k \in 1 .. Len(jobs) : k # j => jobs[k].status # "queued"
    BY <2>2 DEF Queued
  <2> QED BY <2>1, <2>3
<1>6. Idle \in Delivery /\ Idle.pc = "idle" /\ Idle.job = 0
  BY DEF Idle, Delivery, DeletionStates
<1>7. worker' \in [Workers -> Delivery] /\ \A v \in Workers : worker'[v] = IF v = w THEN Idle ELSE worker[v]
  BY <1>2, <1>3, <1>6
<1>8. \A v \in Workers : v # w => worker[v].pc = "idle"
  <2>1. \A v \in Workers : worker[v].pc # "idle" => worker[v].job = j
    BY <1>1 DEF Inv, OneDelivery, PendingIsQueued, Queued
  <2>2. worker[w].pc # "idle"
    BY DEF FinishPurge
  <2> QED BY <2>1, <2>2 DEF Inv, OneDelivery
<1>9. \A v \in Workers : worker'[v].pc = "idle"
  BY <1>6, <1>7, <1>8
<1>10. Types'
  <2>1. tombstone' \in BOOLEAN /\ root' \in DeletionStates
    BY <1>2 DEF Inv, Types, DeletionStates
  <2>2. \A v \in Workers : worker'[v].job \in 0 .. Len(jobs')
    <3>1. Len(jobs') = Len(jobs) /\ Len(jobs) \in Nat
      BY <1>3, <1>5
    <3>2. \A v \in Workers : worker[v].job \in 0 .. Len(jobs) /\ worker'[v].job \in {0, worker[v].job}
      BY <1>6, <1>7 DEF Inv, Types
    <3> QED BY <3>1, <3>2
  <2> QED BY <1>2, <1>4, <1>5, <1>7, <2>1, <2>2 DEF Inv, Types, requestVars, history
<1>11. DeleteIsAlone' /\ TrashedRunsRaced'
  BY <1>1, <1>2 DEF Inv, DeleteIsAlone, TrashedRunsRaced, requestVars, history, Unlocked
<1>12. OneDelivery'
  <2>1. \A k \in 1 .. MaxPurges : msgs[k] # 1
    <3>1. w \in OnJob(j)
      BY DEF OnJob, FinishPurge
    <3>2. \A k \in 1 .. MaxPurges : Queued(k) => k = j
      BY <1>1 DEF Inv, PendingIsQueued, Queued
    <3> QED BY <3>1, <3>2 DEF Inv, OneDelivery
  <2> QED BY <1>2, <1>9, <2>1 DEF Inv, OneDelivery
<1>13. PendingIsQueued'
  <2>1. \A k \in 1 .. Len(jobs') : jobs'[k].entry \in 1 .. Len(entries') /\ ~(jobs'[k].status = "queued")
    BY <1>4, <1>5 DEF Inv, PendingIsQueued, EntryOf
  <2>2. root' = "purged" <=> tombstone'
    BY <1>1, <1>2 DEF Inv, PendingIsQueued
  <2> QED BY <1>9, <2>1, <2>2 DEF PendingIsQueued, Queued, EntryOf
<1>14. DeletedRootIsInTrash'
  <2>1. entries[e].status \in Recoverable
    BY <1>1 DEF Recoverable
  <2>2. UNCHANGED replayed
    BY <1>2 DEF history
  <2> QED BY <1>1, <1>2, <1>3, <2>1, <2>2, MoveEntry DEF Inv, Restorable
<1> QED BY <1>10, <1>11, <1>12, <1>13, <1>14 DEF Inv

\* A message comes back only for a job that no worker holds any more.
LEMMA LoseStep ==
  ASSUME Inv, NEW w \in Workers, NEW retried \in BOOLEAN, LosePurge(w, retried)
  PROVE  Inv'
<1> DEFINE j == worker[w].job
<1>1. /\ worker[w].pc # "idle" /\ lost < MaxLost /\ lost' = lost + 1
      /\ msgs' = [msgs EXCEPT ![j] = IF retried THEN @ + 1 ELSE @] /\ worker' = [worker EXCEPT ![w] = Idle]
      /\ UNCHANGED <<rootVars, requestVars, run, jobs, history>>
  BY DEF LosePurge
<1>2. /\ j \in 1 .. MaxPurges /\ Queued(j) /\ msgs[j] # 1 /\ msgs[j] <= 1
      /\ \A v \in Workers : v # w /\ worker[v].pc # "idle" => worker[v].job # j
  BY <1>1 DEF Inv, OneDelivery, OnJob
<1>3. /\ Idle \in Delivery /\ Idle.pc = "idle" /\ Idle.job = 0
      /\ worker \in [Workers -> Delivery] /\ msgs \in [1 .. MaxPurges -> Nat]
  BY DEF Idle, Delivery, DeletionStates, Inv, Types
<1> HIDE DEF j
<1>4. worker' \in [Workers -> Delivery] /\ worker'[w] = Idle /\ \A v \in Workers : v # w => worker'[v] = worker[v]
  BY <1>1, <1>3
<1>5. /\ msgs' \in [1 .. MaxPurges -> Nat] /\ msgs'[j] <= 1
      /\ \A k \in 1 .. MaxPurges : k # j => msgs'[k] = msgs[k]
  <2>1. msgs[j] = 0
    BY <1>2, <1>3
  <2> QED BY <1>1, <1>2, <1>3, <2>1
<1>6. \A v \in Workers : worker'[v].pc # "idle" => worker'[v] = worker[v] /\ worker[v].job # j
  BY <1>2, <1>3, <1>4
<1>7. Types'
  <2>1. lost' \in 0 .. MaxLost
    BY <1>1, TrashBoundsAssumption DEF Inv, Types
  <2>2. \A v \in Workers : worker'[v].job \in 0 .. Len(jobs')
    BY <1>1, <1>3, <1>4 DEF Inv, Types
  <2> QED BY <1>1, <1>4, <1>5, <2>1, <2>2 DEF Inv, Types, rootVars, requestVars, history
<1>8. DeleteIsAlone' /\ TrashedRunsRaced' /\ DeletedRootIsInTrash'
  BY <1>1 DEF Inv, DeleteIsAlone, TrashedRunsRaced, DeletedRootIsInTrash, RecoverableEntries, rootVars,
              requestVars, history, Unlocked
<1>9. OneDelivery'
  <2>1. \A k \in 1 .. MaxPurges : Queued(k)' <=> Queued(k)
    BY <1>1 DEF Queued
  <2>2. \A k \in 1 .. MaxPurges : OnJob(k) = {} => OnJob(k)' = {}
    BY <1>6 DEF OnJob
  <2>4. \A k \in 1 .. MaxPurges : msgs'[k] <= 1 /\ (msgs'[k] = 1 => Queued(k)' /\ OnJob(k)' = {})
    <3>1. \A k \in 1 .. MaxPurges : k = j => OnJob(k)' = {}
      BY <1>6 DEF OnJob
    <3> QED BY <1>2, <1>5, <2>1, <2>2, <3>1 DEF Inv, OneDelivery
  <2>5. \A v \in Workers : worker'[v].pc # "idle"
          => worker'[v].job \in 1 .. MaxPurges /\ worker'[v].job \in 1 .. Len(jobs')
             /\ jobs'[worker'[v].job].status = "queued"
    BY <1>1, <1>6 DEF Inv, OneDelivery, Queued
  <2>6. \A u, v \in Workers : worker'[u].pc # "idle" /\ worker'[v].pc # "idle" /\ worker'[u].job = worker'[v].job
                               => u = v
    BY <1>6 DEF Inv, OneDelivery
  <2> QED BY <2>4, <2>5, <2>6 DEF OneDelivery, Queued
<1>10. PendingIsQueued'
  BY <1>1, <1>3, <1>4 DEF Inv, PendingIsQueued, rootVars, Queued, EntryOf
<1> QED BY <1>7, <1>8, <1>9, <1>10 DEF Inv

\* The sweep re-sends a queued job whose message is lost.
LEMMA SweepStep ==
  ASSUME SingleDelivery, Inv, NEW j \in 1 .. Len(jobs), Sweep(j)
  PROVE  Inv'
<1>1. /\ Queued(j) /\ OnJob(j) = {} /\ msgs' = [msgs EXCEPT ![j] = 1] /\ j \in 1 .. MaxPurges
      /\ UNCHANGED <<rootVars, requestVars, run, jobs, lost, worker, history>>
  BY TrashBoundsAssumption DEF Sweep, Inv, Types
<1>2. msgs' \in [1 .. MaxPurges -> Nat] /\ msgs'[j] = 1 /\ \A k \in 1 .. MaxPurges : k # j => msgs'[k] = msgs[k]
  BY <1>1 DEF Inv, Types
<1>3. Types'
  BY <1>1, <1>2 DEF Inv, Types, rootVars, requestVars, history
<1>4. DeleteIsAlone' /\ TrashedRunsRaced' /\ DeletedRootIsInTrash'
  BY <1>1 DEF Inv, DeleteIsAlone, TrashedRunsRaced, DeletedRootIsInTrash, RecoverableEntries, rootVars,
              requestVars, history, Unlocked
<1>5. OneDelivery'
  <2>1. \A k \in 1 .. MaxPurges : OnJob(k)' = OnJob(k) /\ (Queued(k)' <=> Queued(k))
    BY <1>1 DEF OnJob, Queued
  <2> QED BY <1>1, <1>2, <2>1 DEF Inv, OneDelivery, Queued
<1>6. PendingIsQueued'
  BY <1>1 DEF Inv, PendingIsQueued, rootVars, Queued, EntryOf
<1> QED BY <1>3, <1>4, <1>5, <1>6 DEF Inv

-----------------------------------------------------------------------------
(* Theorems *)

\* The object begins active, with nothing in the trash and nothing queued.
LEMMA Initially == Init => Inv
<1> SUFFICES ASSUME Init PROVE Inv
  OBVIOUS
<1>1. Idle \in Delivery /\ Idle.pc = "idle" /\ Idle.job = 0
  BY DEF Idle, Delivery, DeletionStates
<1>2. Types
  <2>1. entries \in Seq(Entry) /\ Len(entries) = 0 /\ jobs \in Seq(Job) /\ Len(jobs) = 0
    BY DEF Init
  <2>2. /\ worker \in [Workers -> Delivery] /\ \A w \in Workers : worker[w].job \in 0 .. Len(jobs)
        /\ run \in [Runs -> {"none", "open", "active", "ended"}] /\ msgs \in [1 .. MaxPurges -> Nat]
    BY <1>1, <2>1 DEF Init
  <2>3. head \in 0 .. MaxHead /\ lost \in 0 .. MaxLost /\ Len(entries) <= MaxDeletes /\ Len(jobs) <= MaxPurges
    BY <2>1, TrashBoundsAssumption DEF Init
  <2>4. /\ root \in DeletionStates /\ tombstone \in BOOLEAN /\ replayed \in BOOLEAN
        /\ deleting \in {"none", "plain", "keyed"} /\ keyDone \in BOOLEAN /\ appending \in BOOLEAN /\ ~appending
        /\ raced \subseteq Runs
    BY DEF Init, DeletionStates
  <2> QED BY <2>1, <2>2, <2>3, <2>4 DEF Types
<1>3. DeleteIsAlone /\ TrashedRunsRaced
  BY DEF Init, DeleteIsAlone, TrashedRunsRaced, Unlocked
<1>4. OneDelivery /\ PendingIsQueued
  BY <1>1 DEF Init, OneDelivery, PendingIsQueued, Queued, EntryOf
<1>5. DeletedRootIsInTrash
  BY DEF Init, DeletedRootIsInTrash, RecoverableEntries
<1> QED BY <1>2, <1>3, <1>4, <1>5 DEF Inv

\* Every step keeps the invariant.
LEMMA Preserved ==
  ASSUME SingleDelivery, Inv, [Next]_vars
  PROVE  Inv'
<1>1. CASE \E r \in Runs : AdmitOpen(r) \/ AdmitCommit(r) \/ RunEnds(r)
  BY <1>1, RunSteps
<1>2. CASE AppendOpen \/ AppendCommit
  BY <1>2, AppendSteps
<1>3. CASE DeleteCommit \/ \E key \in {"plain", "keyed"} : DeleteOpen(key)
  BY <1>3, DeleteSteps
<1>4. ASSUME NEW e \in 1 .. Len(entries), \E adopt \in BOOLEAN : Restore(e, adopt) PROVE Inv'
  BY <1>4, RestoreStep
<1>5. ASSUME NEW e \in 1 .. Len(entries), \E sent \in BOOLEAN : RequestPurge(e, sent) PROVE Inv'
  BY <1>5, RequestStep
<1>6. ASSUME NEW j \in 1 .. Len(jobs), Deliver(j) PROVE Inv'
  BY <1>6, SweepStep, ReceiveStep DEF Deliver
<1>7. ASSUME NEW w \in Workers, Purge(w) PROVE Inv'
  BY <1>7, DecideStep, FinishStep DEF Purge
<1>8. ASSUME NEW w \in Workers, \E retried \in BOOLEAN : LosePurge(w, retried) PROVE Inv'
  BY <1>8, LoseStep
<1>9. CASE UNCHANGED vars
  <2>1. Types'
    BY <1>9 DEF vars, Inv, Types, rootVars, requestVars, queueVars, history
  <2>2. DeleteIsAlone' /\ TrashedRunsRaced' /\ DeletedRootIsInTrash'
    BY <1>9 DEF vars, Inv, DeleteIsAlone, TrashedRunsRaced, DeletedRootIsInTrash, RecoverableEntries, rootVars,
                requestVars, history, Unlocked
  <2>3. OneDelivery' /\ PendingIsQueued'
    BY <1>9 DEF vars, Inv, OneDelivery, PendingIsQueued, rootVars, queueVars, Queued, OnJob, EntryOf
  <2> QED BY <2>1, <2>2, <2>3 DEF Inv
<1> QED BY <1>1, <1>2, <1>3, <1>4, <1>5, <1>6, <1>7, <1>8, <1>9 DEF Next

\* A sequence has the type of its elements.
LEMMA Retyped ==
  ASSUME NEW S, NEW T, NEW s \in Seq(S), \A i \in 1 .. Len(s) : s[i] \in T
  PROVE  s \in Seq(T)
OBVIOUS

\* What the invariant says of the object: its trash entry tells its state, and no run uses it.
LEMMA InvTells ==
  ASSUME Inv PROVE TrashTellsTheRoot
<1>1. jobs \in Seq([status : {"queued", "succeeded"}, entry : 1 .. Len(entries)])
  <2>1. \A j \in 1 .. Len(jobs) : jobs[j] \in Job /\ jobs[j].entry \in 1 .. Len(entries)
    BY DEF Inv, Types, PendingIsQueued, EntryOf
  <2>2. \A j \in 1 .. Len(jobs) : jobs[j] \in [status : {"queued", "succeeded"}, entry : 1 .. Len(entries)]
    BY <2>1 DEF Job
  <2> QED BY <2>2, Retyped DEF Inv, Types
<1>2. worker \in [Workers -> [pc : {"idle", "loaded", "decided"}, job : 0 .. Len(jobs),
                              eligible : BOOLEAN, seen : DeletionStates]]
  <2>1. \A w \in Workers : worker[w] \in Delivery /\ worker[w].job \in 0 .. Len(jobs)
    BY DEF Inv, Types
  <2>2. \A w \in Workers : worker[w] \in [pc : {"idle", "loaded", "decided"}, job : 0 .. Len(jobs),
                                          eligible : BOOLEAN, seen : DeletionStates]
    BY <2>1 DEF Delivery
  <2> QED BY <2>2 DEF Inv, Types
<1>3. TypeOK
  BY <1>1, <1>2 DEF Inv, Types, TypeOK, Entry
<1>4. TrashedRootHasNoActiveRun
  BY DEF Inv, TrashedRunsRaced, TrashedRootHasNoActiveRun
<1> QED BY <1>3, <1>4 DEF Inv, TrashTellsTheRoot

\* However requests, runs, purge jobs and lost messages interleave, the trash tells the
\* state of the object and no run admitted before the delete's check uses a deleted one.
THEOREM TrashIsTruthful ==
  ASSUME SingleDelivery
  PROVE  Spec => []TrashTellsTheRoot
<1>1. Inv /\ [Next]_vars => Inv'
  BY Preserved
<1>2. Inv => TrashTellsTheRoot
  BY InvTells
<1> QED BY <1>1, <1>2, Initially, PTL DEF Spec

\* The moves a step makes are those of the deletion state machine.
LEMMA StepsFollow ==
  ASSUME Inv, [Next]_vars
  PROVE  [root' # root => root' \in Allowed[root]]_vars
<1> SUFFICES ASSUME Next, root' # root PROVE root' \in Allowed[root]
  OBVIOUS
<1>1. CASE DeleteCommit
  BY <1>1 DEF DeleteCommit, Inv, DeleteIsAlone, Allowed
<1>2. ASSUME NEW e \in 1 .. Len(entries), \E adopt \in BOOLEAN : Restore(e, adopt) PROVE root' \in Allowed[root]
  BY <1>2 DEF Restore, Allowed
<1>3. ASSUME NEW e \in 1 .. Len(entries), \E sent \in BOOLEAN : RequestPurge(e, sent) PROVE root' \in Allowed[root]
  BY <1>3 DEF RequestPurge, Allowed
<1>4. ASSUME NEW w \in Workers, FinishPurge(w) PROVE root' \in Allowed[root]
  <2>1. worker[w].seen = "purge_pending" /\ root = "purge_pending" /\ root' \in {"purged", "soft_deleted"}
    BY <1>4 DEF FinishPurge, Inv, OneDelivery, PendingIsQueued, Queued
  <2> QED BY <2>1 DEF Allowed
<1>5. CASE \/ \E r \in Runs : AdmitOpen(r) \/ AdmitCommit(r) \/ RunEnds(r)
           \/ AppendOpen \/ AppendCommit \/ \E key \in {"plain", "keyed"} : DeleteOpen(key)
  BY <1>5 DEF AdmitOpen, AdmitCommit, RunEnds, AppendOpen, AppendCommit, DeleteOpen, rootVars
<1>6. CASE \E j \in 1 .. Len(jobs) : Deliver(j)
  BY <1>6 DEF Deliver, Sweep, Receive, rootVars
<1>7. CASE \E w \in Workers : Decide(w) \/ \E retried \in BOOLEAN : LosePurge(w, retried)
  BY <1>7 DEF Decide, LosePurge, rootVars
<1> QED BY <1>1, <1>2, <1>3, <1>4, <1>5, <1>6, <1>7 DEF Next, Purge

\* Nothing restored is purged and nothing purged comes back.
THEOREM RootFollowsStateMachine ==
  ASSUME SingleDelivery
  PROVE  Spec => FollowsStateMachine
<1>1. Inv /\ [Next]_vars => Inv'
  BY Preserved
<1>2. Inv /\ [Next]_vars => [root' # root => root' \in Allowed[root]]_vars
  BY StepsFollow
<1> QED BY <1>1, <1>2, Initially, PTL DEF Spec, FollowsStateMachine
=============================================================================
