----------------------------- MODULE ResearchData -----------------------------
(***************************************************************************)
(* One research dataset: its revisions from draft to approval and          *)
(* revocation, the analysis jobs of the data queue, and the evidence       *)
(* bundles that pin its revisions for a backtest.                          *)
(*                                                                         *)
(* No command and no job locks the revision row.  Each reads it, decides,  *)
(* and writes the columns it changed when it commits; a job locks its own  *)
(* row for as long as it runs.                                             *)
(*                                                                         *)
(* A deleted dataset refuses every new command and bundle, which takes     *)
(* behaviours away and adds none: its deletion is left out.  So are the    *)
(* files uploaded, of which a job reads whichever is the newest, and the   *)
(* agent's bundles, which promise nothing about a revision later on.       *)
(***************************************************************************)
EXTENDS Integers, Sequences, FiniteSets

CONSTANTS Cmds,     \* commands clients have open
          Workers,  \* worker threads consuming the data queue
          MaxRevs,  \* bound: revisions
          MaxJobs,  \* bound: analysis jobs
          MaxBundles \* bound: bundles

VARIABLES market,    \* whether the linked market revision is active and approved
          revs,      \* the revisions, oldest first
          jobs,      \* analysis jobs: the revision, whether it succeeded, validation runs recorded
          cmd,       \* open commands: what they read
          worker,    \* open jobs: what they read
          bundles,   \* what each sealed bundle pinned
          disturbed  \* history: revisions a command or job wrote on without knowing their state

researchVars == <<market, revs, jobs, cmd, worker, bundles, disturbed>>

None == "none"

\* Time policies as the commands and the job tell them apart: none, one whose source zone
\* resolves, and one whose zone is left to the exchange.
Policies == {"utc", "exchange"}

\* _ALLOWED of domain/research_data; no command deprecates a revision.
Allowed ==
  [draft |-> {"analyzing"},
   analyzing |-> {"needs_review", "verified"},
   needs_review |-> {"analyzing", "verified"},
   verified |-> {"approved", "needs_review"},
   approved |-> {"approval_revoked"},
   approval_revoked |-> {}]

\* TIME_POLICY_FROZEN_STATES
Frozen(state) == state \in {"approved", "approval_revoked"}

Draft(linked) ==
  [state |-> "draft", linked |-> linked, policy |-> None]

NoCommand == [op |-> "none", rev |-> 0, seen |-> "draft", arg |-> None]
Free == [job |-> 0, seen |-> "draft", passes |-> FALSE]

InitResearch ==
  /\ market = TRUE
  /\ revs = <<Draft(TRUE)>>
  /\ jobs = <<>>
  /\ cmd = [c \in Cmds |-> NoCommand]
  /\ worker = [w \in Workers |-> Free]
  /\ bundles = <<>> /\ disturbed = {}

-----------------------------------------------------------------------------
(* Helpers *)

Current == Len(revs)
Claimed(j) == \E w \in Workers : worker[w].job = j

\* A commit moves the state it read, whatever the row says by now.
Moves(i, seen, state) ==
  /\ revs' = [revs EXCEPT ![i].state = state]
  /\ disturbed' = IF revs[i].state = seen THEN disturbed ELSE disturbed \cup {i}

Close(c) == cmd' = [cmd EXCEPT ![c] = NoCommand]

Reads(c, op, i, arg) ==
  /\ cmd[c] = NoCommand
  /\ cmd' = [cmd EXCEPT ![c] = [op |-> op, rev |-> i, seen |-> revs[i].state, arg |-> arg]]
  /\ UNCHANGED <<market, revs, jobs, worker, bundles, disturbed>>

-----------------------------------------------------------------------------
(* The dataset *)

\* A new draft, linked to a market revision only if that is active and approved now.
Revise ==
  /\ Current < MaxRevs
  /\ \E linked \in BOOLEAN : (linked => market) /\ revs' = Append(revs, Draft(linked))
  /\ UNCHANGED <<market, jobs, cmd, worker, bundles, disturbed>>

\* The market revision is approved again or revoked, or its dataset deleted or restored.
MarketChanges ==
  /\ market' = ~market
  /\ UNCHANGED <<revs, jobs, cmd, worker, bundles, disturbed>>

-----------------------------------------------------------------------------
(* Commands on a revision *)

\* Mutation: an approved revision may be retimed.
OpenPolicyUnfrozen(c, p) == Reads(c, "policy", Current, p)

\* set_time_policy: the current revision must not be frozen.
OpenPolicy(c, p) == ~Frozen(revs[Current].state) /\ Reads(c, "policy", Current, p)

CommitPolicy(c) ==
  LET i == cmd[c].rev
  IN  /\ cmd[c].op = "policy"
      /\ revs' = [revs EXCEPT ![i].policy = cmd[c].arg]
      /\ disturbed' = IF Frozen(revs[i].state) /\ ~Frozen(cmd[c].seen) THEN disturbed \cup {i} ELSE disturbed
      /\ Close(c)
      /\ UNCHANGED <<market, jobs, worker, bundles>>

\* request_research_dataset_analysis: any state may be analyzed again, only a draft moves.
OpenAnalysis(c) == Len(jobs) < MaxJobs /\ Reads(c, "analyze", Current, None)

CommitAnalysis(c) ==
  LET i == cmd[c].rev
  IN  /\ cmd[c].op = "analyze" /\ Len(jobs) < MaxJobs
      /\ jobs' = Append(jobs, [rev |-> i, done |-> FALSE, runs |-> 0])
      /\ IF cmd[c].seen = "draft" THEN Moves(i, "draft", "analyzing") ELSE UNCHANGED <<revs, disturbed>>
      /\ Close(c)
      /\ UNCHANGED <<market, worker, bundles>>

\* approve: the policy is set, the market revision still active and approved, and the
\* revision verified.
OpenApproval(c, i) ==
  /\ revs[i].policy # None /\ revs[i].linked /\ market
  /\ "approved" \in Allowed[revs[i].state]
  /\ Reads(c, "approve", i, None)

CommitApproval(c) ==
  /\ cmd[c].op = "approve"
  /\ Moves(cmd[c].rev, cmd[c].seen, "approved")
  /\ Close(c)
  /\ UNCHANGED <<market, jobs, worker, bundles>>

OpenRevocation(c, i) ==
  /\ "approval_revoked" \in Allowed[revs[i].state]
  /\ Reads(c, "revoke", i, None)

CommitRevocation(c) ==
  /\ cmd[c].op = "revoke"
  /\ Moves(cmd[c].rev, cmd[c].seen, "approval_revoked")
  /\ Close(c)
  /\ UNCHANGED <<market, jobs, worker, bundles>>

Abandon(c) ==
  /\ cmd[c] # NoCommand /\ Close(c)
  /\ UNCHANGED <<market, revs, jobs, worker, bundles, disturbed>>

-----------------------------------------------------------------------------
(* The analysis job *)

\* evaluate_research: a missing policy and a zone that does not resolve always block, the
\* contents of the file may.
Outcomes(i) == IF revs[i].policy = "utc" THEN BOOLEAN ELSE {FALSE}

Take(w, j) ==
  /\ worker[w] = Free
  /\ \E passes \in Outcomes(jobs[j].rev) :
       worker' = [worker EXCEPT ![w] = [job |-> j, seen |-> revs[jobs[j].rev].state, passes |-> passes]]
  /\ UNCHANGED <<market, revs, jobs, cmd, bundles, disturbed>>

\* Mutation: a delivery does not wait for the one that holds the job.
ClaimUnlocked(w) == \E j \in 1 .. Len(jobs) : ~jobs[j].done /\ Take(w, j)

\* claim_job_for_delivery, then the revision and the newest file of the dataset are read.
Claim(w) == \E j \in 1 .. Len(jobs) : ~Claimed(j) /\ ~jobs[j].done /\ Take(w, j)

\* The outcome is recorded on any revision; only one read as analyzing advances.
Record(w) ==
  LET j == worker[w].job  i == jobs[j].rev
  IN  /\ worker[w] # Free
      /\ IF worker[w].seen = "analyzing"
         THEN Moves(i, "analyzing", IF worker[w].passes THEN "verified" ELSE "needs_review")
         ELSE UNCHANGED <<revs, disturbed>>
      /\ jobs' = [jobs EXCEPT ![j] = [rev |-> @.rev, done |-> TRUE, runs |-> @.runs + 1]]
      /\ worker' = [worker EXCEPT ![w] = Free]
      /\ UNCHANGED <<market, cmd, bundles>>

\* The worker dies or the job raises: the transaction rolls back, the job is sent again.
Crash(w) ==
  /\ worker[w] # Free /\ worker' = [worker EXCEPT ![w] = Free]
  /\ UNCHANGED <<market, revs, jobs, cmd, bundles, disturbed>>

-----------------------------------------------------------------------------
(* Evidence bundles *)

\* _pin_member, _seal_bundle: the policy is pinned with the revision.
Seal(i) ==
  /\ Len(bundles) < MaxBundles /\ revs[i].policy # None
  /\ bundles' = Append(bundles, [rev |-> i, policy |-> revs[i].policy])
  /\ UNCHANGED <<market, revs, jobs, cmd, worker, disturbed>>

\* Mutation: evidence needs only a verified revision.
SealVerified(i) == revs[i].state \in {"verified", "approved"} /\ Seal(i)

\* admit_bundle_member for execution: approved, with a valid policy.
SealEvidence(i) == revs[i].state = "approved" /\ Seal(i)

-----------------------------------------------------------------------------

Opens(c) ==
  \/ \E p \in Policies : OpenPolicy(c, p)
  \/ OpenAnalysis(c)
  \/ \E i \in 1 .. Current : OpenApproval(c, i) \/ OpenRevocation(c, i)

CommitsCommand(c) == CommitPolicy(c) \/ CommitAnalysis(c) \/ CommitApproval(c) \/ CommitRevocation(c)

NextResearch ==
  \/ Revise \/ MarketChanges
  \/ \E c \in Cmds : Opens(c) \/ CommitsCommand(c) \/ Abandon(c)
  \/ \E w \in Workers : Claim(w) \/ Record(w) \/ Crash(w)
  \/ \E i \in 1 .. Current : SealEvidence(i)

SpecResearch == InitResearch /\ [][NextResearch]_researchVars

-----------------------------------------------------------------------------
(* Properties *)

\* A job records one validation run, however often its message is delivered
\* (claim_job_for_delivery).
OneRunPerJob == \A j \in 1 .. Len(jobs) : jobs[j].runs <= 1 /\ (jobs[j].done <=> jobs[j].runs = 1)

\* A revision nobody wrote on blindly keeps the lifecycle of domain/research_data; what an
\* evidence bundle pinned of it, the bundle still finds: it is approved or revoked since,
\* and its availability is timed by the rule pinned (TIME_POLICY_FROZEN_STATES).
PinnedEvidenceHolds ==
  /\ [][\A i \in 1 .. Current :
          i \notin disturbed' /\ revs'[i].state # revs[i].state => revs'[i].state \in Allowed[revs[i].state]]_researchVars
  /\ []\A b \in 1 .. Len(bundles) :
         bundles[b].rev \notin disturbed
           => /\ Frozen(revs[bundles[b].rev].state)
              /\ revs[bundles[b].rev].policy = bundles[b].policy
=============================================================================
