------------------------------- MODULE Records -------------------------------
(***************************************************************************)
(* Two parts that requests change concurrently and that share no state:    *)
(* the accounts and a research dataset.  A behaviour is one of the two.    *)
(***************************************************************************)
EXTENDS Administration, ResearchData

VARIABLE part  \* which of the two

\* The accounts have several initial states: beside the dataset they are one of them.
InitRecords ==
  /\ Init /\ InitResearch
  /\ \/ part = "accounts"
     \/ part = "research" /\ mode = "session" /\ users = [u \in Users |-> Absent]

\* The step of one part leaves the other alone.
OfAccounts == part = "accounts" /\ UNCHANGED <<researchVars, part>>
OfDataset == part = "research" /\ UNCHANGED <<vars, part>>

AccountStep(r) ==
  \/ \E op \in {"assign", "change"}, u \in Users, want \in Wanted, k \in Keys \cup {NoKey} :
       AskRole(r, op, u, want, k) /\ OfAccounts
  \/ \E u \in Users, k \in Keys \cup {NoKey} : AskSignUp(r, u, k) /\ OfAccounts
  \/ \E u \in Users : AskProved(r, u) /\ OfAccounts
  \/ \E s \in Reqs : Repeat(r, s) /\ OfAccounts
  \/ AssignLock(r) /\ OfAccounts
  \/ Count(r) /\ OfAccounts
  \/ CommitAssign(r) /\ OfAccounts
  \/ CommitChange(r) /\ OfAccounts
  \/ CommitSignUp(r) /\ OfAccounts
  \/ ProofLock(r) /\ OfAccounts
  \/ CommitProved(r) /\ OfAccounts
  \/ LateKey(r) /\ OfAccounts
  \/ NameTaken(r) /\ OfAccounts
  \/ Fail(r) /\ OfAccounts

CommandStep(c) ==
  \/ \E p \in Policies : OpenPolicy(c, p) /\ OfDataset
  \/ CommitPolicy(c) /\ OfDataset
  \/ OpenAnalysis(c) /\ OfDataset
  \/ CommitAnalysis(c) /\ OfDataset
  \/ \E i \in 1 .. Current : OpenApproval(c, i) /\ OfDataset
  \/ CommitApproval(c) /\ OfDataset
  \/ \E i \in 1 .. Current : OpenRevocation(c, i) /\ OfDataset
  \/ CommitRevocation(c) /\ OfDataset
  \/ Abandon(c) /\ OfDataset

DatasetStep ==
  \/ Revise /\ OfDataset
  \/ MarketChanges /\ OfDataset
  \/ \E c \in Cmds : CommandStep(c)
  \/ \E w \in Workers : Claim(w) /\ OfDataset
  \/ \E w \in Workers : Record(w) /\ OfDataset
  \/ \E w \in Workers : Crash(w) /\ OfDataset
  \/ \E i \in 1 .. Current : SealEvidence(i) /\ OfDataset

NextRecord == DatasetStep \/ \E r \in Reqs : AccountStep(r)

SpecRecords == InitRecords /\ [][NextRecord]_<<vars, researchVars, part>>
=============================================================================
