----------------------------- MODULE Admission -----------------------------
(***************************************************************************)
(* The Ready Check of a workspace, its capital plan, and the admission of  *)
(* runs, which repeats the check as its preflight.                         *)
(*                                                                         *)
(* The check locks nothing and reads the items, the plan, the plan's       *)
(* entries and the pinned datasets in queries of their own; each is an     *)
(* action, and edits of the mainboard, the plan and the library commit in  *)
(* between.  How an edit of the mainboard is carried out is in Mainboard.  *)
(***************************************************************************)
EXTENDS Integers, Sequences, FiniteSets

CONSTANTS Items,       \* ids of mainboard items
          Requests,    \* Ready Checks and admissions that may be open at the same time
          RootOf,      \* the work object of each item
          Pins,        \* revision numbers an item may pin
          Invalid,     \* <<root, revision>> pairs whose own configuration is a blocker
          Drafts,      \* capital drafts clients send: enabled, and the items with a share
          MaxVersion,  \* bound: row version of the plan
          MaxReports,  \* bound: readiness reports
          MaxRuns,     \* bound: admitted runs
          MaxChanges   \* bound: edits of items, work objects and the dataset

ASSUME AdmissionBoundsAssumption ==
  /\ MaxVersion \in Nat \ {0} /\ MaxReports \in Nat /\ MaxRuns \in Nat /\ MaxChanges \in Nat
  /\ \A d \in Drafts : d.enabled \in BOOLEAN /\ d.shares \subseteq Items

\* An item not attached yet carries the first pin; "feed" names the dataset among the
\* facts, and no work object.
ASSUME BoardAssumption == 1 \in Pins /\ \A i \in Items : RootOf[i] # "feed"

VARIABLES item,      \* mainboard items: absent, on or off, and the pinned revision
          deleted,   \* work objects in the trash
          feed,      \* whether the market dataset the revisions pin is approved
          changes,   \* edits of the three so far
          plan,      \* the allocation plan: row version, version of its entries, head revision
          drafts,    \* history: the plan's content at each row version
          revisions, \* allocation plan revisions: the row version each was cut from
          reports,   \* reports of Ready Checks, oldest first
          runs,      \* admitted runs with what their manifests pin
          req        \* what each request has read and is about to do

board == <<item, deleted, feed, changes>>
capital == <<plan, drafts, revisions>>
evidence == <<reports, runs>>
vars == <<board, capital, evidence, req>>

Done == [op |-> "none"]

-----------------------------------------------------------------------------
(* What requests compute *)

EnabledItems == {i \in Items : item[i].state = "on"}

\* Items whose root is active
Available(S) == {i \in S : RootOf[i] \notin deleted}

Member(i) == <<RootOf[i], item[i].pin>>

\* composition_hash over the items S: their pinned revisions with multiplicity
Fingerprint(S) ==
  [m \in {Member(i) : i \in S} |-> Cardinality({i \in S : Member(i) = m})]

Live == Fingerprint(Available(EnabledItems))

\* _composition_issues: nothing to run, or one work object enabled twice.
CompositionBlocked(available) ==
  \/ available = {}
  \/ \E i, j \in available : i # j /\ RootOf[i] = RootOf[j]

\* validate_allocation
AllocationBlocked(config, available) ==
  config.enabled /\ (config.shares = {} \/ ~(config.shares \subseteq available))

\* The facts that are bad when a run is asked for: objects in the trash, the dataset.
BadFacts == deleted \cup (IF feed = "withdrawn" THEN {"feed"} ELSE {})

Set(q, r) == req' = [req EXCEPT ![q] = r]
Is(q, op, pc) == req[q].op = op /\ req[q].pc = pc

-----------------------------------------------------------------------------
(* Edits of the mainboard and the library *)

\* The facts in X change under the requests that are open.
FactsChange(X) ==
  /\ changes < MaxChanges /\ changes' = changes + 1
  /\ req' = [q \in Requests |->
               IF req[q].op = "run" THEN [req[q] EXCEPT !.bad = @ \ X] ELSE req[q]]

\* attach_mainboard_item, patch_mainboard_item
EditItem(i, state, pin) ==
  /\ item[i].state = "absent" => state = "on" /\ RootOf[i] \notin deleted
  /\ item[i] # [state |-> state, pin |-> pin]
  /\ item[i].state # "absent" /\ item[i].pin # pin => RootOf[i] \notin deleted
  /\ item' = [item EXCEPT ![i] = [state |-> state, pin |-> pin]]
  /\ FactsChange({})
  /\ UNCHANGED <<deleted, feed, capital, evidence>>

\* A work object is deleted, or restored from the trash.
DeleteOrRestore(r) ==
  /\ deleted' = IF r \in deleted THEN deleted \ {r} ELSE deleted \cup {r}
  /\ FactsChange({r})
  /\ UNCHANGED <<item, feed, capital, evidence>>

\* An administrator approves the dataset revision, or it is deprecated or deleted.
FeedChanges ==
  /\ feed' = IF feed = "approved" THEN "withdrawn" ELSE "approved"
  /\ FactsChange({"feed"})
  /\ UNCHANGED <<item, deleted, capital, evidence>>

-----------------------------------------------------------------------------
(* The capital plan *)

\* upsert_allocation_draft: row and entries are replaced together under the row's lock
\* (a client whose row version is old gets 409).
UpsertDraft(draft) ==
  /\ plan.version < MaxVersion
  /\ \A i \in draft.shares : item[i].state # "absent"
  /\ drafts' = Append(drafts, draft)
  /\ plan' = [plan EXCEPT !.version = @ + 1, !.entries = plan.version + 1]
  /\ UNCHANGED <<board, revisions, evidence, req>>

\* create_allocation_revision: an enabled draft without blockers becomes immutable.
FreezeDraft ==
  LET v == plan.version IN
  /\ v \in 1 .. MaxVersion - 1
  /\ drafts[v].enabled
  /\ ~AllocationBlocked(drafts[v], Available({i \in Items : item[i].state # "absent"}))
  /\ revisions' = Append(revisions, v)
  /\ drafts' = Append(drafts, drafts[v])
  /\ plan' = [version |-> v + 1, entries |-> v + 1, revision |-> Len(revisions) + 1]
  /\ UNCHANGED <<board, evidence, req>>

-----------------------------------------------------------------------------
(* Ready Check and admission *)

\* run_readiness_check and request_backtest_run, with the fingerprint of the report the
\* page shows or (as a retry) with none.
CheckOpen(q, op, asks) ==
  /\ req[q] = Done
  /\ IF op = "run" THEN Len(runs) < MaxRuns ELSE Len(reports) < MaxReports
  /\ asks => reports # <<>>
  /\ Set(q, [op |-> op, pc |-> "open", asks |-> asks,
             expected |-> IF asks THEN reports[Len(reports)].fp ELSE Fingerprint({}),
             bad |-> IF op = "run" THEN BadFacts ELSE {},
             enabled |-> {}, available |-> {}, pins |-> {}, fp |-> Fingerprint({}),
             row |-> 0, entries |-> 0, revision |-> 0])
  /\ UNCHANGED <<board, capital, evidence>>

Checking(q, pc) == req[q].op \in {"check", "run"} /\ req[q].pc = pc

\* The enabled items and the state of their roots; 409 when the fingerprint is not the
\* expected one.
CheckItems(q) ==
  LET available == Available(EnabledItems) IN
  /\ Checking(q, "open")
  /\ IF req[q].asks /\ req[q].expected # Live THEN Set(q, Done)
     ELSE Set(q, [req[q] EXCEPT !.pc = "plan", !.enabled = EnabledItems, !.available = available,
                                !.pins = {Member(i) : i \in available}, !.fp = Live])
  /\ UNCHANGED <<board, capital, evidence>>

\* Mutation: the snapshot names the plan's revision and pins the draft.
CheckPlanDraft(q) ==
  /\ Checking(q, "plan")
  /\ Set(q, [req[q] EXCEPT !.pc = "entries", !.row = plan.version, !.revision = plan.revision])
  /\ UNCHANGED <<board, capital, evidence>>

\* _resolve_allocation reads the plan: an enabled plan with a revision pins that
\* revision, otherwise the row is the draft's.
CheckPlan(q) ==
  /\ Checking(q, "plan")
  /\ Set(q, IF plan.version > 0 /\ drafts[plan.version].enabled /\ plan.revision > 0
            THEN LET v == revisions[plan.revision] IN
                 [req[q] EXCEPT !.pc = "facts", !.row = v, !.entries = v, !.revision = plan.revision]
            ELSE [req[q] EXCEPT !.pc = "entries", !.row = plan.version])
  /\ UNCHANGED <<board, capital, evidence>>

\* The draft's entries are another query.
CheckEntries(q) ==
  /\ Checking(q, "entries")
  /\ Set(q, [req[q] EXCEPT !.pc = "facts", !.entries = plan.entries])
  /\ UNCHANGED <<board, capital, evidence>>

\* _plan_to_config: the mode from the plan's row, the shares from its entries.
PinnedConfig(r) ==
  [enabled |-> r.row > 0 /\ drafts[r.row].enabled,
   shares |-> IF r.entries > 0 THEN drafts[r.entries].shares ELSE {}]

\* _item_issues: an enabled item whose work object is in the trash
GoneBlocked(r) == r.available # r.enabled

\* _strategy_issues: a pinned revision that is not runnable
PinsBlocked(r) == r.pins \cap Invalid # {}

\* _resolve_market_data_issues looks the pinned dataset up again.
FeedBlocked == feed = "withdrawn"

\* Mutation: the pinned dataset is not looked up again.
BlockedByItems(r) ==
  \/ CompositionBlocked(r.available) \/ GoneBlocked(r) \/ PinsBlocked(r)
  \/ AllocationBlocked(PinnedConfig(r), r.available)

\* evaluate_readiness finds a blocker in what the request r has read.
Blocked(r) ==
  \/ CompositionBlocked(r.available) \/ GoneBlocked(r) \/ PinsBlocked(r) \/ FeedBlocked
  \/ AllocationBlocked(PinnedConfig(r), r.available)

CheckCommit(q) ==
  /\ Is(q, "check", "facts")
  /\ Len(reports) < MaxReports
  /\ reports' = Append(reports, [fp |-> req[q].fp, ready |-> ~Blocked(req[q])])
  /\ Set(q, Done)
  /\ UNCHANGED <<board, capital, runs>>

\* _admit_run_body: a blocker rolls everything back, the preflight's report too; else
\* the manifest pins what the preflight has read.
AdmitCommit(q) ==
  /\ Is(q, "run", "facts")
  /\ Len(runs) < MaxRuns
  /\ Set(q, Done)
  /\ runs' = IF Blocked(req[q]) THEN runs ELSE Append(runs, req[q])
  /\ UNCHANGED <<board, capital, reports>>

-----------------------------------------------------------------------------
Init ==
  /\ item = [i \in Items |-> [state |-> "absent", pin |-> 1]]
  /\ deleted = {} /\ feed = "approved" /\ changes = 0
  /\ plan = [version |-> 0, entries |-> 0, revision |-> 0]
  /\ drafts = <<>> /\ revisions = <<>>
  /\ reports = <<>> /\ runs = <<>>
  /\ req = [q \in Requests |-> Done]

Edit ==
  \/ \E i \in Items, state \in {"on", "off"}, pin \in Pins : EditItem(i, state, pin)
  \/ \E i \in Items : DeleteOrRestore(RootOf[i])
  \/ FeedChanges

Plan == (\E draft \in Drafts : UpsertDraft(draft)) \/ FreezeDraft

CheckStep(q) ==
  \/ \E op \in {"check", "run"}, asks \in BOOLEAN : CheckOpen(q, op, asks)
  \/ CheckItems(q) \/ CheckPlan(q) \/ CheckEntries(q) \/ CheckCommit(q) \/ AdmitCommit(q)

Next == Edit \/ Plan \/ \E q \in Requests : CheckStep(q)

Spec == Init /\ [][Next]_vars

-----------------------------------------------------------------------------
(* Properties *)

Idle(q) == req[q] = Done

\* Every variable keeps its type.
TypeOK ==
  /\ item \in [Items -> [state : {"absent", "on", "off"}, pin : Pins]]
  /\ deleted \subseteq {RootOf[i] : i \in Items}
  /\ feed \in {"approved", "withdrawn"} /\ changes \in 0 .. MaxChanges
  /\ drafts \in Seq(Drafts)
  /\ plan.version = Len(drafts) /\ plan.entries = plan.version
  /\ plan.revision \in 0 .. Len(revisions)
  /\ \A k \in 1 .. Len(revisions) : revisions[k] \in 1 .. Len(drafts)
  /\ \A n \in 1 .. Len(reports) : reports[n].ready \in BOOLEAN
  /\ \A n \in 1 .. Len(runs) : runs[n].available \subseteq Items
  /\ \A q \in Requests : Idle(q) \/ req[q].op \in {"check", "run"}

Admitted == {runs[n] : n \in 1 .. Len(runs)}

\* An admitted run pins nothing that was bad all along its admission - an object in the
\* trash, a dataset that is not approved - and no revision that cannot run, whatever the
\* report its client was shown said.
AdmittedRunIsSound ==
  \A r \in Admitted :
    /\ {p[1] : p \in r.pins} \cap r.bad = {} /\ "feed" \notin r.bad
    /\ r.pins \cap Invalid = {}

\* A run asked for under a report executes the composition that report was about: edits
\* made meanwhile, by whomever, are never executed unseen.
RunIsTheReportedComposition ==
  \A r \in Admitted : r.asks => r.fp = r.expected

\* A run with shared capital funds only items it pins, however old the revision of the
\* plan is that it names.
SharesArePinned ==
  \A r \in Admitted : PinnedConfig(r).enabled => PinnedConfig(r).shares \subseteq r.available

\* R-1 of _resolve_allocation: a run that names a plan revision runs under exactly the
\* draft the revision was cut from, not under the draft of the moment.
NamedRevisionIsPinned ==
  \A r \in Admitted :
    r.revision > 0 => r.row = revisions[r.revision] /\ r.entries = revisions[r.revision]

\* What an admitted run executes is what was checked and shown: composition and capital.
RunIsWhatWasChecked ==
  TypeOK /\ RunIsTheReportedComposition /\ SharesArePinned /\ NamedRevisionIsPinned
=============================================================================
