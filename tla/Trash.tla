------------------------------- MODULE Trash -------------------------------
(***************************************************************************)
(* One work object: deletion, restore, the purge request of an             *)
(* administrator, and the purge job of the maintenance queue, against the  *)
(* admission of runs that pin the object.                                  *)
(*                                                                         *)
(* Delete, restore and purge request lock the registry row.  A delete is   *)
(* two actions, because admissions take no lock and may commit between its *)
(* check for active runs and its own commit.  Restore and purge request    *)
(* read nothing else that others write, and are one action each.  The      *)
(* purge worker locks no row at all: it decides from what it reads and     *)
(* writes when it commits.                                                 *)
(***************************************************************************)
EXTENDS Integers, Sequences

CONSTANTS Runs,            \* backtest runs that would pin the object
          Workers,         \* worker threads consuming the maintenance queue
          SingleDelivery,  \* whether a message is re-sent only once it is lost
          MaxDeletes,      \* bound: deletes of the object, each with its trash entry
          MaxPurges,       \* bound: purge requests
          MaxHead,         \* bound: revisions appended
          MaxLost          \* bound: deliveries that fail or are lost

ASSUME SingleDeliveryAssumption == SingleDelivery \in BOOLEAN
ASSUME TrashBoundsAssumption ==
  /\ MaxDeletes \in Nat /\ MaxPurges \in Nat /\ MaxHead \in Nat /\ MaxLost \in Nat

VARIABLES root,      \* entity_registry.deletion_state
          head,      \* entity_registry.current_revision_id
          entries,   \* trash_entries, oldest first: status and the head it recorded
          tombstone, \* whether the tombstones row of the object exists
          deleting,  \* the delete that holds the row lock: none, plain or keyed
          keyDone,   \* whether the client's idempotency key is stored as completed
          appending, \* whether a request is about to append a revision
          run,       \* the runs that pin the object
          jobs,      \* purge jobs: status and the entry in the payload
          msgs,      \* messages of each job waiting in the broker
          lost,      \* deliveries failed or lost so far
          worker,    \* what each worker thread has read
          raced,     \* history: runs whose admission was open under a delete's check
          replayed   \* history: whether a delete was answered from its key's row

rootVars == <<root, head, entries, tombstone>>
requestVars == <<deleting, keyDone, appending>>
queueVars == <<jobs, msgs, lost>>
history == <<raced, replayed>>
vars == <<rootVars, requestVars, run, queueVars, worker, history>>

DeletionStates == {"active", "soft_deleted", "purge_pending", "purged"}
EntryStates == {"soft_deleted", "purge_pending", "purge_failed", "restored", "purged"}

\* _ALLOWED of domain/deletion: what a committed change of the root may be.
Allowed ==
  [active |-> {"soft_deleted"},
   soft_deleted |-> {"active", "purge_pending"},
   purge_pending |-> {"purged", "soft_deleted"},
   purged |-> {}]

\* RECOVERABLE_STATUSES
Recoverable == {"soft_deleted", "purge_pending", "purge_failed"}

\* Statuses _assert_entry_recoverable lets pass.
Restorable == {"soft_deleted", "purge_failed"}

Idle == [pc |-> "idle", job |-> 0, eligible |-> FALSE, seen |-> "active"]

Init ==
  /\ root = "active" /\ head = 0
  /\ entries = <<>> /\ tombstone = FALSE
  /\ deleting = "none" /\ keyDone = FALSE /\ appending = FALSE
  /\ run = [r \in Runs |-> "none"]
  /\ jobs = <<>> /\ msgs = [j \in 1 .. MaxPurges |-> 0] /\ lost = 0
  /\ worker = [w \in Workers |-> Idle]
  /\ raced = {} /\ replayed = FALSE

-----------------------------------------------------------------------------
(* Helpers *)

\* has_active_run_for_root
ActiveRunPinsRoot == \E r \in Runs : run[r] = "active"

OpenRuns == {r \in Runs : run[r] = "open"}

\* Nobody else writes the registry row while a delete holds its lock.
Unlocked == deleting = "none"

SetEntry(e, status) == entries' = [entries EXCEPT ![e].status = status]

SetWorker(w, pc, j, eligible, seen) ==
  worker' = [worker EXCEPT ![w] = [pc |-> pc, job |-> j, eligible |-> eligible, seen |-> seen]]

EntryOf(j) == jobs[j].entry
Queued(j) == j \in 1 .. Len(jobs) /\ jobs[j].status = "queued"
OnJob(j) == {w \in Workers : worker[w].job = j /\ worker[w].pc # "idle"}

-----------------------------------------------------------------------------
(* Runs and revisions *)

\* An admission reads the enabled items whose root is active.
AdmitOpen(r) ==
  /\ run[r] = "none"
  /\ root = "active"
  /\ run' = [run EXCEPT ![r] = "open"]
  /\ raced' = IF deleting = "none" THEN raced ELSE raced \cup {r}
  /\ UNCHANGED <<rootVars, requestVars, queueVars, worker, replayed>>

\* The admission commits; nothing looks at the root again.
AdmitCommit(r) ==
  /\ run[r] = "open"
  /\ run' = [run EXCEPT ![r] = "active"]
  /\ UNCHANGED <<rootVars, requestVars, queueVars, worker, history>>

\* The run reaches a terminal state, or its admission rolls back.
RunEnds(r) ==
  /\ run[r] \in {"open", "active"}
  /\ run' = [run EXCEPT ![r] = "ended"]
  /\ UNCHANGED <<rootVars, requestVars, queueVars, worker, history>>

\* create_work_object_revision looks at the deletion state before it locks the row.
AppendOpen ==
  /\ ~appending /\ head < MaxHead
  /\ root = "active"
  /\ appending' = TRUE
  /\ UNCHANGED <<rootVars, deleting, keyDone, run, queueVars, worker, history>>

\* Under the lock only the head is compared.
AppendCommit ==
  /\ appending /\ Unlocked
  /\ head' = head + 1
  /\ appending' = FALSE
  /\ UNCHANGED <<root, entries, tombstone, deleting, keyDone, run, queueVars, worker, history>>

-----------------------------------------------------------------------------
(* Deletion and restore *)

\* soft_delete_entity takes the row lock and runs the preflight.  On a root that is
\* not active it returns, or is refused, without a write.
DeleteOpen(key) ==
  /\ Unlocked
  /\ root = "active"
  /\ ~ActiveRunPinsRoot
  /\ Len(entries) < MaxDeletes
  /\ deleting' = key
  /\ raced' = raced \cup OpenRuns
  /\ UNCHANGED <<rootVars, keyDone, appending, run, queueVars, worker, replayed>>

\* The delete commits the root's state and, unless its key is already stored, the
\* trash entry: only the entry is inside run_idempotent.
DeleteCommit ==
  /\ ~Unlocked
  /\ root' = "soft_deleted"
  /\ LET replay == deleting = "keyed" /\ keyDone IN
     /\ entries' = IF replay THEN entries
                   ELSE Append(entries, [status |-> "soft_deleted", head |-> head])
     /\ replayed' = (replayed \/ replay)
  /\ keyDone' = (keyDone \/ deleting = "keyed")
  /\ deleting' = "none"
  /\ UNCHANGED <<head, tombstone, appending, run, queueVars, worker, raced>>

\* Mutation: the entry is left as it was.
RestoreKeepingEntry(e, adopt) ==
  /\ Unlocked
  /\ entries[e].status \in Restorable
  /\ root = "soft_deleted"
  /\ entries[e].head = head \/ adopt
  /\ root' = "active"
  /\ UNCHANGED <<entries, head, tombstone, requestVars, run, queueVars, worker, history>>

\* Mutation: an object whose purge is requested may be restored.
RestorePending(e, adopt) ==
  /\ Unlocked
  /\ entries[e].status \in Recoverable
  /\ entries[e].head = head \/ adopt
  /\ root' = "active"
  /\ SetEntry(e, "restored")
  /\ UNCHANGED <<head, tombstone, requestVars, run, queueVars, worker, history>>

\* restore_trash_entry, restore_entity: the same head, unless the administrator
\* adopts the one the root moved to.
Restore(e, adopt) ==
  /\ Unlocked
  /\ entries[e].status \in Restorable
  /\ root = "soft_deleted"
  /\ entries[e].head = head \/ adopt
  /\ root' = "active"
  /\ SetEntry(e, "restored")
  /\ UNCHANGED <<head, tombstone, requestVars, run, queueVars, worker, history>>

\* request_purge: the root and its entry become pending, and the job is queued.
\* The route sends the message inside the handler; it may be lost.
RequestPurge(e, sent) ==
  /\ Unlocked
  /\ entries[e].status \in Restorable
  /\ root = "soft_deleted"
  /\ Len(jobs) < MaxPurges
  /\ root' = "purge_pending"
  /\ SetEntry(e, "purge_pending")
  /\ jobs' = Append(jobs, [status |-> "queued", entry |-> e])
  /\ msgs' = [msgs EXCEPT ![Len(jobs) + 1] = IF sent THEN 1 ELSE 0]
  /\ UNCHANGED <<head, tombstone, requestVars, run, lost, worker, history>>

-----------------------------------------------------------------------------
(* The purge worker and its deliveries *)

\* A thread takes the job's message and loads the entry; one that is not pending is
\* skipped, and the job row is left as it is.
Receive(w, j) ==
  /\ worker[w] = Idle
  /\ msgs[j] > 0
  /\ msgs' = [msgs EXCEPT ![j] = @ - 1]
  /\ IF entries[EntryOf(j)].status = "purge_pending"
     THEN SetWorker(w, "loaded", j, FALSE, "active")
     ELSE UNCHANGED worker
  /\ UNCHANGED <<rootVars, requestVars, run, jobs, lost, history>>

\* _purge_preflight, and the read of the root that follows it.
Decide(w) ==
  /\ worker[w].pc = "loaded"
  /\ SetWorker(w, "decided", worker[w].job, ~ActiveRunPinsRoot, root)
  /\ UNCHANGED <<rootVars, requestVars, run, queueVars, history>>

\* The transaction writes from its copies: purged with a tombstone, whose primary
\* key admits one, or the return to the trash.
FinishPurge(w) ==
  LET j == worker[w].job IN
  /\ worker[w].pc = "decided" /\ Unlocked
  /\ \/ /\ worker[w].eligible
        /\ worker[w].seen = "purge_pending" /\ ~tombstone
        /\ root' = "purged" /\ tombstone' = TRUE
        /\ SetEntry(EntryOf(j), "purged")
     \/ /\ ~worker[w].eligible
        /\ root' = IF worker[w].seen = "purge_pending" THEN "soft_deleted" ELSE root
        /\ SetEntry(EntryOf(j), "purge_failed")
        /\ UNCHANGED tombstone
  /\ jobs' = [jobs EXCEPT ![j].status = "succeeded"]
  /\ worker' = [worker EXCEPT ![w] = Idle]
  /\ UNCHANGED <<head, requestVars, run, msgs, lost, history>>

\* The transition or the tombstone is refused, the thread dies, or the database
\* fails: all is undone, and the broker retries the message or gives it up.
LosePurge(w, retried) ==
  /\ worker[w].pc # "idle"
  /\ lost < MaxLost
  /\ lost' = lost + 1
  /\ msgs' = [msgs EXCEPT ![worker[w].job] = IF retried THEN @ + 1 ELSE @]
  /\ worker' = [worker EXCEPT ![w] = Idle]
  /\ UNCHANGED <<rootVars, requestVars, run, jobs, history>>

\* Mutation: the sweep looks at running jobs only.
SweepNothing(j) ==
  /\ jobs[j].status = "running"
  /\ msgs' = [msgs EXCEPT ![j] = 1]
  /\ UNCHANGED <<rootVars, requestVars, run, jobs, lost, worker, history>>

\* redeliverable_queued_jobs: a job queued for longer than the grace is sent again.
Sweep(j) ==
  /\ Queued(j)
  /\ msgs[j] = 0
  /\ SingleDelivery => OnJob(j) = {}
  /\ msgs' = [msgs EXCEPT ![j] = 1]
  /\ UNCHANGED <<rootVars, requestVars, run, jobs, lost, worker, history>>

Deliver(j) == Sweep(j) \/ \E w \in Workers : Receive(w, j)
Purge(w) == Decide(w) \/ FinishPurge(w)

Next ==
  \/ \E r \in Runs : AdmitOpen(r) \/ AdmitCommit(r) \/ RunEnds(r)
  \/ AppendOpen \/ AppendCommit
  \/ \E key \in {"plain", "keyed"} : DeleteOpen(key)
  \/ DeleteCommit
  \/ \E e \in 1 .. Len(entries) :
       \/ \E adopt \in BOOLEAN : Restore(e, adopt)
       \/ \E sent \in BOOLEAN : RequestPurge(e, sent)
  \/ \E j \in 1 .. Len(jobs) : Deliver(j)
  \/ \E w \in Workers : Purge(w) \/ \E retried \in BOOLEAN : LosePurge(w, retried)

Spec == Init /\ [][Next]_vars

\* The scheduler ticks for ever, workers consume what is sent, and a delete ends.
FairSpec ==
  /\ Spec
  /\ WF_vars(DeleteCommit)
  /\ \A j \in 1 .. MaxPurges : WF_vars(j \in 1 .. Len(jobs) /\ Deliver(j))
  /\ \A w \in Workers : WF_vars(Purge(w))

-----------------------------------------------------------------------------
(* Properties *)

\* Every variable keeps its type.
TypeOK ==
  /\ root \in DeletionStates /\ head \in 0 .. MaxHead
  /\ entries \in Seq([status : EntryStates, head : 0 .. MaxHead]) /\ Len(entries) <= MaxDeletes
  /\ tombstone \in BOOLEAN
  /\ deleting \in {"none", "plain", "keyed"} /\ keyDone \in BOOLEAN /\ appending \in BOOLEAN
  /\ run \in [Runs -> {"none", "open", "active", "ended"}]
  /\ jobs \in Seq([status : {"queued", "succeeded"}, entry : 1 .. Len(entries)])
  /\ Len(jobs) <= MaxPurges
  /\ msgs \in [1 .. MaxPurges -> Nat] /\ lost \in 0 .. MaxLost
  /\ worker \in [Workers -> [pc : {"idle", "loaded", "decided"}, job : 0 .. Len(jobs),
                             eligible : BOOLEAN, seen : DeletionStates]]
  /\ raced \subseteq Runs /\ replayed \in BOOLEAN

RecoverableEntries == {e \in 1 .. Len(entries) : entries[e].status \in Recoverable}

\* The trash shows the object exactly while it can be recovered, with one entry that
\* tells what the root is waiting for ("a repeated delete never creates a duplicate"),
\* unless a delete was answered from the row of its idempotency key.
DeletedRootIsInTrash ==
  ~replayed =>
    CASE root = "active"        -> RecoverableEntries = {}
      [] root = "soft_deleted"  -> \E e \in 1 .. Len(entries) :
                                     RecoverableEntries = {e} /\ entries[e].status \in Restorable
      [] root = "purge_pending" -> \E e \in 1 .. Len(entries) :
                                     RecoverableEntries = {e} /\ entries[e].status = "purge_pending"
      [] root = "purged"        -> RecoverableEntries = {} /\ tombstone

\* An object with an active run is not in the trash and not purged, unless the run's
\* admission was open while a delete looked for active runs.
TrashedRootHasNoActiveRun ==
  \A r \in Runs : run[r] = "active" /\ root # "active" => r \in raced

\* Whatever requests and deliveries interleave, the root only makes the moves of the
\* deletion state machine: nothing restored is purged and nothing purged comes back.
FollowsStateMachine == [][root' # root => root' \in Allowed[root]]_vars

\* A purge job is carried out or recorded as failed in the end.
PurgeJobEnds ==
  \A j \in 1 .. MaxPurges : Queued(j) ~> ~Queued(j)

\* The trash tells the truth about the object, and what is in it is not in use.
TrashTellsTheRoot == TypeOK /\ DeletedRootIsInTrash /\ TrashedRootHasNoActiveRun
=============================================================================
