----------------------------- MODULE Mainboard -----------------------------
(***************************************************************************)
(* The items of a mainboard workspace and its stored fingerprint, under    *)
(* concurrent requests.                                                    *)
(*                                                                         *)
(* A request is a transaction of several steps: what it reads, and when,   *)
(* is an action of its own wherever another commit may come between.  Row  *)
(* locks are those of the code: a patch locks its item, then (to pin) the  *)
(* root, then the workspace; a delete locks the root, then the workspace;  *)
(* an attach the workspace only; a Ready Check nothing at all.             *)
(*                                                                         *)
(* A fingerprint (composition_hash) is the bag of the pinned revisions of  *)
(* the enabled items whose root is active, as a function to their counts.  *)
(***************************************************************************)
EXTENDS Integers, FiniteSets, Sequences

CONSTANTS Items,       \* ids of mainboard items
          Roots,       \* work objects
          Requests,    \* requests that may be open at the same time
          None,        \* no holder of a lock
          MaxHead,     \* bound: revisions of a work object
          MaxVersion,  \* bound: row version of an item
          MaxReports,  \* bound: Ready Checks
          MaxChanges   \* bound: objects deleted or restored elsewhere

ASSUME MainboardBoundsAssumption ==
  /\ MaxHead \in Nat \ {0} /\ MaxVersion \in Nat \ {0}
  /\ MaxReports \in Nat /\ MaxChanges \in Nat
  /\ None \notin Requests /\ IsFiniteSet(Items)

VARIABLES root,      \* work objects: active or deleted
          head,      \* work objects: number of the last revision
          changes,   \* deletions and restores made elsewhere so far
          item,      \* mainboard_working_items
          stored,    \* mainboard_workspaces.composition_hash
          reports,   \* Ready Checks: the fingerprint each has read, whether it is stored
          latest,    \* the newest of the stored reports, 0 if there is none
          itemLock, rootLock, wsLock, \* holders of the row locks
          req,       \* what each request has read and is about to do
          missed     \* history: items attached and roots changed since the last recompute

objects == <<root, head, changes>>
evidence == <<reports, latest>>
locks == <<itemLock, rootLock, wsLock>>
vars == <<objects, item, stored, evidence, locks, req, missed>>

Members == Roots \X (1 .. MaxHead)
Nothing == [m \in Members |-> 0]
NoItem == [attached |-> FALSE]
Attached(i) == item[i].attached
Member(i) == <<item[i].root, item[i].pin>>
Done == [op |-> "none"]

-----------------------------------------------------------------------------
(* Fingerprints *)

\* composition_hash over the items S
Fingerprint(S) ==
  [m \in Members |-> Cardinality({i \in S : Member(i) = m})]

EnabledItems == {i \in Items : Attached(i) /\ item[i].enabled}

\* list_active_items drops the items whose root is not active.
Available(S) == {i \in S : root[item[i].root] = "active"}

Live == Fingerprint(Available(EnabledItems))

-----------------------------------------------------------------------------
(* Work objects *)

Set(q, r) == req' = [req EXCEPT ![q] = r]
Is(q, op, pc) == req[q].op = op /\ req[q].pc = pc

\* The request has computed a fingerprint; it has also looked for the latest report.
Hashed(q) == req[q].op \in {"attach", "patch", "delete"} /\ req[q].pc \in {"hashed", "looked"}
Looked(q) == req[q].op \in {"attach", "patch", "delete"} /\ req[q].pc = "looked"

\* The root changes under the requests that have computed a fingerprint.
RootChanges(x) ==
  req' = [q \in Requests |->
            IF Hashed(q) THEN [req[q] EXCEPT !.after = @ \cup {x}]
            ELSE req[q]]

\* create_work_object_revision: no item is re-pinned.
AppendRevision(r) ==
  /\ rootLock[r] = None
  /\ root[r] = "active" /\ head[r] < MaxHead
  /\ head' = [head EXCEPT ![r] = @ + 1]
  /\ UNCHANGED <<root, changes, item, stored, evidence, locks, req, missed>>

\* The generic delete of /entities and the restore of /trash touch no workspace.
DeleteOrRestoreElsewhere(r) ==
  /\ rootLock[r] = None /\ changes < MaxChanges
  /\ changes' = changes + 1
  /\ root' = [root EXCEPT ![r] = IF @ = "active" THEN "deleted" ELSE "active"]
  /\ missed' = missed \cup {r}
  /\ RootChanges(r)
  /\ UNCHANGED <<head, item, stored, evidence, locks>>

-----------------------------------------------------------------------------
(* Items of the mainboard *)

\* attach_mainboard_item checks the root without locking it.
AttachOpen(q, i, r, v) ==
  /\ req[q] = Done
  /\ ~Attached(i) /\ \A p \in Requests : req[p].op = "attach" => req[p].item # i
  /\ root[r] = "active" /\ v \in 1 .. head[r]
  /\ Set(q, [op |-> "attach", pc |-> "checked", item |-> i, root |-> r, pin |-> v,
             hash |-> Nothing, after |-> {}, event |-> 0, late |-> FALSE])
  /\ UNCHANGED <<objects, item, stored, evidence, locks, missed>>

\* The client reads the item and sends a patch with the version it has seen.
PatchOpen(q, i) ==
  /\ req[q] = Done
  /\ Attached(i) /\ item[i].version < MaxVersion
  /\ Set(q, [op |-> "patch", pc |-> "seen", item |-> i, version |-> item[i].version,
             intent |-> [kind |-> "none"], hash |-> Nothing, after |-> {}, event |-> 0, late |-> FALSE])
  /\ UNCHANGED <<objects, item, stored, evidence, locks, missed>>

\* patch_mainboard_item locks the item and compares the version: 409 when it moved.
PatchLock(q, intent) ==
  LET i == req[q].item IN
  /\ Is(q, "patch", "seen") /\ itemLock[i] = None
  /\ IF item[i].version = req[q].version
     THEN /\ itemLock' = [itemLock EXCEPT ![i] = q]
          /\ Set(q, [req[q] EXCEPT !.pc = IF intent.kind = "pin" THEN "locked" ELSE "ready",
                                   !.intent = intent])
     ELSE Set(q, Done) /\ UNCHANGED itemLock
  /\ UNCHANGED <<objects, item, stored, evidence, rootLock, wsLock, missed>>

\* _apply_pin locks the root before it looks at its state; a deleted one is refused.
PinRoot(q) ==
  LET i == req[q].item IN LET r == item[i].root IN
  /\ Is(q, "patch", "locked") /\ rootLock[r] = None
  /\ IF root[r] = "active"
     THEN /\ rootLock' = [rootLock EXCEPT ![r] = q]
          /\ Set(q, [req[q] EXCEPT !.pc = "ready"])
          /\ UNCHANGED itemLock
     ELSE /\ Set(q, Done)
          /\ itemLock' = [itemLock EXCEPT ![i] = None]
          /\ UNCHANGED rootLock
  /\ UNCHANGED <<objects, item, stored, evidence, wsLock, missed>>

\* The item as the request q leaves it.
Patched(q) ==
  LET old == item[req[q].item] intent == req[q].intent IN
  [old EXCEPT !.version = @ + 1,
              !.enabled = IF intent.kind = "enable" THEN intent.on ELSE @,
              !.pin = IF intent.kind = "pin" THEN intent.rev ELSE @]

\* reorder and set_label leave the fingerprint alone.
LabelCommit(q) ==
  LET i == req[q].item IN
  /\ Is(q, "patch", "ready") /\ req[q].intent.kind = "label"
  /\ item' = [item EXCEPT ![i] = Patched(q)]
  /\ itemLock' = [itemLock EXCEPT ![i] = None]
  /\ Set(q, Done)
  /\ UNCHANGED <<objects, stored, evidence, rootLock, wsLock, missed>>

-----------------------------------------------------------------------------
(* The stored fingerprint *)

\* The transaction of a patch sees its own change of the item.
LiveWith(q) ==
  LET i == req[q].item
      others == Fingerprint(Available(EnabledItems \ {i}))
      mine == Patched(q) IN
  IF mine.enabled /\ root[mine.root] = "active"
  THEN [others EXCEPT ![<<mine.root, mine.pin>>] = @ + 1]
  ELSE others

\* What list_active_items returns inside the transaction of q: an attach has not
\* flushed its item, a delete has flushed the root's state.
SeenBy(q) ==
  CASE req[q].op = "attach" -> Live
    [] req[q].op = "patch"  -> LiveWith(q)
    [] req[q].op = "delete" ->
         Fingerprint({i \in Available(EnabledItems) : item[i].root # req[q].root})

Recomputes(q) ==
  \/ Is(q, "attach", "checked")
  \/ Is(q, "patch", "ready") /\ req[q].intent.kind # "label"
  \/ Is(q, "delete", "checked")

\* Mutation: the fingerprint is computed before the workspace row is locked.
RecomputeUnlocked(q) ==
  /\ Recomputes(q)
  /\ Set(q, [req[q] EXCEPT !.pc = IF SeenBy(q) = stored THEN "looked" ELSE "hashed",
                           !.hash = SeenBy(q)])
  /\ UNCHANGED <<objects, item, stored, evidence, locks, missed>>

\* _recompute_composition_hash locks the workspace row, then reads the items; a
\* fingerprint that stays as it is makes no report stale.
Recompute(q) ==
  /\ Recomputes(q) /\ wsLock = None
  /\ wsLock' = q
  /\ Set(q, [req[q] EXCEPT !.pc = IF SeenBy(q) = stored THEN "looked" ELSE "hashed",
                           !.hash = SeenBy(q)])
  /\ UNCHANGED <<objects, item, stored, evidence, itemLock, rootLock, missed>>

\* The report that readiness.became_stale names, 0 if the mutation sends none.
Named == IF latest # 0 /\ reports[latest].fp = stored THEN latest ELSE 0

\* Mutation: the latest report is named though it was stale before.
ReadLatestAny(q) ==
  /\ Hashed(q) /\ ~Looked(q)
  /\ Set(q, [req[q] EXCEPT !.pc = "looked", !.event = latest])
  /\ UNCHANGED <<objects, item, stored, evidence, locks, missed>>

\* _emit_readiness_became_stale reads the latest report, which no lock protects, and writes
\* the event, which the commit of q sends.
ReadLatest(q) ==
  /\ Hashed(q) /\ ~Looked(q)
  /\ Set(q, [req[q] EXCEPT !.pc = "looked", !.event = Named])
  /\ UNCHANGED <<objects, item, stored, evidence, locks, missed>>

\* The row locks of q end with its transaction.
Released(lock, q) == [x \in DOMAIN lock |-> IF lock[x] = q THEN None ELSE lock[x]]

\* The transaction of q commits what it computed and its own change.
StoreHash(q) ==
  /\ stored' = req[q].hash
  /\ missed' = req[q].after \cup (IF req[q].op = "attach" THEN {req[q].item} ELSE {})
  /\ wsLock' = IF wsLock = q THEN None ELSE wsLock
  /\ itemLock' = Released(itemLock, q)
  /\ rootLock' = Released(rootLock, q)

AttachCommit(q) ==
  /\ Is(q, "attach", "looked")
  /\ item' = [item EXCEPT ![req[q].item] =
                [attached |-> TRUE, root |-> req[q].root, pin |-> req[q].pin,
                 enabled |-> TRUE, version |-> 1]]
  /\ StoreHash(q) /\ Set(q, Done)
  /\ UNCHANGED <<objects, evidence>>

PatchCommit(q) ==
  /\ Is(q, "patch", "looked")
  /\ item' = [item EXCEPT ![req[q].item] = Patched(q)]
  /\ StoreHash(q) /\ Set(q, Done)
  /\ UNCHANGED <<objects, evidence>>

\* soft_delete_work_object locks the root; one that is deleted is left alone, and one
\* no item holds is deleted as elsewhere.
DeleteOpen(q, r) ==
  /\ req[q] = Done
  /\ rootLock[r] = None /\ root[r] = "active"
  /\ \E i \in Items : Attached(i) /\ item[i].root = r
  /\ rootLock' = [rootLock EXCEPT ![r] = q]
  /\ Set(q, [op |-> "delete", pc |-> "checked", root |-> r, hash |-> Nothing, after |-> {}, event |-> 0, late |-> FALSE])
  /\ UNCHANGED <<objects, item, stored, evidence, itemLock, wsLock, missed>>

\* The delete commits the root's state with the fingerprint that goes without it.
DeleteCommit(q) ==
  /\ Is(q, "delete", "looked")
  /\ root' = [root EXCEPT ![req[q].root] = "deleted"]
  /\ StoreHash(q)
  /\ Set(q, Done)
  /\ UNCHANGED <<head, changes, item, evidence>>

-----------------------------------------------------------------------------
(* Ready Checks *)

\* A Ready Check reads the items.
CheckRead ==
  /\ Len(reports) < MaxReports
  /\ reports' = Append(reports, [fp |-> Live, stored |-> FALSE])
  /\ UNCHANGED <<objects, item, stored, latest, locks, req, missed>>

\* It commits its report later.  The newest report is the one whose transaction began last,
\* which need not be the one that commits last.
CheckCommit(n) ==
  /\ ~reports[n].stored
  /\ reports' = [reports EXCEPT ![n].stored = TRUE]
  /\ latest' \in {n} \cup ({latest} \ {0})
  /\ req' = [q \in Requests |-> IF Looked(q) /\ latest' # latest THEN [req[q] EXCEPT !.late = TRUE]
                                ELSE req[q]]
  /\ UNCHANGED <<objects, item, stored, locks, missed>>

-----------------------------------------------------------------------------
Init ==
  /\ root = [r \in Roots |-> "active"] /\ head = [r \in Roots |-> 1] /\ changes = 0
  /\ item = [i \in Items |-> NoItem] /\ stored = Nothing
  /\ reports = <<>> /\ latest = 0
  /\ itemLock = [i \in Items |-> None] /\ rootLock = [r \in Roots |-> None] /\ wsLock = None
  /\ req = [q \in Requests |-> Done] /\ missed = {}

Intents ==
  [kind : {"enable"}, on : BOOLEAN] \cup [kind : {"pin"}, rev : 1 .. MaxHead] \cup [kind : {"label"}]

\* A pin names a revision the root has.
Pinnable(q, intent) ==
  intent.kind = "pin" => intent.rev <= head[item[req[q].item].root]

Request(q) ==
  \/ \E i \in Items, r \in Roots, v \in 1 .. MaxHead : AttachOpen(q, i, r, v)
  \/ \E i \in Items : PatchOpen(q, i)
  \/ \E intent \in Intents :
       req[q].op = "patch" /\ Pinnable(q, intent) /\ PatchLock(q, intent)
  \/ PinRoot(q) \/ LabelCommit(q)
  \/ \E r \in Roots : DeleteOpen(q, r)
  \/ Recompute(q) \/ ReadLatest(q) \/ AttachCommit(q) \/ PatchCommit(q) \/ DeleteCommit(q)

Next ==
  \/ \E r \in Roots : AppendRevision(r) \/ DeleteOrRestoreElsewhere(r)
  \/ CheckRead \/ \E n \in 1 .. Len(reports) : CheckCommit(n)
  \/ \E q \in Requests : Request(q)

Spec == Init /\ [][Next]_vars

-----------------------------------------------------------------------------
(* Properties *)

Idle(q) == req[q] = Done
Pcs == {"seen", "checked", "locked", "ready", "hashed", "looked"}
Fingerprints == [Members -> 0 .. Cardinality(Items)]

\* Every variable keeps its type.
TypeOK ==
  /\ root \in [Roots -> {"active", "deleted"}] /\ head \in [Roots -> 1 .. MaxHead]
  /\ changes \in 0 .. MaxChanges
  /\ item \in [Items -> {NoItem} \cup
                 [attached : {TRUE}, root : Roots, pin : 1 .. MaxHead, enabled : BOOLEAN,
                  version : 1 .. MaxVersion]]
  /\ \A i \in Items : Attached(i) => item[i].pin <= head[item[i].root]
  /\ stored \in Fingerprints
  /\ reports \in Seq([fp : Fingerprints, stored : BOOLEAN])
  /\ latest \in 0 .. Len(reports) /\ (latest # 0 => reports[latest].stored)
  /\ itemLock \in [Items -> Requests \cup {None}]
  /\ rootLock \in [Roots -> Requests \cup {None}]
  /\ wsLock \in Requests \cup {None}
  /\ \A q \in Requests : \/ Idle(q)
                         \/ /\ req[q].pc \in Pcs /\ req[q].hash \in Fingerprints
                            /\ req[q].event \in 0 .. Len(reports)
  /\ missed \subseteq Items \cup Roots

\* No update of the cached fingerprint is lost: whatever requests interleave, it
\* accounts for every change but the items attached and the objects deleted or restored
\* elsewhere since the last recompute.
FingerprintAccountsForChanges == missed = {} => stored = Live

\* _apply_pin: no delete comes between the check of the root and the commit of the pin.
PinsOnlyActiveRoots ==
  [][\A i \in Items : Attached(i) /\ item'[i].pin # item[i].pin
                       => root[item[i].root] = "active"]_vars

\* A patch changes the item its client has seen: none overwrites another's patch.
NoLostPatch ==
  [][\A i \in Items : Attached(i) /\ item'[i] # item[i]
       => \E q \in Requests : req[q].op = "patch" /\ req[q].item = i
                              /\ req[q].version = item[i].version]_vars

\* The transaction of q commits, and with it the event it has written.
Commits(q) == Looked(q) /\ req'[q] = Done

\* readiness.became_stale names a report that is no longer about what is live, whatever
\* Ready Checks and changes overlap, unless an object was deleted or restored elsewhere
\* while the change was under way.
AnnouncedIsStale ==
  [][\A q \in Requests : Commits(q) /\ req[q].event # 0
       => reports[req[q].event].fp # Live' \/ missed' \cap Roots # {}]_vars

\* What the page shows as current does not go stale in silence: the change that makes it
\* stale names it, unless it was stored after the change had looked for the latest report,
\* or items were attached or objects deleted or restored elsewhere about this change.
StaleIsAnnounced ==
  [][latest # 0 /\ reports[latest].fp = Live /\ Live' # Live /\ missed = {} /\ missed' = {}
       => \E q \in Requests : Commits(q) /\ (req[q].event = latest \/ req[q].late)]_vars

\* The cached fingerprint and what is said of reports keep up with concurrent changes.
FingerprintIsKept == TypeOK /\ FingerprintAccountsForChanges

\* Requests that change items, pins and reports never act on what another has replaced.
NothingIsOverwritten ==
  PinsOnlyActiveRoots /\ NoLostPatch /\ AnnouncedIsStale /\ StaleIsAnnounced
=============================================================================
