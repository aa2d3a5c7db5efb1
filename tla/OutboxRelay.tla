----------------------------- MODULE OutboxRelay -----------------------------
(***************************************************************************)
(* relay_unpublished: the durable consumer of the outbox.  Each scheduler  *)
(* process runs it as the first statement of its maintenance pass, under   *)
(* row locks that the pass holds until it commits.  Two schedulers overlap *)
(* during a deploy.                                                        *)
(***************************************************************************)
EXTENDS Outbox

CONSTANTS Relays,     \* scheduler processes
          BatchSize,  \* outbox_relay_batch_size
          MaxLost     \* bound: passes that fail before their commit

ASSUME BatchAssumption == BatchSize \in Nat \ {0}
ASSUME LostAssumption == MaxLost \in Nat

VARIABLES batch,     \* rows a relay's open pass has locked and marked
          published, \* rows whose committed published_at is set
          attempts,  \* the committed attempts column
          lost       \* passes lost so far

vars == <<outboxVars, batch, published, attempts, lost>>

Init ==
  /\ InitOutbox
  /\ batch = [r \in Relays |-> {}]
  /\ published = {}
  /\ attempts = [e \in Ids |-> 0]
  /\ lost = 0

Locked == UNION {batch[r] : r \in Relays}

\* Mutation: the query without FOR UPDATE SKIP LOCKED.
RelayUnlocked(r) ==
  /\ batch[r] = {}
  /\ outbox \ published # {}
  /\ batch' = [batch EXCEPT ![r] = FirstN(outbox \ published, BatchSize)]
  /\ UNCHANGED <<outboxVars, published, attempts, lost>>

\* Mutation: the batch is found by a cursor, as the stream's poller finds its own.
RelayByCursor(r) ==
  LET new == {e \in outbox \ Locked : \A p \in published : e > p} IN
  /\ batch[r] = {}
  /\ new # {}
  /\ batch' = [batch EXCEPT ![r] = FirstN(new, BatchSize)]
  /\ UNCHANGED <<outboxVars, published, attempts, lost>>

\* Mark the oldest unpublished rows nobody has locked.
Relay(r) ==
  LET new == (outbox \ published) \ Locked IN
  /\ batch[r] = {}
  /\ new # {}
  /\ batch' = [batch EXCEPT ![r] = FirstN(new, BatchSize)]
  /\ UNCHANGED <<outboxVars, published, attempts, lost>>

\* The pass commits.
CommitPass(r) ==
  /\ batch[r] # {}
  /\ published' = published \cup batch[r]
  /\ attempts' = [e \in Ids |-> IF e \in batch[r] THEN attempts[e] + 1 ELSE attempts[e]]
  /\ batch' = [batch EXCEPT ![r] = {}]
  /\ UNCHANGED <<outboxVars, lost>>

\* A later statement of the pass raises, or the scheduler dies: all of it is undone.
LosePass(r) ==
  /\ batch[r] # {}
  /\ lost < MaxLost
  /\ lost' = lost + 1
  /\ batch' = [batch EXCEPT ![r] = {}]
  /\ UNCHANGED <<outboxVars, published, attempts>>

Next ==
  \/ Produce /\ UNCHANGED <<batch, published, attempts, lost>>
  \/ \E r \in Relays : Relay(r) \/ CommitPass(r) \/ LosePass(r)

Spec == Init /\ [][Next]_vars

\* Every scheduler keeps ticking and a pass that is not lost commits.
FairSpec == Spec /\ \A r \in Relays : WF_vars(Relay(r) \/ CommitPass(r))

-----------------------------------------------------------------------------
\* Every variable keeps its type.
TypeOK ==
  /\ TypeOKOutbox
  /\ batch \in [Relays -> SUBSET Ids]
  /\ published \subseteq outbox
  /\ attempts \in [Ids -> Nat]
  /\ lost \in 0 .. MaxLost

\* Whatever schedulers overlap and whatever passes are undone, a row is published
\* once: "keeps concurrent relays from double-claiming a batch".
PublishedOnce ==
  \A e \in Ids : attempts[e] = (IF e \in published THEN 1 ELSE 0)

\* Every committed row is published, also one whose id is older than rows already
\* published: "nothing is lost; it is late" (docs/runbooks/outbox-lag.md).
OutboxDrains == \A e \in Ids : e \in outbox ~> e \in published
=============================================================================
