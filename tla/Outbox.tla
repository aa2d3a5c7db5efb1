------------------------------- MODULE Outbox -------------------------------
(***************************************************************************)
(* The producer side of the transactional outbox.  A domain transaction    *)
(* mints the event's id when it adds the row (a ULID: the clock first) and *)
(* the row becomes visible when the transaction commits, which may be      *)
(* after the commit of a transaction that minted a later id.               *)
(***************************************************************************)
EXTENDS Integers, FiniteSetsExt

CONSTANT MaxEvents  \* bound: ids ever minted

ASSUME EventsAssumption == MaxEvents \in Nat

VARIABLES minted,  \* the latest id minted
          open,    \* ids of transactions that have not ended
          outbox,  \* committed outbox_events rows
          late     \* history: rows that were committed after a row with a later id

outboxVars == <<minted, open, outbox, late>>

Ids == 1 .. MaxEvents

InitOutbox == minted = 0 /\ open = {} /\ outbox = {} /\ late = {}

\* add_outbox_event, inside the transaction of its domain mutation.
Mint ==
  /\ minted < MaxEvents
  /\ minted' = minted + 1
  /\ open' = open \cup {minted + 1}
  /\ UNCHANGED <<outbox, late>>

\* The transaction commits: a request below 400, or an actor's body.
Commit(e) ==
  /\ e \in open
  /\ open' = open \ {e}
  /\ outbox' = outbox \cup {e}
  /\ late' = IF \E f \in outbox : f > e THEN late \cup {e} ELSE late
  /\ UNCHANGED minted

\* The transaction rolls back, and its event with it.
Rollback(e) ==
  /\ e \in open
  /\ open' = open \ {e}
  /\ UNCHANGED <<minted, outbox, late>>

Produce == Mint \/ \E e \in Ids : Commit(e) \/ Rollback(e)

\* ORDER BY id LIMIT n.
FirstN(S, n) == {e \in S : Cardinality({f \in S : f < e}) < n}

TypeOKOutbox ==
  /\ minted \in 0 .. MaxEvents
  /\ open \subseteq 1 .. minted
  /\ outbox \subseteq (1 .. minted) \ open
  /\ late \subseteq outbox
=============================================================================
