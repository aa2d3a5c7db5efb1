----------------------------- MODULE EventStream -----------------------------
(***************************************************************************)
(* The server-sent event stream: the API process's outbox poller and hub,  *)
(* one stream generator per connection, and the browser client that        *)
(* refetches what a frame tells it is stale and resumes with Last-Event-ID.*)
(* It reads the outbox whether or not the relay has published a row.       *)
(*                                                                         *)
(* The poller publishes ids in ascending order, so a mailbox and a replay  *)
(* are sets consumed from their least id.  A frame the server yields and   *)
(* the network loses is a disconnect before the yield.  The heartbeat      *)
(* changes nothing: an overflow leaves the mailbox full, and the next      *)
(* event taken from it announces it.                                       *)
(***************************************************************************)
EXTENDS Outbox

CONSTANTS Clients,
          Buffer,       \* _SUBSCRIBER_BUFFER
          PollLimit,    \* the limit of fetch_events_after
          ReplayLimit,  \* REPLAY_LIMIT
          MaxRestarts   \* bound: restarts of the API process

ASSUME LimitsAssumption ==
  Buffer \in Nat /\ PollLimit \in Nat /\ ReplayLimit \in Nat /\ MaxRestarts \in Nat

VARIABLES booted, cursor, \* the poller's; cursor 0 is None
          fetched,        \* rows the poller has read and not published
          restarts,       \* restarts so far
          conn,           \* a page is new, off (not connected), resuming (its
                          \* replay is not read yet) or streaming
          opened,         \* hasOpened: some connection of the page succeeded
          lastId,         \* lastEventId; 0 is null
          box, overflow,  \* the subscriber's mailbox and flag
          replay,         \* rows the replay read and has not yielded
          through,        \* replayed_through; 0 is None
          covered,        \* events the page's cached queries reflect
          base            \* history: where the poller was when the page first connected,
                          \* or the process started under the page; 0 once it refreshes

hubVars == <<booted, cursor, fetched, restarts>>
connVars == <<conn, box, overflow, replay, through>>
pageVars == <<opened, lastId, covered, base>>
eventStreamVars == <<outboxVars, hubVars, connVars, pageVars>>

InitStream ==
  /\ InitOutbox
  /\ booted = FALSE /\ cursor = 0 /\ fetched = {} /\ restarts = 0
  /\ conn = [c \in Clients |-> "new"]
  /\ opened = [c \in Clients |-> FALSE]
  /\ lastId = [c \in Clients |-> 0]
  /\ box = [c \in Clients |-> {}]
  /\ overflow = [c \in Clients |-> FALSE]
  /\ replay = [c \in Clients |-> {}]
  /\ through = [c \in Clients |-> 0]
  /\ covered = [c \in Clients |-> {}]
  /\ base = [c \in Clients |-> 0]

Connected(c) == conn[c] \in {"resuming", "streaming"}

\* fetch_events_after: whatever is committed now, published or not.
FetchAfter(id, limit) == FirstN({e \in outbox : e > id}, limit)

-----------------------------------------------------------------------------
(* The poller *)

\* latest_event_id: a fresh process starts at the tail.
Boot ==
  /\ ~booted
  /\ booted' = TRUE
  /\ cursor' = Max(outbox \cup {0})
  /\ base' = [c \in Clients |-> IF Connected(c) THEN cursor' ELSE base[c]]
  /\ UNCHANGED <<outboxVars, fetched, restarts, connVars, opened, lastId, covered>>

PollRead ==
  /\ booted
  /\ fetched = {}
  /\ fetched' = FetchAfter(cursor, PollLimit)
  /\ UNCHANGED <<outboxVars, booted, cursor, restarts, connVars, pageVars>>

\* What fits in the mailbox of c.
Fits(c) == FirstN(fetched, Buffer - Cardinality(box[c]))

\* Mutation: put_nowait's QueueFull is swallowed.
PublishSilently ==
  /\ fetched # {}
  /\ cursor' = Max(fetched)
  /\ fetched' = {}
  /\ box' = [c \in Clients |-> IF Connected(c) THEN box[c] \cup Fits(c) ELSE box[c]]
  /\ UNCHANGED <<outboxVars, booted, restarts, conn, overflow, replay, through, pageVars>>

\* SseHub.publish of every event read, to every subscriber, without an await.
Publish ==
  /\ fetched # {}
  /\ cursor' = Max(fetched)
  /\ fetched' = {}
  /\ box' = [c \in Clients |-> IF Connected(c) THEN box[c] \cup Fits(c) ELSE box[c]]
  /\ overflow' = [c \in Clients |-> overflow[c] \/ (Connected(c) /\ Fits(c) # fetched)]
  /\ UNCHANGED <<outboxVars, booted, restarts, conn, replay, through, pageVars>>

-----------------------------------------------------------------------------
(* The page and its stream *)

\* The page mounts: its queries are fetched and it starts to connect.
Mount(c) ==
  /\ conn[c] = "new"
  /\ conn' = [conn EXCEPT ![c] = "off"]
  /\ covered' = [covered EXCEPT ![c] = outbox]
  /\ UNCHANGED <<outboxVars, hubVars, box, overflow, replay, through, opened, lastId, base>>

\* Mutation: a reopened page trusts the replay alone.
OpenWithoutRefresh(c) ==
  /\ conn[c] = "off"
  /\ conn' = [conn EXCEPT ![c] = IF lastId[c] = 0 THEN "streaming" ELSE "resuming"]
  /\ opened' = [opened EXCEPT ![c] = TRUE]
  /\ base' = [base EXCEPT ![c] = IF opened[c] THEN 0 ELSE cursor]
  /\ UNCHANGED <<outboxVars, hubVars, box, overflow, replay, through, lastId, covered>>

\* The handshake succeeds and the generator subscribes; a page that was open
\* before refetches everything.
Open(c) ==
  /\ conn[c] = "off"
  /\ conn' = [conn EXCEPT ![c] = IF lastId[c] = 0 THEN "streaming" ELSE "resuming"]
  /\ opened' = [opened EXCEPT ![c] = TRUE]
  /\ covered' = [covered EXCEPT ![c] = IF opened[c] THEN outbox ELSE @]
  /\ base' = [base EXCEPT ![c] = IF opened[c] THEN 0 ELSE cursor]
  /\ UNCHANGED <<outboxVars, hubVars, box, overflow, replay, through, lastId>>

\* replay_after: the missed rows, or a resync when there are too many of them
\* or the read failed.
ReadReplay(c, failed) ==
  LET missed == FetchAfter(lastId[c], ReplayLimit + 1) IN
  /\ conn[c] = "resuming"
  /\ conn' = [conn EXCEPT ![c] = "streaming"]
  /\ IF failed \/ Cardinality(missed) > ReplayLimit
     THEN /\ covered' = [covered EXCEPT ![c] = outbox]
          /\ base' = [base EXCEPT ![c] = 0]
          /\ UNCHANGED <<replay, through>>
     ELSE /\ replay' = [replay EXCEPT ![c] = missed]
          /\ through' = [through EXCEPT ![c] = Max(missed \cup {0})]
          /\ UNCHANGED <<covered, base>>
  /\ UNCHANGED <<outboxVars, hubVars, box, overflow, opened, lastId>>

\* The next frame of the replay.
YieldReplay(c) ==
  LET e == Min(replay[c]) IN
  /\ replay[c] # {}
  /\ replay' = [replay EXCEPT ![c] = @ \ {e}]
  /\ lastId' = [lastId EXCEPT ![c] = e]
  /\ covered' = [covered EXCEPT ![c] = @ \cup {e}]
  /\ UNCHANGED <<outboxVars, hubVars, conn, box, overflow, through, opened, base>>

\* Mutation: the overlap with the replay is not removed.
TakeAgain(c) ==
  LET e == Min(box[c]) IN
  /\ conn[c] = "streaming" /\ replay[c] = {}
  /\ box[c] # {}
  /\ box' = [box EXCEPT ![c] = @ \ {e}]
  /\ overflow' = [overflow EXCEPT ![c] = FALSE]
  /\ lastId' = [lastId EXCEPT ![c] = e]
  /\ covered' = [covered EXCEPT ![c] = (IF overflow[c] THEN outbox ELSE @) \cup {e}]
  /\ base' = [base EXCEPT ![c] = IF overflow[c] THEN 0 ELSE @]
  /\ UNCHANGED <<outboxVars, hubVars, conn, replay, through, opened>>

\* The next event of the mailbox: an overflow is announced by a resync first, an
\* event the replay handed over is skipped, any other is a frame.
Take(c) ==
  LET e == Min(box[c])
      known == IF overflow[c] THEN outbox ELSE covered[c] IN
  /\ conn[c] = "streaming" /\ replay[c] = {}
  /\ box[c] # {}
  /\ box' = [box EXCEPT ![c] = @ \ {e}]
  /\ overflow' = [overflow EXCEPT ![c] = FALSE]
  /\ IF e <= through[c]
     THEN UNCHANGED lastId /\ covered' = [covered EXCEPT ![c] = known]
     ELSE /\ lastId' = [lastId EXCEPT ![c] = e]
          /\ covered' = [covered EXCEPT ![c] = known \cup {e}]
  /\ base' = [base EXCEPT ![c] = IF overflow[c] THEN 0 ELSE @]
  /\ UNCHANGED <<outboxVars, hubVars, conn, replay, through, opened>>

\* The connection drops, or the page is hidden: the generator unsubscribes.
Disconnect(c) ==
  /\ Connected(c)
  /\ conn' = [conn EXCEPT ![c] = "off"]
  /\ box' = [box EXCEPT ![c] = {}]
  /\ overflow' = [overflow EXCEPT ![c] = FALSE]
  /\ replay' = [replay EXCEPT ![c] = {}]
  /\ through' = [through EXCEPT ![c] = 0]
  /\ UNCHANGED <<outboxVars, hubVars, pageVars>>

\* The API process restarts: the hub, its subscribers and the cursor are gone.
Restart ==
  /\ booted
  /\ restarts < MaxRestarts
  /\ restarts' = restarts + 1
  /\ booted' = FALSE /\ cursor' = 0 /\ fetched' = {}
  /\ conn' = [c \in Clients |-> IF conn[c] = "new" THEN "new" ELSE "off"]
  /\ box' = [c \in Clients |-> {}]
  /\ overflow' = [c \in Clients |-> FALSE]
  /\ replay' = [c \in Clients |-> {}]
  /\ through' = [c \in Clients |-> 0]
  /\ UNCHANGED <<outboxVars, pageVars>>

-----------------------------------------------------------------------------
Poll == Boot \/ PollRead \/ Publish

Stream(c) ==
  \/ YieldReplay(c) \/ Take(c)
  \/ \E failed \in BOOLEAN : ReadReplay(c, failed)

NextStream ==
  \/ Produce /\ UNCHANGED <<hubVars, connVars, pageVars>>
  \/ Poll
  \/ Restart
  \/ \E c \in Clients : Mount(c) \/ Open(c) \/ Stream(c) \/ Disconnect(c)

SpecStream == InitStream /\ [][NextStream]_eventStreamVars

\* The poller ticks, a stream serves what it holds, and a page reconnects with a
\* capped backoff; the API process restarts finitely often.
FairSpecStream ==
  /\ SpecStream
  /\ WF_eventStreamVars(Poll)
  /\ \A c \in Clients : WF_eventStreamVars(Stream(c)) /\ WF_eventStreamVars(Open(c))

-----------------------------------------------------------------------------
\* Every variable keeps its type, and nothing is kept for a page without a stream.
TypeOKStream ==
  /\ TypeOKOutbox
  /\ booted \in BOOLEAN /\ cursor \in 0 .. MaxEvents /\ fetched \subseteq outbox
  /\ restarts \in 0 .. MaxRestarts
  /\ conn \in [Clients -> {"new", "off", "resuming", "streaming"}]
  /\ opened \in [Clients -> BOOLEAN]
  /\ lastId \in [Clients -> 0 .. MaxEvents]
  /\ box \in [Clients -> SUBSET outbox]
  /\ overflow \in [Clients -> BOOLEAN]
  /\ replay \in [Clients -> SUBSET outbox]
  /\ through \in [Clients -> 0 .. MaxEvents]
  /\ covered \in [Clients -> SUBSET outbox]
  /\ base \in [Clients -> 0 .. MaxEvents]
  /\ \A c \in Clients :
       /\ Cardinality(box[c]) <= Buffer
       /\ ~Connected(c) => box[c] = {} /\ replay[c] = {} /\ ~overflow[c] /\ through[c] = 0

\* The stream of c has not dealt with e yet: the poller is still to publish it, it
\* is in the mailbox or the replay, or an announcement that covers it is due.
OnItsWay(c, e) ==
  \/ e > cursor /\ e > through[c]
  \/ e \in box[c] /\ e > through[c]
  \/ e \in replay[c]
  \/ conn[c] = "resuming" /\ e > lastId[c]
  \/ overflow[c]

\* Every event a connected page does not reflect is on its way to it: "loss is ...
\* ANNOUNCED, never silent" (sse.py).  Two cases apart: the event was published
\* before the page first connected (or the process started under its connection),
\* or it was committed after an event with a later id.
NoSilentLoss ==
  \A c \in Clients : Connected(c) =>
    \A e \in outbox \ (covered[c] \cup late) : e <= base[c] \/ OnItsWay(c, e)

\* A stream that replayed something never goes back: no event it handed over is
\* delivered again by the live feed.
ReplayThenLiveAscends ==
  [][\A c \in Clients :
       through[c] # 0 /\ lastId'[c] # lastId[c] => lastId'[c] > lastId[c]]_eventStreamVars

\* Every event committed in the order of its id reaches every mounted page, through
\* whatever restarts, disconnections, overflows and failed replays.
EventReachesPage ==
  \A c \in Clients, e \in Ids :
    e \in outbox \ late /\ conn[c] # "new" ~> e \in covered[c] \/ e <= base[c]

\* The state keeps its shape, and what a connected page has missed is on its way.
LossIsAnnounced == TypeOKStream /\ NoSilentLoss
=============================================================================
