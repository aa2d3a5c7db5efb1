---------------------------- MODULE EventDelivery ----------------------------
(***************************************************************************)
(* The two consumers of one outbox, composed: the relay marks rows as      *)
(* published while the stream hands them to the pages.  Neither waits for  *)
(* the other, and both have to cope with the order in which transactions   *)
(* commit.                                                                 *)
(***************************************************************************)
EXTENDS OutboxRelay, EventStream

relayVars == <<batch, published, attempts, lost>>
streamVars == <<hubVars, connVars, pageVars>>

InitDelivery == Init /\ InitStream

\* A step of the stream or of a page leaves the relay alone, and a step of the relay leaves
\* them alone.
Serves == UNCHANGED relayVars
Marks == UNCHANGED streamVars

NextDelivery ==
  \/ Produce /\ UNCHANGED <<relayVars, streamVars>>
  \/ \E r \in Relays : Relay(r) /\ Marks
  \/ \E r \in Relays : CommitPass(r) /\ Marks
  \/ \E r \in Relays : LosePass(r) /\ Marks
  \/ Boot /\ Serves
  \/ PollRead /\ Serves
  \/ Publish /\ Serves
  \/ Restart /\ Serves
  \/ \E c \in Clients : Mount(c) /\ Serves
  \/ \E c \in Clients : Open(c) /\ Serves
  \/ \E c \in Clients, failed \in BOOLEAN : ReadReplay(c, failed) /\ Serves
  \/ \E c \in Clients : YieldReplay(c) /\ Serves
  \/ \E c \in Clients : Take(c) /\ Serves
  \/ \E c \in Clients : Disconnect(c) /\ Serves

\* The fairness of the relay and that of the stream (FairSpec and FairSpecStream).
SpecDelivery ==
  /\ InitDelivery /\ [][NextDelivery]_<<vars, streamVars>>
  /\ \A r \in Relays : WF_vars(Relay(r) \/ CommitPass(r))
  /\ WF_streamVars(Poll)
  /\ \A c \in Clients : WF_streamVars(Stream(c)) /\ WF_streamVars(Open(c))
=============================================================================
