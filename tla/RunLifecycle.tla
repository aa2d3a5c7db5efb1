---------------------------- MODULE RunLifecycle ----------------------------
(***************************************************************************)
(* What the run plane promises a client of one run: the lifecycle of a     *)
(* backtest run with its Result, and nothing of jobs, messages, workers or *)
(* sweeps.  A worker may take over a run another worker abandoned, which   *)
(* sends the run back to PROVISIONING; nothing else goes backwards.        *)
(***************************************************************************)
CONSTANTS Runs

VARIABLES state,     \* the run's state
          cancelled, \* a cancellation was requested
          results    \* runs whose Result is materialized

vars == <<state, cancelled, results>>

Init ==
  /\ state = [r \in Runs |-> "absent"]
  /\ cancelled = [r \in Runs |-> FALSE]
  /\ results = {}

Move(r, from, to) ==
  /\ state[r] \in from
  /\ state' = [state EXCEPT ![r] = to]

Admit(r) == Move(r, {"absent"}, "queued") /\ UNCHANGED <<cancelled, results>>

Start(r) ==
  /\ Move(r, {"queued", "provisioning", "running"}, "provisioning")
  /\ UNCHANGED <<cancelled, results>>

Replay(r) == Move(r, {"provisioning"}, "running") /\ UNCHANGED <<cancelled, results>>

\* The Result and the success are one step.
Succeed(r) ==
  /\ Move(r, {"running"}, "succeeded")
  /\ results' = results \cup {r}
  /\ UNCHANGED cancelled

Fail(r) ==
  /\ Move(r, {"provisioning", "running"}, "failed")
  /\ UNCHANGED <<cancelled, results>>

\* A queued run is cancelled at once; a claimed one is only asked to stop.
CancelQueued(r) ==
  /\ Move(r, {"queued"}, "cancelled")
  /\ cancelled' = [cancelled EXCEPT ![r] = TRUE]
  /\ UNCHANGED results

AskToStop(r) ==
  /\ state[r] \in {"provisioning", "running"}
  /\ cancelled' = [cancelled EXCEPT ![r] = TRUE]
  /\ UNCHANGED <<state, results>>

\* Only a run that was asked to stop ends cancelled.
Stop(r) ==
  /\ cancelled[r]
  /\ Move(r, {"provisioning", "running"}, "cancelled")
  /\ UNCHANGED <<cancelled, results>>

Next ==
  \E r \in Runs :
    \/ Admit(r) \/ Start(r) \/ Replay(r) \/ Succeed(r) \/ Fail(r)
    \/ CancelQueued(r) \/ AskToStop(r) \/ Stop(r)

Spec == Init /\ [][Next]_vars
=============================================================================
