---------------------------- MODULE Administration ----------------------------
(***************************************************************************)
(* Accounts and who administers them: sign-up with the operator's          *)
(* bootstrap address, the two commands that change a role, and the         *)
(* re-authentication proof a sensitive action consumes, under the          *)
(* idempotency keys of their clients.                                      *)
(*                                                                         *)
(* Each request is one READ COMMITTED transaction.  assign_user_role locks *)
(* the row of the account first and the count of administrators second;    *)
(* change_user_role decides on an unlocked copy, counts, and locks the row *)
(* only when it writes.  PostgreSQL rolls one of two transactions back     *)
(* when each waits for the other.                                          *)
(***************************************************************************)
EXTENDS Integers, FiniteSets

CONSTANTS Users,      \* accounts, existing or to be signed up
          Seeded,     \* accounts that may exist from the start
          Bootstrap,  \* accounts whose sign-up carries the bootstrap address
          Reqs,       \* requests of clients
          Keys,       \* idempotency keys clients send
          NoKey,      \* a request without one
          Wanted,     \* roles requests ask for
          MaxVersion  \* bound: role changes of an account

\* A role a request may ask for is one an account can have.
ASSUME WantedAssumption == "absent" \notin Wanted

VARIABLES mode,        \* auth_mode of the deployment
          users,       \* human_users: role, version, and whether a credential exists
          req,         \* the requests and what each has read and locked
          keyed,       \* idempotency_keys: the fingerprint a completed key was stored with
          proofUsed,   \* used_at of the one reauth proof its holder has been given
          overwritten  \* history: whether a role was written over a row nobody had read

vars == <<mode, users, req, keyed, proofUsed, overwritten>>

Absent == [role |-> "absent", version |-> 0, credential |-> FALSE]

\* An account of earlier days: a legacy row nobody logs in as, or one that signed up.
Earlier ==
  {[role |-> "admin", version |-> 1, credential |-> FALSE]}
    \cup [role : {"admin", "user"}, version : {1}, credential : {TRUE}]

Idle == [op |-> "none", user |-> "none", want |-> "none", key |-> NoKey, role |-> "absent", version |-> 0,
         pc |-> "idle"]

\* A key never stored.
Unused == <<>>

Init ==
  /\ mode \in {"session", "dev"}
  /\ users \in [Users -> Earlier \cup {Absent}]
  /\ \A u \in Users : users[u] \in Earlier => u \in Seeded
  /\ req = [r \in Reqs |-> Idle]
  /\ keyed = [k \in Keys |-> Unused]
  /\ proofUsed = FALSE /\ overwritten = FALSE

-----------------------------------------------------------------------------
(* Helpers *)

\* count_operational_admins: in session mode only who can log in counts.
Admins == {u \in Users : users[u].role = "admin" /\ (mode = "session" => users[u].credential)}

Exists(u) == users[u].role # "absent"

\* Requests that have read their row and are under way.
Open(r) == req[r].pc \in {"begun", "locked", "counted", "ready"}

RowHeld(u) == \E r \in Reqs : req[r].op = "assign" /\ req[r].user = u /\ req[r].pc \in {"locked", "counted", "ready"}
CountHeld == \E r \in Reqs : req[r].pc = "counted"
ProofHeld == \E r \in Reqs : req[r].op = "prove" /\ req[r].pc = "locked"

\* request_fingerprint: what a second use of the key is compared with.
Fingerprint(q) == <<q.op, q.user, q.want, IF q.op = "assign" THEN q.version ELSE 0>>

KeyTaken(q) == q.key # NoKey /\ keyed[q.key] # Unused

\* What run_idempotent answers a request whose key is in the table.
FromKey(q) == IF keyed[q.key] = Fingerprint(q) THEN "replayed" ELSE "refused"

\* complete_key
Store(q) == keyed' = IF q.key = NoKey THEN keyed ELSE [keyed EXCEPT ![q.key] = Fingerprint(q)]

To(r, pc) == req' = [req EXCEPT ![r].pc = pc]

Answer(r, pc) == To(r, pc) /\ UNCHANGED <<mode, users, keyed, proofUsed, overwritten>>

-----------------------------------------------------------------------------
(* Requests arrive *)

Asked(op, u, want, k) ==
  [op |-> op, user |-> u, want |-> want, key |-> k, role |-> users[u].role,
   version |-> users[u].version, pc |-> "begun"]

\* Only change_user_role decides on its copy before it looks at the key.
Arrive(r, q) ==
  /\ req' = [req EXCEPT ![r] = IF q.op # "change" /\ KeyTaken(q) THEN [q EXCEPT !.pc = FromKey(q)] ELSE q]
  /\ UNCHANGED <<mode, users, keyed, proofUsed, overwritten>>

\* resolve_actor: whoever asks is an operational administrator at this moment, and
\* sends the version the panel shows.
AskRole(r, op, u, want, k) ==
  /\ req[r].pc = "idle" /\ Admins # {} /\ Exists(u) /\ users[u].version < MaxVersion
  /\ op = "change" => users[u].role # want
  /\ Arrive(r, Asked(op, u, want, k))

\* A client repeats a request: its answer was lost, or a button was pressed twice.
Repeat(r, s) ==
  /\ req[r].pc = "idle" /\ req[s].op = "assign" /\ req[s].key # NoKey
  /\ Arrive(r, [req[s] EXCEPT !.pc = "begun"])

AskSignUp(r, u, k) ==
  /\ req[r].pc = "idle" /\ ~Exists(u)
  /\ Arrive(r, Asked("signup", u, "user", k))

-----------------------------------------------------------------------------
(* assign_user_role *)

\* Mutation: the version is not compared under the lock.
AssignLockUnchecked(r) ==
  /\ req[r].op = "assign" /\ req[r].pc = "begun" /\ ~RowHeld(req[r].user)
  /\ Answer(r, IF users[req[r].user].role = "admin" THEN "locked" ELSE "ready")

\* The row is locked and read again.  An outdated version is a conflict; the same role
\* is stored under the key and changes nothing.
AssignLock(r) ==
  LET now == users[req[r].user]
  IN  /\ req[r].op = "assign" /\ req[r].pc = "begun" /\ ~RowHeld(req[r].user)
      /\ \/ req[r].version # now.version /\ To(r, "refused") /\ UNCHANGED keyed
         \/ /\ req[r].version = now.version /\ now.role = req[r].want
            /\ IF KeyTaken(req[r]) THEN To(r, "refused") /\ UNCHANGED keyed
                                   ELSE To(r, "same") /\ Store(req[r])
         \/ /\ req[r].version = now.version /\ now.role # req[r].want
            /\ To(r, IF now.role = "admin" THEN "locked" ELSE "ready")
            /\ UNCHANGED keyed
      /\ UNCHANGED <<mode, users, proofUsed, overwritten>>

-----------------------------------------------------------------------------
(* The count of administrators *)

NeedsCount(r) ==
  \/ req[r].op = "assign" /\ req[r].pc = "locked"
  \/ req[r].op = "change" /\ req[r].pc = "begun" /\ req[r].role = "admin"
  \/ req[r].op = "signup" /\ req[r].pc = "begun" /\ req[r].user \in Bootstrap

\* Mutation: the count is taken without its lock.
CountUnlocked(r) ==
  /\ NeedsCount(r)
  /\ req' = [req EXCEPT ![r].pc = IF req[r].op = "signup" \/ Cardinality(Admins) > 1 THEN "ready" ELSE "refused",
                        ![r].want = IF req[r].op = "signup" /\ Admins = {} THEN "admin" ELSE @]
  /\ UNCHANGED <<mode, users, keyed, proofUsed, overwritten>>

\* lock_admin_count, then the count: the last administrator is not demoted, and the
\* bootstrap address makes one only while there is none.
Count(r) ==
  /\ NeedsCount(r) /\ ~CountHeld
  /\ \/ /\ req[r].op = "signup" \/ Cardinality(Admins) > 1
        /\ req' = [req EXCEPT ![r].pc = "counted",
                              ![r].want = IF req[r].op = "signup" /\ Admins = {} THEN "admin" ELSE @]
     \/ /\ req[r].op # "signup" /\ Cardinality(Admins) <= 1
        /\ To(r, "refused")
  /\ UNCHANGED <<mode, users, keyed, proofUsed, overwritten>>

-----------------------------------------------------------------------------
(* Commits *)

ReadyToWrite(r) ==
  /\ req[r].pc \in {"counted", "ready"} \/ (req[r].pc = "begun" /\ req[r].op \in {"change", "signup"} /\ ~NeedsCount(r))
  /\ req[r].op # "assign" => ~RowHeld(req[r].user)

CommitAssign(r) ==
  /\ req[r].op = "assign" /\ ReadyToWrite(r) /\ ~KeyTaken(req[r])
  /\ users' = [users EXCEPT ![req[r].user].role = req[r].want, ![req[r].user].version = @ + 1]
  /\ To(r, "done") /\ Store(req[r])
  /\ UNCHANGED <<mode, proofUsed, overwritten>>

\* change_user_role writes what its copy says, whatever has been committed since.
CommitChange(r) ==
  /\ req[r].op = "change" /\ ReadyToWrite(r) /\ ~KeyTaken(req[r])
  /\ users' = [users EXCEPT ![req[r].user].role = req[r].want,
                            ![req[r].user].version = req[r].version + 1]
  /\ overwritten' = (overwritten \/ users[req[r].user].version # req[r].version)
  /\ To(r, "done") /\ Store(req[r])
  /\ UNCHANGED <<mode, proofUsed>>

\* Only one account has the bootstrap address: the e-mail is unique.
CommitSignUp(r) ==
  /\ req[r].op = "signup" /\ ReadyToWrite(r) /\ ~KeyTaken(req[r])
  /\ ~Exists(req[r].user)
  /\ req[r].user \in Bootstrap => \A u \in Bootstrap : ~Exists(u)
  /\ users' = [users EXCEPT ![req[r].user] = [role |-> req[r].want, version |-> 1, credential |-> TRUE]]
  /\ To(r, "done") /\ Store(req[r])
  /\ UNCHANGED <<mode, proofUsed, overwritten>>

\* The key was completed by a request that ran meanwhile: change_user_role looks it up
\* only now, and the primary key refuses the others.
LateKey(r) ==
  /\ req[r].op # "prove" /\ ReadyToWrite(r) /\ KeyTaken(req[r])
  /\ Answer(r, IF req[r].op = "change" THEN FromKey(req[r]) ELSE "refused")

NameTaken(r) ==
  /\ req[r].op = "signup" /\ ReadyToWrite(r)
  /\ Exists(req[r].user) \/ (req[r].user \in Bootstrap /\ \E u \in Bootstrap : Exists(u))
  /\ Answer(r, "refused")

\* A connection is lost, or PostgreSQL breaks a deadlock: the transaction rolls back.
Fail(r) == Open(r) /\ Answer(r, "failed")

-----------------------------------------------------------------------------
(* The re-authentication proof *)

\* consume_reauth_proof finds the proof unused.
AskProved(r, u) ==
  /\ req[r].pc = "idle" /\ u \in Admins /\ users[u].credential /\ ~proofUsed
  /\ req' = [req EXCEPT ![r] = [Idle EXCEPT !.op = "prove", !.user = u, !.pc = "begun"]]
  /\ UNCHANGED <<mode, users, keyed, proofUsed, overwritten>>

\* Mutation: the proof is not looked at again under the lock.
ProofLockUnchecked(r) ==
  /\ req[r].op = "prove" /\ req[r].pc = "begun" /\ ~ProofHeld
  /\ Answer(r, "locked")

\* The proof is locked and looked at again.
ProofLock(r) ==
  /\ req[r].op = "prove" /\ req[r].pc = "begun" /\ ~ProofHeld
  /\ Answer(r, IF proofUsed THEN "refused" ELSE "locked")

\* The action commits, and used_at with it.
CommitProved(r) ==
  /\ req[r].op = "prove" /\ req[r].pc = "locked"
  /\ proofUsed' = TRUE /\ To(r, "done")
  /\ UNCHANGED <<mode, users, keyed, overwritten>>

-----------------------------------------------------------------------------

Arrivals(r) ==
  \/ \E op \in {"assign", "change"}, u \in Users, want \in Wanted, k \in Keys \cup {NoKey} : AskRole(r, op, u, want, k)
  \/ \E u \in Users, k \in Keys \cup {NoKey} : AskSignUp(r, u, k)
  \/ \E u \in Users : AskProved(r, u)
  \/ \E s \in Reqs : Repeat(r, s)

Commits(r) == CommitAssign(r) \/ CommitChange(r) \/ CommitSignUp(r) \/ CommitProved(r)

Next ==
  \E r \in Reqs :
    Arrivals(r) \/ AssignLock(r) \/ Count(r) \/ Commits(r) \/ LateKey(r) \/ NameTaken(r) \/ Fail(r) \/ ProofLock(r)

Spec == Init /\ [][Next]_vars

-----------------------------------------------------------------------------
(* Properties *)

\* An installation with an operational administrator keeps one, and its bootstrap address
\* makes an administrator only where there is none (ensure_not_last_admin, sign_up), unless
\* change_user_role has written over a row committed after it read its copy.
AdministrationRemains ==
  [][~overwritten' =>
       /\ Admins # {} => Admins' # {}
       /\ \A u \in Users : ~Exists(u) /\ users'[u].role = "admin" => Admins = {}]_vars

\* A role changes by a request for that role, from the role its sender saw, and a key
\* changes a role, creates an account, or opens an action at most once; so does a proof.
ChangesAreAsked ==
  /\ [][\A u \in Users : Exists(u) /\ users'[u].role # users[u].role =>
          \E r \in Reqs :
            /\ req[r].user = u /\ req[r].want = users'[u].role /\ req'[r].pc = "done" /\ Open(r)
            /\ ~overwritten' => req[r].role = users[u].role]_vars
  /\ []\A r, s \in Reqs :
         r # s /\ req[r].pc = "done" /\ req[s].pc = "done"
           => /\ req[r].key = NoKey \/ req[r].key # req[s].key
              /\ {req[r].op, req[s].op} # {"prove"}
=============================================================================
