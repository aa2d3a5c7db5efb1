---------------------------- MODULE RecordsProofs ----------------------------
(* Theorems of Administration and ResearchData, for any number of accounts,   *)
(* requests and keys, of commands, workers and revisions, and of the two run  *)
(* side by side.                                                              *)
EXTENDS Records, FiniteSetTheorems, TLAPS

-----------------------------------------------------------------------------
(* What is known of accounts and requests *)

Roles == Wanted \cup {"absent", "admin", "user"}

Account == [role : Roles, version : Nat, credential : BOOLEAN]

Request ==
  [op : {"none", "assign", "change", "signup", "prove"}, user : Users \cup {"none"},
   want : Wanted \cup {"none", "user", "admin"}, key : Keys \cup {NoKey}, role : Roles, version : Nat,
   pc : {"idle", "begun", "locked", "counted", "ready", "replayed", "refused", "same", "failed", "done"}]

\* The two commands that change the role of an account.
ChangesRole(q) == q.op \in {"assign", "change"}

\* A request that holds the lock of its account's row.
HoldsRow(q) == q.op = "assign" /\ q.pc \in {"locked", "counted", "ready"}

TwoAdmins == \E u, v \in Admins : u # v

\* What a request may rely on, given the rows of now.
WellFormed(q) ==
  /\ q \in Request
  /\ q.op # "none" => q.user \in Users
  /\ ChangesRole(q) => q.want \in Wanted /\ Exists(q.user)
  /\ q.op = "signup" => q.want \in {"user", "admin"} /\ (q.pc = "begun" => q.want = "user")
  /\ q.pc = "counted" => q.op \in {"assign", "change", "signup"}
  /\ q.pc = "ready" => q.op = "assign"

\* The row a request holds is as it was read; whoever writes without the count writes no
\* administrator's row.
RowIsRead(q) ==
  /\ HoldsRow(q) => q.version = users[q.user].version
  /\ q.op = "assign" /\ q.pc = "ready" => users[q.user].role # "admin"

\* While no row was overwritten: the same version means the same role; a counted demotion
\* leaves another administrator, and a counted bootstrap makes the first.
CountIsTrue(q) ==
  /\ ChangesRole(q) =>
       /\ q.version <= users[q.user].version
       /\ q.version = users[q.user].version => q.role = users[q.user].role
       /\ Admins # {}
       /\ q.pc = "counted" => TwoAdmins
  /\ q.op = "signup" /\ q.pc = "counted" /\ q.want = "admin" => Admins = {}

RequestOk(q) == WellFormed(q) /\ RowIsRead(q) /\ (~overwritten => CountIsTrue(q))

RowsAreHeldAlone ==
  \A r, s \in Reqs : HoldsRow(req[r]) /\ HoldsRow(req[s]) /\ req[r].user = req[s].user => r = s

CountIsHeldAlone == \A r, s \in Reqs : req[r].pc = "counted" /\ req[s].pc = "counted" => r = s

Types ==
  /\ users \in [Users -> Account] /\ overwritten \in BOOLEAN
  /\ req \in [Reqs -> Request]

Inv ==
  /\ Types
  /\ \A r \in Reqs : RequestOk(req[r])
  /\ RowsAreHeldAlone
  /\ CountIsHeldAlone

-----------------------------------------------------------------------------
(* Lemmas *)

\* A count above one means two administrators; it needs no finiteness.
LEMMA CountAboveOne == Cardinality(Admins) > 1 => TwoAdmins
<1> SUFFICES ASSUME ~TwoAdmins PROVE ~(Cardinality(Admins) > 1)
  OBVIOUS
<1>1. CASE Admins = {}
  BY <1>1, FS_EmptySet
<1>2. ASSUME NEW u \in Admins PROVE ~(Cardinality(Admins) > 1)
  <2>1. Admins = {u}
    BY DEF TwoAdmins
  <2>2. Cardinality({u}) = 1
    BY FS_Singleton
  <2> QED BY <2>1, <2>2
<1> QED BY <1>1, <1>2

\* A step of one request that writes no account.
LEMMA QuietStep ==
  ASSUME Inv, NEW r \in Reqs, NEW q, req' = [req EXCEPT ![r] = q],
         UNCHANGED <<mode, users, overwritten>>, RequestOk(q),
         HoldsRow(q) => ~RowHeld(q.user) \/ (HoldsRow(req[r]) /\ req[r].user = q.user),
         q.pc = "counted" => ~CountHeld
  PROVE  Inv'
<1>1. req \in [Reqs -> Request] /\ q \in Request
  BY DEF Inv, Types, RequestOk, WellFormed
<1>2. \A s \in Reqs : req'[s] = IF s = r THEN q ELSE req[s]
  BY <1>1
<1>3. Types'
  BY <1>1 DEF Inv, Types
<1>4. ASSUME NEW s \in Reqs PROVE RequestOk(req[s])'
  <2>1. RequestOk(req'[s])
    BY <1>2 DEF Inv
  <2> QED BY <2>1 DEF RequestOk, WellFormed, RowIsRead, CountIsTrue, ChangesRole, HoldsRow, TwoAdmins,
                      Exists, Admins
<1>5. RowsAreHeldAlone'
  <2>1. ASSUME NEW s \in Reqs, s # r, HoldsRow(req[s]), HoldsRow(q), req[s].user = q.user PROVE FALSE
    BY <2>1 DEF Inv, RowsAreHeldAlone, RowHeld, HoldsRow
  <2>2. \A s \in Reqs : HoldsRow(req'[s]) <=> IF s = r THEN HoldsRow(q) ELSE HoldsRow(req[s])
    BY <1>2
  <2> QED BY <1>2, <2>1, <2>2 DEF Inv, RowsAreHeldAlone, HoldsRow
<1>6. CountIsHeldAlone'
  BY <1>2 DEF Inv, CountIsHeldAlone, CountHeld
<1> QED BY <1>3, <1>4, <1>5, <1>6 DEF Inv

\* A request that stands elsewhere is otherwise the same.
At(q, pc) == [q EXCEPT !.pc = pc]

Standings == {"begun", "locked", "counted", "ready", "replayed", "refused", "same", "failed", "done"}

\* Its columns.
LEMMA Standing ==
  ASSUME NEW q \in Request, NEW pc \in Standings
  PROVE  /\ At(q, pc) \in Request /\ At(q, pc).pc = pc /\ At(q, pc).op = q.op /\ At(q, pc).user = q.user
         /\ At(q, pc).want = q.want /\ At(q, pc).key = q.key /\ At(q, pc).role = q.role
         /\ At(q, pc).version = q.version
BY DEF Request, At, Standings

\* A request that ends, or goes on with nothing it did not hold.
LEMMA AnswerStep ==
  ASSUME Inv, NEW r \in Reqs,
         NEW pc \in {"locked", "ready", "replayed", "refused", "same", "failed"},
         To(r, pc), UNCHANGED <<mode, users, overwritten>>,
         pc \in {"locked", "ready"} /\ req[r].op # "prove" =>
           /\ req[r].op = "assign" /\ ~RowHeld(req[r].user)
           /\ req[r].version = users[req[r].user].version
           /\ pc = "ready" => users[req[r].user].role # "admin",
         req[r].op = "prove" => pc # "ready"
  PROVE  Inv'
<1> DEFINE q == At(req[r], pc)
<1>1. req[r] \in Request /\ RequestOk(req[r]) /\ req \in [Reqs -> Request]
  BY DEF Inv, Types
<1>2. req' = [req EXCEPT ![r] = q] /\ pc \in Standings
  BY DEF To, At, Standings
<1>3. /\ q \in Request /\ q.pc = pc /\ q.op = req[r].op /\ q.user = req[r].user /\ q.want = req[r].want
      /\ q.role = req[r].role /\ q.version = req[r].version
  BY <1>1, <1>2, Standing
<1> HIDE DEF q
<1>4. WellFormed(q)
  BY <1>1, <1>3 DEF RequestOk, WellFormed, ChangesRole
<1>5. RowIsRead(q)
  <2>1. CASE HoldsRow(q)
    <3>1. pc \in {"locked", "ready"} /\ req[r].op = "assign"
      BY <1>3, <2>1 DEF HoldsRow
    <3>2. /\ req[r].version = users[req[r].user].version
          /\ pc = "ready" => users[req[r].user].role # "admin"
      BY <3>1
    <3> QED BY <1>3, <3>2 DEF RowIsRead
  <2>2. CASE ~HoldsRow(q)
    BY <2>2 DEF RowIsRead, HoldsRow
  <2> QED BY <2>1, <2>2
<1>6. ~overwritten => CountIsTrue(q)
  BY <1>1, <1>3 DEF RequestOk, CountIsTrue, ChangesRole
<1>7. HoldsRow(q) => ~RowHeld(q.user)
  BY <1>3 DEF HoldsRow
<1> QED BY <1>2, <1>3, <1>4, <1>5, <1>6, <1>7, QuietStep DEF RequestOk

\* A request arrives, with what its account's row says now, or as it was sent before.
LEMMA ArriveStep ==
  ASSUME Inv, NEW r \in Reqs, NEW q \in Request, Arrive(r, q), q.pc = "begun", RequestOk(q)
  PROVE  Inv'
<1>1. UNCHANGED <<mode, users, overwritten>>
  BY DEF Arrive
<1>2. CASE ~(q.op # "change" /\ KeyTaken(q))
  <2>1. req' = [req EXCEPT ![r] = q]
    BY <1>2 DEF Arrive
  <2> QED BY <1>1, <2>1, QuietStep DEF HoldsRow
<1>3. CASE q.op # "change" /\ KeyTaken(q)
  <2> DEFINE p == At(q, FromKey(q))
  <2>1. req' = [req EXCEPT ![r] = p]
    BY <1>3 DEF Arrive, At
  <2>2. FromKey(q) \in {"replayed", "refused"} /\ FromKey(q) \in Standings
    BY DEF FromKey, Standings
  <2>3. /\ p \in Request /\ p.pc = FromKey(q) /\ p.op = q.op /\ p.user = q.user /\ p.want = q.want
        /\ p.role = q.role /\ p.version = q.version
    BY <2>2, Standing
  <2> HIDE DEF p
  <2>4. ~HoldsRow(p) /\ p.pc \notin {"begun", "counted", "ready"}
    BY <2>2, <2>3 DEF HoldsRow
  <2>5. WellFormed(p)
    BY <2>3, <2>4 DEF RequestOk, WellFormed, ChangesRole
  <2>6. ~overwritten => CountIsTrue(p)
    BY <2>3, <2>4 DEF RequestOk, CountIsTrue, ChangesRole
  <2>7. RequestOk(p)
    BY <2>4, <2>5, <2>6 DEF RequestOk, RowIsRead
  <2> QED BY <1>1, <2>1, <2>4, <2>7, QuietStep
<1> QED BY <1>2, <1>3

\* The count is taken, or refuses.
LEMMA CountStep ==
  ASSUME Inv, NEW r \in Reqs, Count(r)
  PROVE  Inv'
<1>1. UNCHANGED <<mode, users, overwritten>> /\ NeedsCount(r) /\ ~CountHeld
  BY DEF Count
<1>2. req[r] \in Request /\ RequestOk(req[r]) /\ req \in [Reqs -> Request]
  BY DEF Inv, Types
<1>3. CASE req[r].op # "signup" /\ Cardinality(Admins) <= 1 /\ To(r, "refused")
  BY <1>1, <1>3, AnswerStep
<1>4. ASSUME req[r].op = "signup" \/ Cardinality(Admins) > 1,
             req' = [req EXCEPT ![r].pc = "counted",
                                ![r].want = IF req[r].op = "signup" /\ Admins = {} THEN "admin" ELSE @]
      PROVE  Inv'
  <2> DEFINE want == IF req[r].op = "signup" /\ Admins = {} THEN "admin" ELSE req[r].want
             q == [req[r] EXCEPT !.pc = "counted", !.want = want]
  <2>1. req' = [req EXCEPT ![r] = q]
    BY <1>2, <1>4
  <2>2. want \in Wanted \cup {"none", "user", "admin"}
    BY <1>2 DEF Request
  <2> HIDE DEF want
  <2>3. /\ q \in Request /\ q.pc = "counted" /\ q.op = req[r].op /\ q.user = req[r].user /\ q.want = want
        /\ q.role = req[r].role /\ q.version = req[r].version
    BY <1>2, <2>2 DEF Request
  <2> HIDE DEF q
  <2>4. WellFormed(q)
    BY <1>1, <1>2, <2>3 DEF RequestOk, WellFormed, ChangesRole, NeedsCount, want
  <2>5. RowIsRead(q) /\ (HoldsRow(q) => HoldsRow(req[r]) /\ req[r].user = q.user)
    BY <1>1, <1>2, <2>3 DEF RequestOk, RowIsRead, HoldsRow, NeedsCount
  <2>6. ASSUME ~overwritten PROVE CountIsTrue(q)
    <3>1. CountIsTrue(req[r]) /\ (ChangesRole(q) => TwoAdmins)
      BY <1>2, <1>4, <2>3, <2>6, CountAboveOne DEF RequestOk, ChangesRole
    <3>2. req[r].op = "signup" /\ want = "admin" => Admins = {}
      BY <1>1, <1>2 DEF want, NeedsCount, RequestOk, WellFormed
    <3> QED BY <2>3, <3>1, <3>2 DEF CountIsTrue, ChangesRole
  <2> QED BY <1>1, <2>1, <2>3, <2>4, <2>5, <2>6, QuietStep DEF RequestOk
<1> QED BY <1>3, <1>4 DEF Count

-----------------------------------------------------------------------------
(* Commits *)

\* The row of an account whose role was changed.
Given(a, role, version) == [a EXCEPT !.role = role, !.version = version]

\* Its columns.
LEMMA GivenColumns ==
  ASSUME NEW a \in Account, NEW role \in Roles, NEW version \in Nat
  PROVE  /\ Given(a, role, version) \in Account /\ Given(a, role, version).role = role
         /\ Given(a, role, version).version = version
         /\ Given(a, role, version).credential = a.credential
BY DEF Given, Account

\* A request that is done keeps what any request is.
LEMMA DoneIsOk ==
  ASSUME Inv, NEW r \in Reqs, To(r, "done"), users' \in [Users -> Account], UNCHANGED mode,
         \A u \in Users : Exists(u) => Exists(u)',
         ~overwritten' => ~overwritten,
         ~overwritten' => \A s \in Reqs : ChangesRole(req[s]) =>
           /\ Admins' # {}
           /\ users[req[s].user] # users'[req[s].user] => users'[req[s].user].version > req[s].version
  PROVE  /\ req' = [req EXCEPT ![r] = At(req[r], "done")]
         /\ RequestOk(req[r])'
<1>1. req[r] \in Request /\ RequestOk(req[r]) /\ req \in [Reqs -> Request] /\ "done" \in Standings
  BY DEF Inv, Types, Standings
<1>2. req' = [req EXCEPT ![r] = At(req[r], "done")]
  BY DEF To, At
<1> DEFINE q == At(req[r], "done")
<1>3. /\ q \in Request /\ q.pc = "done" /\ q.op = req[r].op /\ q.user = req[r].user /\ q.want = req[r].want
      /\ q.role = req[r].role /\ q.version = req[r].version
  BY <1>1, Standing
<1>4. req'[r] = q
  BY <1>1, <1>2
<1> HIDE DEF q
<1>5. WellFormed(req[r])'
  <2>1. ChangesRole(q) => users'[q.user].role # "absent"
    BY <1>1, <1>3 DEF RequestOk, WellFormed, ChangesRole, Exists
  <2> QED BY <1>1, <1>3, <1>4, <2>1 DEF RequestOk, WellFormed, ChangesRole, Exists
<1>6. RowIsRead(req[r])'
  BY <1>3, <1>4 DEF RowIsRead, HoldsRow
<1>7. ASSUME ~overwritten' PROVE CountIsTrue(req[r])'
  <2>1. ASSUME ChangesRole(req[r])
        PROVE  /\ q.version <= users'[q.user].version
               /\ q.version = users'[q.user].version => q.role = users'[q.user].role
               /\ Admins' # {}
    <3>1. q.user \in Users /\ q.version \in Nat /\ users'[q.user].version \in Nat
      BY <1>1, <1>3, <2>1 DEF RequestOk, WellFormed, ChangesRole, Request, Account
    <3>2. Admins' # {} /\ (users[q.user] # users'[q.user] => users'[q.user].version > q.version)
      BY <1>3, <1>7, <2>1
    <3>3. /\ q.version <= users[q.user].version
          /\ q.version = users[q.user].version => q.role = users[q.user].role
      BY <1>1, <1>3, <1>7, <2>1 DEF RequestOk, CountIsTrue
    <3>4. CASE users[q.user] = users'[q.user]
      BY <3>2, <3>3, <3>4
    <3>5. CASE users[q.user] # users'[q.user]
      BY <3>1, <3>2, <3>5
    <3> QED BY <3>4, <3>5
  <2>2. q.pc # "counted" /\ (ChangesRole(q) => ChangesRole(req[r]))
    BY <1>3 DEF ChangesRole
  <2> QED BY <1>4, <2>1, <2>2 DEF CountIsTrue, ChangesRole
<1> QED BY <1>2, <1>5, <1>6, <1>7 DEF RequestOk

\* What a step that commits an account keeps, beside what it must show for the other requests.
LEMMA CommitStep ==
  ASSUME Inv, NEW r \in Reqs, To(r, "done"), users' \in [Users -> Account], UNCHANGED mode,
         overwritten' \in BOOLEAN, ~overwritten' => ~overwritten,
         \A u \in Users : Exists(u) => Exists(u)',
         ~overwritten' => \A s \in Reqs : ChangesRole(req[s]) =>
           /\ Admins' # {}
           /\ users[req[s].user] # users'[req[s].user] => users'[req[s].user].version > req[s].version,
         \A s \in Reqs : s # r /\ HoldsRow(req[s]) => users'[req[s].user] = users[req[s].user],
         ~overwritten' => \A s \in Reqs : s # r /\ req[s].pc = "counted" =>
           /\ ChangesRole(req[s]) => TwoAdmins'
           /\ req[s].op = "signup" /\ req[s].want = "admin" => Admins' = {}
  PROVE  Inv'
<1>1. req' = [req EXCEPT ![r] = At(req[r], "done")] /\ RequestOk(req[r])'
  BY DoneIsOk
<1>2. req[r] \in Request /\ req \in [Reqs -> Request] /\ "done" \in Standings
  BY DEF Inv, Types, Standings
<1>3. At(req[r], "done") \in Request /\ At(req[r], "done").pc = "done"
  BY <1>2, Standing
<1>4. \A s \in Reqs : s # r => req'[s] = req[s]
  BY <1>1, <1>2
<1>5. req'[r].pc = "done" /\ req' \in [Reqs -> Request]
  BY <1>1, <1>2, <1>3
<1>6. ASSUME NEW s \in Reqs, s # r PROVE RequestOk(req[s])'
  <2>1. RequestOk(req[s]) /\ req[s] \in Request /\ req'[s] = req[s]
    BY <1>2, <1>4, <1>6 DEF Inv
  <2>2. WellFormed(req[s])'
    BY <2>1 DEF RequestOk, WellFormed, ChangesRole, Exists
  <2>3. RowIsRead(req[s])'
    <3>1. CASE HoldsRow(req[s])
      <4>1. users'[req[s].user] = users[req[s].user]
        BY <1>6, <3>1
      <4> QED BY <2>1, <4>1 DEF RequestOk, RowIsRead, HoldsRow
    <3>2. CASE ~HoldsRow(req[s])
      BY <2>1, <3>2 DEF RowIsRead, HoldsRow
    <3> QED BY <3>1, <3>2
  <2>4. ASSUME ~overwritten' PROVE CountIsTrue(req[s])'
    <3>1. CountIsTrue(req[s])
      BY <2>1, <2>4 DEF RequestOk
    <3>2. ASSUME ChangesRole(req[s])
          PROVE  /\ req[s].version <= users'[req[s].user].version
                 /\ req[s].version = users'[req[s].user].version => req[s].role = users'[req[s].user].role
                 /\ Admins' # {}
                 /\ req[s].pc = "counted" => TwoAdmins'
      <4>1. req[s].user \in Users /\ req[s].version \in Nat /\ users'[req[s].user].version \in Nat
        BY <2>1, <3>2 DEF RequestOk, WellFormed, ChangesRole, Request, Account
      <4>2. Admins' # {} /\ (users[req[s].user] # users'[req[s].user] => users'[req[s].user].version > req[s].version)
        BY <2>4, <3>2
      <4>3. /\ req[s].version <= users[req[s].user].version
            /\ req[s].version = users[req[s].user].version => req[s].role = users[req[s].user].role
        BY <3>1, <3>2 DEF CountIsTrue
      <4>4. req[s].pc = "counted" => TwoAdmins'
        BY <1>6, <2>4, <3>2
      <4>5. CASE users[req[s].user] = users'[req[s].user]
        BY <4>2, <4>3, <4>4, <4>5
      <4>6. CASE users[req[s].user] # users'[req[s].user]
        BY <4>1, <4>2, <4>4, <4>6
      <4> QED BY <4>5, <4>6
    <3>3. req[s].op = "signup" /\ req[s].pc = "counted" /\ req[s].want = "admin" => Admins' = {}
      BY <1>6, <2>4
    <3> QED BY <2>1, <3>2, <3>3 DEF CountIsTrue, ChangesRole
  <2> QED BY <2>2, <2>3, <2>4 DEF RequestOk
<1>7. RowsAreHeldAlone'
  BY <1>4, <1>5 DEF Inv, RowsAreHeldAlone, HoldsRow
<1>8. CountIsHeldAlone'
  BY <1>4, <1>5 DEF Inv, CountIsHeldAlone
<1> QED BY <1>1, <1>5, <1>6, <1>7, <1>8 DEF Inv, Types

\* A role is changed, under the row's lock or from a copy that is of now or marks the row as
\* overwritten; whoever takes an administrator's role has counted.
LEMMA RoleStep ==
  ASSUME Inv, NEW r \in Reqs, To(r, "done"), UNCHANGED mode, ChangesRole(req[r]), NEW version \in Nat,
         users' = [users EXCEPT ![req[r].user] = Given(users[req[r].user], req[r].want, version)],
         overwritten' \in BOOLEAN, ~overwritten' => ~overwritten,
         \A s \in Reqs : s # r /\ HoldsRow(req[s]) => req[s].user # req[r].user,
         ~overwritten' => version = users[req[r].user].version + 1,
         ~overwritten' /\ users[req[r].user].role = "admin" => req[r].pc = "counted"
  PROVE  /\ Inv'
         /\ ~overwritten' => Admins' # {}
         /\ req[r].user \in Users /\ Exists(req[r].user)
         /\ \A u \in Users : u # req[r].user => users'[u] = users[u]
         /\ users'[req[r].user].role = req[r].want
<1> DEFINE u == req[r].user
           new == Given(users[u], req[r].want, version)
<1>1. /\ u \in Users /\ req[r].want \in Wanted /\ Exists(u) /\ req[r] \in Request
      /\ users \in [Users -> Account] /\ users[u] \in Account
  BY DEF Inv, Types, RequestOk, WellFormed, ChangesRole
<1>2. /\ new \in Account /\ new.role = req[r].want /\ new.version = version
      /\ new.credential = users[u].credential
  BY <1>1, GivenColumns DEF Roles
<1> HIDE DEF new
<1>3. users' \in [Users -> Account] /\ \A x \in Users : users'[x] = IF x = u THEN new ELSE users[x]
  BY <1>1, <1>2 DEF new
<1>4. \A x \in Users : x # u => (x \in Admins <=> x \in Admins')
  BY <1>3 DEF Admins
<1>5. \A x \in Users : Exists(x) => Exists(x)'
  BY <1>1, <1>2, <1>3, WantedAssumption DEF Exists
<1>6. ASSUME ~overwritten' PROVE (u \in Admins => TwoAdmins /\ req[r].pc = "counted") /\ Admins # {}
  <2>1. CountIsTrue(req[r])
    BY <1>6 DEF Inv, RequestOk
  <2>2. u \in Admins => req[r].pc = "counted"
    BY <1>6 DEF Admins
  <2> QED BY <2>1, <2>2 DEF CountIsTrue
<1>7. Admins \subseteq Users /\ Admins' \subseteq Users
  BY DEF Admins
<1>8. ASSUME ~overwritten' PROVE Admins' # {}
  BY <1>4, <1>6, <1>7, <1>8 DEF TwoAdmins
<1>9. ASSUME ~overwritten', NEW s \in Reqs, ChangesRole(req[s]), users[req[s].user] # users'[req[s].user]
      PROVE  users'[req[s].user].version > req[s].version
  <2>1. CountIsTrue(req[s]) /\ req[s] \in Request /\ req[s].user \in Users
    BY <1>9 DEF Inv, RequestOk, WellFormed, ChangesRole
  <2>2. req[s].user = u /\ users'[u].version = users[u].version + 1
    BY <1>2, <1>3, <1>9, <2>1
  <2>3. req[s].version \in Nat /\ users[u].version \in Nat
    BY <1>1, <2>1 DEF Request, Account
  <2>4. req[s].version <= users[u].version
    BY <1>9, <2>1, <2>2 DEF CountIsTrue
  <2> QED BY <2>2, <2>3, <2>4
<1>10. ASSUME NEW s \in Reqs, s # r, HoldsRow(req[s]) PROVE users'[req[s].user] = users[req[s].user]
  <2>1. req[s].user \in Users
    BY <1>10 DEF Inv, RequestOk, WellFormed, HoldsRow
  <2> QED BY <1>3, <1>10, <2>1
<1>11. ASSUME ~overwritten', NEW s \in Reqs, s # r, req[s].pc = "counted"
       PROVE  /\ ChangesRole(req[s]) => TwoAdmins'
              /\ ~(req[s].op = "signup" /\ req[s].want = "admin")
  <2>1. u \notin Admins
    BY <1>6, <1>11 DEF Inv, CountIsHeldAlone
  <2>2. Admins \subseteq Admins'
    BY <1>4, <1>7, <2>1
  <2>3. CountIsTrue(req[s])
    BY <1>11 DEF Inv, RequestOk
  <2>4. ChangesRole(req[s]) => TwoAdmins'
    BY <1>11, <2>2, <2>3 DEF CountIsTrue, TwoAdmins
  <2> QED BY <1>6, <1>11, <2>3, <2>4 DEF CountIsTrue
<1>12. Inv'
  BY <1>3, <1>5, <1>8, <1>9, <1>10, <1>11, CommitStep
<1> QED BY <1>1, <1>2, <1>3, <1>8, <1>12

\* A sign-up adds an account, an administrator only where there is none.
LEMMA SignUpStep ==
  ASSUME Inv, NEW r \in Reqs, CommitSignUp(r)
  PROVE  /\ Inv'
         /\ Admins # {} => Admins' # {}
         /\ req[r].user \in Users /\ ~Exists(req[r].user)
         /\ \A u \in Users : u # req[r].user => users'[u] = users[u]
         /\ ~overwritten /\ users'[req[r].user].role = "admin" => Admins = {}
<1> DEFINE u == req[r].user
           new == [role |-> req[r].want, version |-> 1, credential |-> TRUE]
<1>1. /\ To(r, "done") /\ UNCHANGED <<mode, overwritten>> /\ users' = [users EXCEPT ![u] = new]
      /\ req[r].op = "signup" /\ ~Exists(u) /\ ~RowHeld(u)
      /\ req[r].pc \in {"counted", "ready", "begun"}
  BY DEF CommitSignUp, ReadyToWrite
<1>2. /\ u \in Users /\ req[r].want \in {"user", "admin"} /\ users \in [Users -> Account]
      /\ req[r].want = "admin" => req[r].pc = "counted"
  BY <1>1 DEF Inv, Types, RequestOk, WellFormed
<1>3. new \in Account /\ new.role = req[r].want
  BY <1>2 DEF Account, Roles
<1> HIDE DEF new
<1>4. users' \in [Users -> Account] /\ \A x \in Users : users'[x] = IF x = u THEN new ELSE users[x]
  BY <1>1, <1>2, <1>3
<1>5. Admins \subseteq Admins'
  BY <1>1, <1>4 DEF Admins, Exists
<1>6. req[r].want = "user" => Admins' \subseteq Admins
  BY <1>1, <1>3, <1>4 DEF Admins
<1>7. ~overwritten /\ req[r].want = "admin" => Admins = {}
  BY <1>1, <1>2 DEF Inv, RequestOk, CountIsTrue
<1>8. \A x \in Users : Exists(x) => Exists(x)'
  BY <1>1, <1>4 DEF Exists
<1>9. ASSUME ~overwritten', NEW s \in Reqs, ChangesRole(req[s])
      PROVE  Admins' # {} /\ users[req[s].user] = users'[req[s].user]
  <2>1. CountIsTrue(req[s]) /\ req[s].user \in Users /\ Exists(req[s].user)
    BY <1>1, <1>9 DEF Inv, RequestOk, WellFormed, ChangesRole
  <2> QED BY <1>1, <1>4, <1>5, <1>9, <2>1 DEF CountIsTrue
<1>10. ASSUME NEW s \in Reqs, s # r, HoldsRow(req[s]) PROVE users'[req[s].user] = users[req[s].user]
  <2>1. req[s].user \in Users /\ req[s].user # u
    BY <1>1, <1>10 DEF Inv, RequestOk, WellFormed, HoldsRow, RowHeld
  <2> QED BY <1>4, <2>1
<1>11. ASSUME ~overwritten', NEW s \in Reqs, s # r, req[s].pc = "counted"
       PROVE  /\ ChangesRole(req[s]) => TwoAdmins'
              /\ req[s].op = "signup" /\ req[s].want = "admin" => Admins' = {}
  <2>1. CountIsTrue(req[s])
    BY <1>1, <1>11 DEF Inv, RequestOk
  <2>2. req[r].pc # "counted"
    BY <1>11 DEF Inv, CountIsHeldAlone
  <2>3. Admins' = Admins
    BY <1>2, <1>5, <1>6, <2>2
  <2> QED BY <1>11, <2>1, <2>3 DEF CountIsTrue, TwoAdmins
<1>12. overwritten' \in BOOLEAN
  BY <1>1 DEF Inv, Types
<1>13. Inv'
  BY <1>1, <1>4, <1>8, <1>9, <1>10, <1>11, <1>12, CommitStep
<1> QED BY <1>1, <1>2, <1>3, <1>4, <1>5, <1>7, <1>13

-----------------------------------------------------------------------------
(* The invariant of the accounts *)

\* An installation starts without requests.
LEMMA Initially == Init => Inv
<1> SUFFICES ASSUME Init PROVE Inv
  OBVIOUS
<1>1. users \in [Users -> Account]
  <2>1. Absent \in Account /\ [role |-> "admin", version |-> 1, credential |-> FALSE] \in Account
    BY DEF Absent, Account, Roles
  <2>2. [role : {"admin", "user"}, version : {1}, credential : {TRUE}] \subseteq Account
    <3>1. ASSUME NEW roles \in SUBSET Roles, NEW versions \in SUBSET Nat, NEW flags \in SUBSET BOOLEAN
          PROVE  [role : roles, version : versions, credential : flags] \subseteq Account
      BY DEF Account
    <3>2. {"admin", "user"} \in SUBSET Roles /\ {1} \in SUBSET Nat /\ {TRUE} \in SUBSET BOOLEAN
      BY DEF Roles
    <3> QED BY <3>1, <3>2
  <2>3. Earlier \cup {Absent} \subseteq Account
    BY <2>1, <2>2 DEF Earlier
  <2> QED BY <2>3 DEF Init
<1>2. Idle \in Request
  BY DEF Idle, Request, Roles
<1>3. req \in [Reqs -> Request] /\ \A r \in Reqs : req[r] = Idle
  BY <1>2 DEF Init
<1>4. RequestOk(Idle)
  BY <1>2 DEF RequestOk, WellFormed, RowIsRead, CountIsTrue, ChangesRole, HoldsRow, Idle
<1> QED BY <1>1, <1>3, <1>4 DEF Init, Inv, Types, RowsAreHeldAlone, CountIsHeldAlone, HoldsRow, Idle

\* The commands on a role commit as RoleStep says.
LEMMA AssignCommits ==
  ASSUME Inv, NEW r \in Reqs, CommitAssign(r)
  PROVE  /\ Inv'
         /\ ~overwritten' => Admins' # {}
         /\ req[r].user \in Users /\ Exists(req[r].user)
         /\ \A u \in Users : u # req[r].user => users'[u] = users[u]
         /\ users'[req[r].user].role = req[r].want
         /\ ~overwritten' => req[r].role = users[req[r].user].role
<1> DEFINE u == req[r].user
<1>1. /\ To(r, "done") /\ UNCHANGED <<mode, overwritten>> /\ HoldsRow(req[r]) /\ ChangesRole(req[r])
      /\ req[r].pc \in {"counted", "ready"}
      /\ users' = [users EXCEPT ![u].role = req[r].want, ![u].version = @ + 1]
  BY DEF CommitAssign, ReadyToWrite, HoldsRow, ChangesRole
<1>2. RequestOk(req[r]) /\ u \in Users /\ users \in [Users -> Account] /\ users[u] \in Account
  BY <1>1 DEF Inv, Types, RequestOk, WellFormed, ChangesRole
<1>3. users[u].version \in Nat
  BY <1>2 DEF Account
<1>4. users' = [users EXCEPT ![u] = Given(users[u], req[r].want, users[u].version + 1)]
  BY <1>1, <1>2 DEF Given
<1>5. \A s \in Reqs : s # r /\ HoldsRow(req[s]) => req[s].user # u
  BY <1>1 DEF Inv, RowsAreHeldAlone
<1>6. users[u].role = "admin" => req[r].pc = "counted"
  BY <1>1, <1>2 DEF RequestOk, RowIsRead, HoldsRow
<1>7. ~overwritten => req[r].role = users[u].role
  BY <1>1, <1>2 DEF RequestOk, RowIsRead, CountIsTrue
<1>8. overwritten' \in BOOLEAN
  BY <1>1 DEF Inv, Types
<1> HIDE DEF u
<1>9. users[u].version + 1 \in Nat
  BY <1>3
<1> QED BY <1>1, <1>4, <1>5, <1>6, <1>7, <1>8, <1>9, RoleStep DEF u

\* So does the command that decides on a copy, or it marks the row as overwritten.
LEMMA ChangeCommits ==
  ASSUME Inv, NEW r \in Reqs, CommitChange(r)
  PROVE  /\ Inv'
         /\ ~overwritten' => Admins' # {}
         /\ req[r].user \in Users /\ Exists(req[r].user)
         /\ \A u \in Users : u # req[r].user => users'[u] = users[u]
         /\ users'[req[r].user].role = req[r].want
         /\ ~overwritten' => req[r].role = users[req[r].user].role
<1> DEFINE u == req[r].user
<1>1. /\ To(r, "done") /\ UNCHANGED mode /\ req[r].op = "change" /\ ChangesRole(req[r])
      /\ ~RowHeld(u) /\ ReadyToWrite(r)
      /\ users' = [users EXCEPT ![u].role = req[r].want, ![u].version = req[r].version + 1]
      /\ overwritten' = (overwritten \/ users[u].version # req[r].version)
  BY DEF CommitChange, ReadyToWrite, ChangesRole
<1>2. /\ RequestOk(req[r]) /\ u \in Users /\ users \in [Users -> Account] /\ users[u] \in Account
      /\ req[r] \in Request
  BY <1>1 DEF Inv, Types, RequestOk, WellFormed, ChangesRole
<1>3. req[r].version \in Nat /\ req[r].version + 1 \in Nat
  BY <1>2 DEF Request
<1>4. users' = [users EXCEPT ![u] = Given(users[u], req[r].want, req[r].version + 1)]
  BY <1>1, <1>2 DEF Given
<1>5. \A s \in Reqs : s # r /\ HoldsRow(req[s]) => req[s].user # u
  BY <1>1 DEF RowHeld, HoldsRow
<1>6. overwritten' \in BOOLEAN /\ (~overwritten' => ~overwritten /\ users[u].version = req[r].version)
  BY <1>1 DEF Inv, Types
<1>7. ~overwritten' => req[r].role = users[u].role
  BY <1>1, <1>2, <1>6 DEF RequestOk, CountIsTrue
<1>8. ~overwritten' /\ users[u].role = "admin" => req[r].pc = "counted"
  BY <1>1, <1>2, <1>7 DEF ReadyToWrite, NeedsCount, RequestOk, WellFormed
<1>9. ~overwritten' => req[r].version + 1 = users[u].version + 1
  BY <1>6
<1> HIDE DEF u
<1> QED BY <1>1, <1>3, <1>4, <1>5, <1>6, <1>7, <1>8, <1>9, RoleStep DEF u

\* Every step keeps the invariant, action by action.
LEMMA Preserved == Inv /\ [Next]_vars => Inv'
<1> SUFFICES ASSUME Inv, [Next]_vars PROVE Inv'
  OBVIOUS
<1>1. /\ req \in [Reqs -> Request] /\ users \in [Users -> Account]
      /\ \A r \in Reqs : req[r] \in Request /\ RequestOk(req[r])
  BY DEF Inv, Types
<1>2. ASSUME NEW r \in Reqs, NEW op \in {"assign", "change"}, NEW u \in Users, NEW want \in Wanted,
             NEW k \in Keys \cup {NoKey}, AskRole(r, op, u, want, k)
      PROVE  Inv'
  <2> DEFINE q == Asked(op, u, want, k)
  <2>1. users[u] \in Account /\ users[u].role \in Roles /\ users[u].version \in Nat
    BY <1>1 DEF Account
  <2>2. q \in Request /\ q.pc = "begun" /\ q.op = op /\ q.user = u /\ q.want = want
        /\ q.role = users[u].role /\ q.version = users[u].version
    BY <2>1 DEF Asked, Request
  <2> HIDE DEF q
  <2>3. RequestOk(q)
    BY <1>2, <2>1, <2>2 DEF RequestOk, WellFormed, RowIsRead, CountIsTrue, ChangesRole, HoldsRow, AskRole
  <2> QED BY <1>2, <2>2, <2>3, ArriveStep DEF AskRole, q
<1>3. ASSUME NEW r \in Reqs, NEW u \in Users, NEW k \in Keys \cup {NoKey}, AskSignUp(r, u, k)
      PROVE  Inv'
  <2> DEFINE q == Asked("signup", u, "user", k)
  <2>1. users[u] \in Account /\ users[u].role \in Roles /\ users[u].version \in Nat
    BY <1>1 DEF Account
  <2>2. q \in Request /\ q.pc = "begun" /\ q.op = "signup" /\ q.user = u /\ q.want = "user"
    BY <2>1 DEF Asked, Request
  <2> HIDE DEF q
  <2>3. RequestOk(q)
    BY <2>2 DEF RequestOk, WellFormed, RowIsRead, CountIsTrue, ChangesRole, HoldsRow
  <2> QED BY <1>3, <2>2, <2>3, ArriveStep DEF AskSignUp, q
<1>4. ASSUME NEW r \in Reqs, NEW s \in Reqs, Repeat(r, s) PROVE Inv'
  <2> DEFINE q == At(req[s], "begun")
  <2>1. Arrive(r, q) /\ req[s].op = "assign"
    BY <1>4 DEF Repeat, At
  <2>2. /\ q \in Request /\ q.pc = "begun" /\ q.op = req[s].op /\ q.user = req[s].user
        /\ q.want = req[s].want /\ q.role = req[s].role /\ q.version = req[s].version
    BY <1>1, Standing DEF Standings
  <2> HIDE DEF q
  <2>3. WellFormed(q) /\ RowIsRead(q)
    BY <1>1, <2>1, <2>2 DEF RequestOk, WellFormed, RowIsRead, ChangesRole, HoldsRow
  <2>4. ~overwritten => CountIsTrue(q)
    BY <1>1, <2>1, <2>2 DEF RequestOk, CountIsTrue, ChangesRole
  <2> QED BY <2>1, <2>2, <2>3, <2>4, ArriveStep DEF RequestOk
<1>5. ASSUME NEW r \in Reqs, NEW u \in Users, AskProved(r, u) PROVE Inv'
  <2> DEFINE q == [Idle EXCEPT !.op = "prove", !.user = u, !.pc = "begun"]
  <2>1. req' = [req EXCEPT ![r] = q] /\ UNCHANGED <<mode, users, overwritten>>
    BY <1>5 DEF AskProved
  <2>2. q \in Request /\ q.op = "prove" /\ q.pc = "begun" /\ q.user = u
    BY DEF Idle, Request, Roles
  <2> HIDE DEF q
  <2>3. RequestOk(q) /\ ~HoldsRow(q) /\ q.pc # "counted"
    BY <2>2 DEF RequestOk, WellFormed, RowIsRead, CountIsTrue, ChangesRole, HoldsRow
  <2> QED BY <2>1, <2>3, QuietStep
<1>6. ASSUME NEW r \in Reqs, AssignLock(r) PROVE Inv'
  <2>1. /\ req[r].op = "assign" /\ ~RowHeld(req[r].user) /\ UNCHANGED <<mode, users, overwritten>>
        /\ \E pc \in {"refused", "same", "locked", "ready"} :
             /\ To(r, pc)
             /\ pc \in {"locked", "ready"} => req[r].version = users[req[r].user].version
             /\ pc = "ready" => users[req[r].user].role # "admin"
    BY <1>6 DEF AssignLock
  <2> QED BY <2>1, AnswerStep
<1>7. ASSUME NEW r \in Reqs, Count(r) PROVE Inv'
  BY <1>7, CountStep
<1>8. ASSUME NEW r \in Reqs, CommitProved(r) PROVE Inv'
  <2>1. To(r, "done") /\ UNCHANGED <<mode, users, overwritten>> /\ req[r].op = "prove"
    BY <1>8 DEF CommitProved
  <2> DEFINE q == At(req[r], "done")
  <2>2. req' = [req EXCEPT ![r] = q] /\ q \in Request /\ q.op = "prove" /\ q.pc = "done" /\ q.user = req[r].user
    BY <1>1, <2>1, Standing DEF To, At, Standings
  <2> HIDE DEF q
  <2>3. RequestOk(q) /\ ~HoldsRow(q) /\ q.pc # "counted"
    BY <1>1, <2>1, <2>2 DEF RequestOk, WellFormed, RowIsRead, CountIsTrue, ChangesRole, HoldsRow
  <2> QED BY <2>1, <2>2, <2>3, QuietStep
<1>9. ASSUME NEW r \in Reqs, LateKey(r) PROVE Inv'
  <2>1. /\ req[r].op # "prove" /\ UNCHANGED <<mode, users, overwritten>>
        /\ \E pc \in {"replayed", "refused"} : To(r, pc)
    BY <1>9 DEF LateKey, Answer, FromKey
  <2> QED BY <2>1, AnswerStep
<1>10. ASSUME NEW r \in Reqs, NameTaken(r) PROVE Inv'
  BY <1>10, AnswerStep DEF NameTaken, Answer
<1>11. ASSUME NEW r \in Reqs, Fail(r) PROVE Inv'
  BY <1>11, AnswerStep DEF Fail, Answer
<1>12. ASSUME NEW r \in Reqs, ProofLock(r) PROVE Inv'
  <2>1. /\ req[r].op = "prove" /\ UNCHANGED <<mode, users, overwritten>>
        /\ \E pc \in {"refused", "locked"} : To(r, pc)
    BY <1>12 DEF ProofLock, Answer
  <2> QED BY <2>1, AnswerStep
<1>13. CASE UNCHANGED vars
  BY <1>13 DEF vars, Inv, Types, RequestOk, WellFormed, RowIsRead, CountIsTrue, ChangesRole, HoldsRow,
               RowsAreHeldAlone, CountIsHeldAlone, TwoAdmins, Exists, Admins
<1> QED BY <1>2, <1>3, <1>4, <1>5, <1>6, <1>7, <1>8, <1>9, <1>10, <1>11, <1>12, <1>13,
           AssignCommits, ChangeCommits, SignUpStep DEF Next, Arrivals, Commits

\* Accounts and requests keep what the theorems rest on.
LEMMA Invariant == Spec => []Inv
BY Initially, Preserved, PTL DEF Spec

\* The accounts are written by three commits alone.
LEMMA Writers ==
  ASSUME [Next]_vars
  PROVE  \/ UNCHANGED <<mode, users>>
         \/ \E r \in Reqs : CommitAssign(r) \/ CommitChange(r) \/ CommitSignUp(r)
<1>1. ASSUME NEW r \in Reqs, Arrivals(r) PROVE UNCHANGED <<mode, users>>
  BY <1>1 DEF Arrivals, AskRole, AskSignUp, AskProved, Repeat, Arrive
<1>2. ASSUME NEW r \in Reqs, AssignLock(r) \/ Count(r) \/ CommitProved(r) PROVE UNCHANGED <<mode, users>>
  BY <1>2 DEF AssignLock, Count, CommitProved
<1>3. ASSUME NEW r \in Reqs, LateKey(r) \/ NameTaken(r) \/ Fail(r) \/ ProofLock(r)
      PROVE  UNCHANGED <<mode, users>>
  BY <1>3 DEF LateKey, NameTaken, Fail, ProofLock, Answer
<1> QED BY <1>1, <1>2, <1>3 DEF Next, Commits, vars

-----------------------------------------------------------------------------
(* The theorems *)

\* An installation that has an operational administrator keeps one, and only where there is
\* none does the bootstrap address make one (ensure_not_last_admin, sign_up), as long as
\* change_user_role has written over no row committed after it read its copy.
THEOREM AdministratorStays == Spec => AdministrationRemains
<1> DEFINE Step == ~overwritten' =>
       /\ Admins # {} => Admins' # {}
       /\ \A u \in Users : ~Exists(u) /\ users'[u].role = "admin" => Admins = {}
<1>1. Inv /\ [Next]_vars => [Step]_vars
  <2> SUFFICES ASSUME Inv, [Next]_vars, ~overwritten'
               PROVE  /\ Admins # {} => Admins' # {}
                      /\ \A u \in Users : ~Exists(u) /\ users'[u].role = "admin" => Admins = {}
    OBVIOUS
  <2>1. CASE UNCHANGED <<mode, users>>
    BY <2>1 DEF Admins, Exists
  <2>2. ASSUME NEW r \in Reqs, CommitAssign(r) \/ CommitChange(r)
        PROVE  /\ Admins # {} => Admins' # {}
               /\ \A u \in Users : ~Exists(u) /\ users'[u].role = "admin" => Admins = {}
    BY <2>2, AssignCommits, ChangeCommits DEF Exists
  <2>3. ASSUME NEW r \in Reqs, CommitSignUp(r)
        PROVE  /\ Admins # {} => Admins' # {}
               /\ \A u \in Users : ~Exists(u) /\ users'[u].role = "admin" => Admins = {}
    <3>1. ~overwritten
      BY <2>3 DEF CommitSignUp
    <3> QED BY <2>3, <3>1, SignUpStep DEF Exists
  <2> QED BY <2>1, <2>2, <2>3, Writers
<1>2. Spec => [][Step]_vars
  BY <1>1, Invariant, PTL DEF Spec
<1> QED BY <1>2 DEF AdministrationRemains

-----------------------------------------------------------------------------
(* Keys and the proof *)

\* A key stays stored once a request has used it; the proof is looked at and used alone.
StaysStored ==
  /\ keyed \in [Keys -> {Unused} \cup {Fingerprint(q) : q \in Request}]
  /\ \A r \in Reqs : req[r].op = "prove" => req[r].key = NoKey
  /\ \A r \in Reqs : req[r].pc = "done" /\ req[r].key # NoKey => keyed[req[r].key] # Unused
  /\ \A r, s \in Reqs : r # s /\ req[r].pc = "done" /\ req[s].pc = "done"
                          => req[r].key = NoKey \/ req[r].key # req[s].key

ProofIsHeldAlone ==
  /\ \A r \in Reqs : req[r].op = "prove" /\ req[r].pc = "done" => proofUsed
  /\ \A r \in Reqs : req[r].op = "prove" /\ req[r].pc = "locked" => ~proofUsed
  /\ \A r, s \in Reqs : /\ req[r].op = "prove" /\ req[r].pc \in {"locked", "done"}
                          /\ req[s].op = "prove" /\ req[s].pc \in {"locked", "done"}
                          => r = s

OnceInv == Types /\ StaysStored /\ ProofIsHeldAlone

\* Storing a key loses no other.
LEMMA StoreFacts ==
  ASSUME Types, StaysStored, NEW q \in Request, Store(q) \/ UNCHANGED keyed
  PROVE  /\ keyed' \in [Keys -> {Unused} \cup {Fingerprint(p) : p \in Request}]
         /\ \A k \in Keys : keyed[k] # Unused => keyed'[k] # Unused
         /\ Store(q) /\ q.key # NoKey => q.key \in Keys /\ keyed'[q.key] # Unused
<1>1. Fingerprint(q) # Unused
  BY DEF Fingerprint, Unused
<1>2. q.key \in Keys \cup {NoKey}
  BY DEF Request
<1> QED BY <1>1, <1>2 DEF StaysStored, Store

\* A step of one request that is not done by it.
LEMMA NotDoneStep ==
  ASSUME OnceInv, Types', NEW r \in Reqs, NEW q \in Request, req' = [req EXCEPT ![r] = q], UNCHANGED proofUsed,
         Store(req[r]) \/ UNCHANGED keyed,
         q.pc # "done", q.op = "prove" => q.key = NoKey,
         q.op = "prove" /\ q.pc = "locked" => ~proofUsed /\ ~ProofHeld
  PROVE  OnceInv'
<1>1. req \in [Reqs -> Request] /\ req[r] \in Request
  BY DEF OnceInv, Types
<1>2. \A s \in Reqs : req'[s] = IF s = r THEN q ELSE req[s]
  BY <1>1
<1>3. /\ keyed' \in [Keys -> {Unused} \cup {Fingerprint(p) : p \in Request}]
      /\ \A k \in Keys : keyed[k] # Unused => keyed'[k] # Unused
  BY <1>1, StoreFacts DEF OnceInv
<1>4. \A s \in Reqs : req[s].key \in Keys \cup {NoKey}
  BY <1>1 DEF Request
<1>5. StaysStored'
  BY <1>2, <1>3, <1>4 DEF OnceInv, StaysStored, Fingerprint, Unused
<1>6. ProofIsHeldAlone'
  <2>1. ASSUME NEW s \in Reqs, s # r, q.op = "prove", q.pc = "locked",
               req[s].op = "prove", req[s].pc \in {"locked", "done"}
        PROVE  FALSE
    BY <2>1 DEF OnceInv, ProofIsHeldAlone, ProofHeld
  <2> QED BY <1>2, <2>1 DEF OnceInv, ProofIsHeldAlone
<1> QED BY <1>5, <1>6 DEF OnceInv

\* A commit under a key nobody had stored.
LEMMA KeyedCommit ==
  ASSUME OnceInv, Types', NEW r \in Reqs, To(r, "done"), UNCHANGED proofUsed, req[r].op # "prove",
         ~KeyTaken(req[r]), Store(req[r])
  PROVE  OnceInv'
<1> DEFINE q == At(req[r], "done")
<1>1. req \in [Reqs -> Request] /\ req[r] \in Request /\ "done" \in Standings
  BY DEF OnceInv, Types, Standings
<1>2. q \in Request /\ q.pc = "done" /\ q.op = req[r].op /\ q.key = req[r].key
  BY <1>1, Standing
<1>3. req' = [req EXCEPT ![r] = q]
  BY DEF To, At
<1> HIDE DEF q
<1>4. \A s \in Reqs : req'[s] = IF s = r THEN q ELSE req[s]
  BY <1>1, <1>3
<1>5. /\ keyed' \in [Keys -> {Unused} \cup {Fingerprint(p) : p \in Request}]
      /\ \A k \in Keys : keyed[k] # Unused => keyed'[k] # Unused
      /\ req[r].key # NoKey => keyed[req[r].key] = Unused /\ keyed'[req[r].key] # Unused
  BY <1>1, StoreFacts DEF OnceInv, KeyTaken
<1>6. \A s \in Reqs : req[s].key \in Keys \cup {NoKey}
  BY <1>1 DEF Request
<1>7. StaysStored'
  BY <1>2, <1>4, <1>5, <1>6 DEF OnceInv, StaysStored, Fingerprint, Unused
<1>8. ProofIsHeldAlone'
  BY <1>2, <1>4 DEF OnceInv, ProofIsHeldAlone
<1> QED BY <1>7, <1>8 DEF OnceInv

\* What a step that moves a request without a commit keeps.
LEMMA MovesOn ==
  ASSUME OnceInv, Types', NEW r \in Reqs, NEW pc \in Standings \ {"done"}, To(r, pc), UNCHANGED proofUsed,
         Store(req[r]) \/ UNCHANGED keyed,
         req[r].op = "prove" /\ pc = "locked" => ~proofUsed /\ ~ProofHeld
  PROVE  OnceInv'
<1> DEFINE q == At(req[r], pc)
<1>1. req[r] \in Request
  BY DEF OnceInv, Types
<1>2. q \in Request /\ q.pc = pc /\ q.op = req[r].op /\ q.key = req[r].key
  BY <1>1, Standing
<1>3. req' = [req EXCEPT ![r] = q] /\ (q.op = "prove" => q.key = NoKey)
  BY <1>2 DEF To, At, OnceInv, StaysStored
<1> HIDE DEF q
<1> QED BY <1>2, <1>3, NotDoneStep

\* What a step that lets a request arrive keeps.
LEMMA Arrives ==
  ASSUME OnceInv, Types', NEW r \in Reqs, NEW q \in Request, Arrive(r, q), q.pc = "begun", q.op # "prove"
  PROVE  OnceInv'
<1>1. UNCHANGED <<keyed, proofUsed>>
  BY DEF Arrive
<1>2. CASE ~(q.op # "change" /\ KeyTaken(q))
  <2>1. req' = [req EXCEPT ![r] = q]
    BY <1>2 DEF Arrive
  <2> QED BY <1>1, <2>1, NotDoneStep
<1>3. CASE q.op # "change" /\ KeyTaken(q)
  <2> DEFINE p == At(q, FromKey(q))
  <2>1. req' = [req EXCEPT ![r] = p]
    BY <1>3 DEF Arrive, At
  <2>2. FromKey(q) \in {"replayed", "refused"} /\ FromKey(q) \in Standings
    BY DEF FromKey, Standings
  <2>3. p \in Request /\ p.pc = FromKey(q) /\ p.op = q.op
    BY <2>2, Standing
  <2> HIDE DEF p
  <2> QED BY <1>1, <2>1, <2>2, <2>3, NotDoneStep
<1> QED BY <1>2, <1>3

\* Every step keeps what is stored, action by action.
LEMMA OncePreserved == Inv /\ Inv' /\ OnceInv /\ [Next]_vars => OnceInv'
<1> SUFFICES ASSUME Inv, Inv', OnceInv, [Next]_vars PROVE OnceInv'
  OBVIOUS
<1>1. /\ req \in [Reqs -> Request] /\ users \in [Users -> Account] /\ Types'
      /\ \A r \in Reqs : req[r] \in Request
  BY DEF Inv, Types
<1>2. ASSUME NEW u \in Users, NEW op \in {"assign", "change", "signup"}, NEW want \in Wanted \cup {"user"},
             NEW k \in Keys \cup {NoKey}
      PROVE  /\ Asked(op, u, want, k) \in Request /\ Asked(op, u, want, k).pc = "begun"
             /\ Asked(op, u, want, k).op = op
  <2>1. users[u].role \in Roles /\ users[u].version \in Nat
    BY <1>1 DEF Account
  <2> QED BY <2>1 DEF Asked, Request
<1>3. ASSUME NEW r \in Reqs, NEW op \in {"assign", "change"}, NEW u \in Users, NEW want \in Wanted,
             NEW k \in Keys \cup {NoKey}, AskRole(r, op, u, want, k)
      PROVE  OnceInv'
  <2>1. Arrive(r, Asked(op, u, want, k))
    BY <1>3 DEF AskRole
  <2> QED BY <1>1, <1>2, <2>1, Arrives
<1>4. ASSUME NEW r \in Reqs, NEW u \in Users, NEW k \in Keys \cup {NoKey}, AskSignUp(r, u, k)
      PROVE  OnceInv'
  <2>1. Arrive(r, Asked("signup", u, "user", k))
    BY <1>4 DEF AskSignUp
  <2> QED BY <1>1, <1>2, <2>1, Arrives
<1>5. ASSUME NEW r \in Reqs, NEW s \in Reqs, Repeat(r, s) PROVE OnceInv'
  <2>1. Arrive(r, At(req[s], "begun")) /\ req[s].op = "assign"
    BY <1>5 DEF Repeat, At
  <2>2. "begun" \in Standings
    BY DEF Standings
  <2>3. At(req[s], "begun") \in Request /\ At(req[s], "begun").pc = "begun" /\ At(req[s], "begun").op = req[s].op
    BY <1>1, <2>2, Standing
  <2> QED BY <1>1, <2>1, <2>3, Arrives
<1>6. ASSUME NEW r \in Reqs, NEW u \in Users, AskProved(r, u) PROVE OnceInv'
  <2> DEFINE q == [Idle EXCEPT !.op = "prove", !.user = u, !.pc = "begun"]
  <2>1. req' = [req EXCEPT ![r] = q] /\ UNCHANGED <<keyed, proofUsed>>
    BY <1>6 DEF AskProved
  <2>2. q \in Request /\ q.op = "prove" /\ q.pc = "begun" /\ q.key = NoKey
    BY DEF Idle, Request, Roles
  <2> HIDE DEF q
  <2> QED BY <1>1, <2>1, <2>2, NotDoneStep
<1>7. ASSUME NEW r \in Reqs, AssignLock(r) PROVE OnceInv'
  <2>1. /\ req[r].op = "assign" /\ UNCHANGED proofUsed /\ (Store(req[r]) \/ UNCHANGED keyed)
        /\ \E pc \in {"refused", "same", "locked", "ready"} : To(r, pc)
    BY <1>7 DEF AssignLock
  <2>2. {"refused", "same", "locked", "ready"} \subseteq Standings \ {"done"}
    BY DEF Standings
  <2> QED BY <1>1, <2>1, <2>2, MovesOn
<1>8. ASSUME NEW r \in Reqs, Count(r) PROVE OnceInv'
  <2>1. UNCHANGED <<keyed, proofUsed>> /\ req[r].op # "prove"
    BY <1>8 DEF Count, NeedsCount
  <2>2. CASE To(r, "refused")
    BY <1>1, <2>1, <2>2, MovesOn DEF Standings
  <2>3. CASE ~To(r, "refused")
    <3> DEFINE want == IF req[r].op = "signup" /\ Admins = {} THEN "admin" ELSE req[r].want
               q == [req[r] EXCEPT !.pc = "counted", !.want = want]
    <3>1. req' = [req EXCEPT ![r] = q]
      BY <1>1, <1>8, <2>3 DEF Count
    <3>2. want \in Wanted \cup {"none", "user", "admin"}
      BY <1>1 DEF Request
    <3> HIDE DEF want
    <3>3. q \in Request /\ q.pc = "counted" /\ q.op = req[r].op
      BY <1>1, <3>2 DEF Request
    <3> HIDE DEF q
    <3> QED BY <1>1, <2>1, <3>1, <3>3, NotDoneStep
  <2> QED BY <2>2, <2>3
<1>9. ASSUME NEW r \in Reqs, CommitAssign(r) \/ CommitChange(r) \/ CommitSignUp(r) PROVE OnceInv'
  BY <1>1, <1>9, KeyedCommit DEF CommitAssign, CommitChange, CommitSignUp
<1>10. ASSUME NEW r \in Reqs, LateKey(r) \/ NameTaken(r) PROVE OnceInv'
  <2>1. /\ UNCHANGED <<keyed, proofUsed>>
        /\ \E pc \in {"replayed", "refused"} : To(r, pc)
    BY <1>10 DEF LateKey, NameTaken, Answer, FromKey
  <2>2. {"replayed", "refused"} \subseteq Standings \ {"done"}
    BY DEF Standings
  <2> QED BY <1>1, <2>1, <2>2, MovesOn
<1>11. ASSUME NEW r \in Reqs, Fail(r) PROVE OnceInv'
  BY <1>1, <1>11, MovesOn DEF Fail, Answer, Standings
<1>12. ASSUME NEW r \in Reqs, ProofLock(r) PROVE OnceInv'
  <2>1. /\ UNCHANGED <<keyed, proofUsed>> /\ ~ProofHeld
        /\ \/ To(r, "refused")
           \/ To(r, "locked") /\ ~proofUsed
    BY <1>12 DEF ProofLock, Answer
  <2> QED BY <1>1, <2>1, MovesOn DEF Standings
<1>13. ASSUME NEW r \in Reqs, CommitProved(r) PROVE OnceInv'
  <2> DEFINE q == At(req[r], "done")
  <2>1. /\ req' = [req EXCEPT ![r] = q] /\ proofUsed' = TRUE /\ UNCHANGED keyed
        /\ req[r].op = "prove" /\ req[r].pc = "locked" /\ ~proofUsed
    BY <1>13 DEF CommitProved, To, At, OnceInv, ProofIsHeldAlone
  <2>2. q \in Request /\ q.pc = "done" /\ q.op = "prove" /\ q.key = req[r].key /\ req[r].key = NoKey
    BY <1>1, <2>1, Standing DEF Standings, OnceInv, StaysStored
  <2> HIDE DEF q
  <2>3. \A s \in Reqs : req'[s] = IF s = r THEN q ELSE req[s]
    BY <1>1, <2>1
  <2>4. \A s \in Reqs : s # r /\ req[s].op = "prove" => req[s].pc \notin {"locked", "done"}
    BY <2>1 DEF OnceInv, ProofIsHeldAlone
  <2>5. StaysStored'
    BY <2>1, <2>2, <2>3 DEF OnceInv, StaysStored, Fingerprint
  <2>6. ProofIsHeldAlone'
    BY <2>1, <2>2, <2>3, <2>4 DEF ProofIsHeldAlone
  <2> QED BY <1>1, <2>5, <2>6 DEF OnceInv
<1>14. CASE UNCHANGED vars
  BY <1>14 DEF vars, OnceInv, Types, StaysStored, ProofIsHeldAlone, Fingerprint
<1> QED BY <1>3, <1>4, <1>5, <1>6, <1>7, <1>8, <1>9, <1>10, <1>11, <1>12, <1>13, <1>14
       DEF Next, Arrivals, Commits

\* A role changes by a request for it, from the role its sender saw, and a key or a proof
\* brings about one change (run_idempotent, consume_reauth_proof).
THEOREM RolesChangeAsAsked == Spec => ChangesAreAsked
<1> DEFINE AsAsked == \A u \in Users : Exists(u) /\ users'[u].role # users[u].role =>
          \E r \in Reqs :
            /\ req[r].user = u /\ req[r].want = users'[u].role /\ req'[r].pc = "done" /\ Open(r)
            /\ ~overwritten' => req[r].role = users[u].role
           Once == \A r, s \in Reqs :
         r # s /\ req[r].pc = "done" /\ req[s].pc = "done"
           => /\ req[r].key = NoKey \/ req[r].key # req[s].key
              /\ {req[r].op, req[s].op} # {"prove"}
<1>1. Inv /\ [Next]_vars => [AsAsked]_vars
  <2> SUFFICES ASSUME Inv, [Next]_vars, NEW u \in Users, Exists(u), users'[u].role # users[u].role
               PROVE  \E r \in Reqs :
                        /\ req[r].user = u /\ req[r].want = users'[u].role /\ req'[r].pc = "done" /\ Open(r)
                        /\ ~overwritten' => req[r].role = users[u].role
    OBVIOUS
  <2>1. PICK r \in Reqs : CommitAssign(r) \/ CommitChange(r) \/ CommitSignUp(r)
    BY Writers
  <2>2. CommitAssign(r) \/ CommitChange(r)
    BY <2>1, SignUpStep
  <2>3. /\ req[r].user = u /\ req[r].want = users'[u].role
        /\ ~overwritten' => req[r].role = users[u].role
    BY <2>2, AssignCommits, ChangeCommits
  <2>4. To(r, "done") /\ Open(r)
    BY <2>2 DEF CommitAssign, CommitChange, ReadyToWrite, Open
  <2>5. req'[r].pc = "done"
    BY <2>4, Standing DEF To, At, Inv, Types, Standings
  <2> QED BY <2>3, <2>4, <2>5
<1>2. Spec => [][AsAsked]_vars
  BY <1>1, Invariant, PTL DEF Spec
<1>3. Init /\ Inv => OnceInv
  BY DEF Init, Inv, OnceInv, StaysStored, ProofIsHeldAlone, Idle
<1>4. Spec => []OnceInv
  BY <1>3, Initially, OncePreserved, Invariant, PTL DEF Spec
<1>5. OnceInv => Once
  BY DEF OnceInv, StaysStored, ProofIsHeldAlone
<1>6. Spec => []Once
  BY <1>4, <1>5, PTL
<1> QED BY <1>2, <1>6 DEF ChangesAreAsked

-----------------------------------------------------------------------------
(* The research dataset *)

\* The columns of a revision, a job, an open command and an open delivery.
States == DOMAIN Allowed

Revision == [state : States, linked : BOOLEAN, policy : Policies \cup {None}]
Job == [rev : Nat, done : BOOLEAN, runs : Nat]
Command == [op : {"none", "policy", "analyze", "approve", "revoke"}, rev : Nat,
            seen : States, arg : Policies \cup {None}]
Delivery == [job : Nat, seen : States, passes : BOOLEAN]

ResearchTypes ==
  /\ revs \in Seq(Revision) /\ Len(revs) > 0
  /\ jobs \in Seq(Job)
  /\ \A j \in 1 .. Len(jobs) : jobs[j].rev \in 1 .. Len(revs)
  /\ cmd \in [Cmds -> Command]
  /\ worker \in [Workers -> Delivery]
  /\ bundles \in Seq([rev : Nat, policy : Policies])

\* What an open command has read lets it do what it will write.
CommandMay ==
  \A c \in Cmds :
    /\ cmd[c].op # "none" => cmd[c].rev \in 1 .. Len(revs)
    /\ cmd[c].op = "policy" => ~Frozen(cmd[c].seen) /\ cmd[c].arg \in Policies
    /\ cmd[c].op = "approve" => cmd[c].seen = "verified"
    /\ cmd[c].op = "revoke" => cmd[c].seen = "approved"

\* A delivery that holds a job holds it alone, and the job is not done.
JobsAreHeldAlone ==
  /\ \A w \in Workers : worker[w] # Free => worker[w].job \in 1 .. Len(jobs) /\ ~jobs[worker[w].job].done
  /\ \A v, w \in Workers : worker[w] # Free /\ worker[v].job = worker[w].job => v = w

\* The state half of PinnedEvidenceHolds.
BundlesHold ==
  \A b \in 1 .. Len(bundles) :
    bundles[b].rev \notin disturbed
      => /\ Frozen(revs[bundles[b].rev].state)
         /\ revs[bundles[b].rev].policy = bundles[b].policy

\* Bundles pin revisions there are.
BundlesPin == \A b \in 1 .. Len(bundles) : bundles[b].rev \in 1 .. Len(revs)

ResearchInv == ResearchTypes /\ CommandMay /\ JobsAreHeldAlone /\ OneRunPerJob /\ BundlesPin /\ BundlesHold

-----------------------------------------------------------------------------
(* What the lifecycle allows *)

\* The states there are, and from where a revision is approved or revoked.
LEMMA Lifecycle ==
  /\ States = {"draft", "analyzing", "needs_review", "verified", "approved", "approval_revoked"}
  /\ \A s \in States : Allowed[s] \subseteq States
  /\ \A s \in States : "approved" \in Allowed[s] <=> s = "verified"
  /\ \A s \in States : "approval_revoked" \in Allowed[s] <=> s = "approved"
  /\ \A s \in States : \A t \in Allowed[s] : Frozen(s) => Frozen(t)
  /\ "analyzing" \in Allowed["draft"]
  /\ {"verified", "needs_review"} \subseteq Allowed["analyzing"]
BY DEF States, Allowed, Frozen

\* The rows of revisions and jobs, by their columns.
LEMMA TypedRows ==
  ASSUME ResearchTypes
  PROVE  /\ \A i \in 1 .. Len(revs) : i \in Nat /\ revs[i].state \in States /\ revs[i].policy \in Policies \cup {None}
         /\ \A j \in 1 .. Len(jobs) : jobs[j] \in Job /\ jobs[j].runs \in Nat /\ jobs[j].done \in BOOLEAN
<1>1. revs \in Seq(Revision) /\ jobs \in Seq(Job)
  BY DEF ResearchTypes
<1>2. ASSUME NEW i \in 1 .. Len(revs)
      PROVE  i \in Nat /\ revs[i].state \in States /\ revs[i].policy \in Policies \cup {None}
  <2>1. revs[i] \in Revision /\ i \in Nat
    BY <1>1
  <2> QED BY <2>1 DEF Revision
<1>3. ASSUME NEW j \in 1 .. Len(jobs)
      PROVE  jobs[j] \in Job /\ jobs[j].runs \in Nat /\ jobs[j].done \in BOOLEAN
  <2>1. jobs[j] \in Job
    BY <1>1
  <2> QED BY <2>1 DEF Job
<1> QED BY <1>2, <1>3

\* A commit that moves a revision from the state it read leaves the others alone.
LEMMA MoveFacts ==
  ASSUME ResearchTypes, NEW i \in 1 .. Len(revs), NEW seen \in States, NEW s \in States, Moves(i, seen, s)
  PROVE  /\ revs' \in Seq(Revision) /\ Len(revs') = Len(revs)
         /\ \A k \in 1 .. Len(revs) : /\ revs'[k].policy = revs[k].policy
                                      /\ revs'[k].state = IF k = i THEN s ELSE revs[k].state
         /\ disturbed \subseteq disturbed'
         /\ revs[i].state = seen \/ i \in disturbed'
<1>1. revs \in Seq(Revision) /\ revs[i] \in Revision
  BY DEF ResearchTypes
<1>2. revs' = [revs EXCEPT ![i] = [revs[i] EXCEPT !.state = s]]
  BY DEF Moves
<1>3. [revs[i] EXCEPT !.state = s] \in Revision
  BY <1>1 DEF Revision
<1>4. revs' \in Seq(Revision) /\ Len(revs') = Len(revs)
  BY <1>1, <1>2, <1>3
<1>5. ASSUME NEW k \in 1 .. Len(revs)
      PROVE  /\ revs'[k].policy = revs[k].policy
             /\ revs'[k].state = IF k = i THEN s ELSE revs[k].state
  <2>1. revs'[k] = IF k = i THEN [revs[i] EXCEPT !.state = s] ELSE revs[k]
    BY <1>1, <1>2
  <2> QED BY <1>1, <2>1 DEF Revision
<1>6. disturbed \subseteq disturbed' /\ (revs[i].state = seen \/ i \in disturbed')
  BY DEF Moves
<1> QED BY <1>4, <1>5, <1>6

\* What any step does to a revision: nothing, a legal move, a new policy for one that is
\* not frozen, or a write on a state nobody had read.
LegalOrDisturbed ==
  /\ revs' \in Seq(Revision) /\ Len(revs') >= Len(revs)
  /\ disturbed \subseteq disturbed'
  /\ \A k \in 1 .. Len(revs) :
       \/ k \in disturbed'
       \/ /\ revs'[k].policy = revs[k].policy \/ ~Frozen(revs[k].state)
          /\ revs'[k].state = revs[k].state
       \/ /\ revs'[k].policy = revs[k].policy
          /\ revs'[k].state \in Allowed[revs[k].state]

\* Every step does one of them to each revision.
LEMMA RevisionStep ==
  ASSUME ResearchTypes, CommandMay, JobsAreHeldAlone, [NextResearch]_researchVars
  PROVE  LegalOrDisturbed
<1>1. revs \in Seq(Revision)
  BY DEF ResearchTypes
<1>2. ASSUME UNCHANGED <<revs, disturbed>> PROVE LegalOrDisturbed
  BY <1>1, <1>2 DEF LegalOrDisturbed
<1>3. ASSUME NEW i \in 1 .. Len(revs), NEW seen \in States, NEW s \in Allowed[seen], Moves(i, seen, s)
      PROVE  LegalOrDisturbed
  <2>1. s \in States
    BY <1>3, Lifecycle
  <2> QED BY <1>3, <2>1, MoveFacts DEF LegalOrDisturbed
<1>4. CASE Revise
  <2>1. PICK linked \in BOOLEAN : revs' = Append(revs, Draft(linked))
    BY <1>4 DEF Revise
  <2>2. Draft(linked) \in Revision
    BY Lifecycle DEF Draft, Revision
  <2>3. revs' \in Seq(Revision) /\ Len(revs') = Len(revs) + 1
        /\ \A k \in 1 .. Len(revs) : revs'[k] = revs[k]
    BY <1>1, <2>1, <2>2
  <2> QED BY <1>1, <1>4, <2>3 DEF LegalOrDisturbed, Revise
<1>5. CASE MarketChanges
  BY <1>2, <1>5 DEF MarketChanges
<1>6. ASSUME NEW c \in Cmds, Opens(c) PROVE LegalOrDisturbed
  BY <1>2, <1>6 DEF Opens, OpenPolicy, OpenAnalysis, OpenApproval, OpenRevocation, Reads
<1>7. ASSUME NEW c \in Cmds, CommitPolicy(c) PROVE LegalOrDisturbed
  <2> DEFINE i == cmd[c].rev
  <2>1. /\ i \in 1 .. Len(revs) /\ cmd[c].arg \in Policies /\ ~Frozen(cmd[c].seen)
        /\ revs[i] \in Revision
    BY <1>1, <1>7 DEF CommitPolicy, CommandMay
  <2>2. revs' = [revs EXCEPT ![i] = [revs[i] EXCEPT !.policy = cmd[c].arg]]
    BY <1>7 DEF CommitPolicy
  <2>3. [revs[i] EXCEPT !.policy = cmd[c].arg] \in Revision
    BY <2>1 DEF Revision
  <2>4. revs' \in Seq(Revision) /\ Len(revs') = Len(revs)
    BY <1>1, <2>1, <2>2, <2>3
  <2>5. disturbed \subseteq disturbed' /\ (Frozen(revs[i].state) => i \in disturbed')
    BY <1>7, <2>1 DEF CommitPolicy
  <2>6. ASSUME NEW k \in 1 .. Len(revs)
        PROVE  /\ revs'[k].state = revs[k].state
               /\ k # i => revs'[k].policy = revs[k].policy
    <3>1. revs'[k] = IF k = i THEN [revs[i] EXCEPT !.policy = cmd[c].arg] ELSE revs[k]
      BY <1>1, <2>1, <2>2
    <3> QED BY <2>1, <3>1 DEF Revision
  <2> QED BY <2>4, <2>5, <2>6 DEF LegalOrDisturbed
<1>8. ASSUME NEW c \in Cmds, CommitAnalysis(c) PROVE LegalOrDisturbed
  <2>1. cmd[c].rev \in 1 .. Len(revs)
    BY <1>8 DEF CommitAnalysis, CommandMay
  <2>2. CASE cmd[c].seen = "draft"
    <3>1. Moves(cmd[c].rev, "draft", "analyzing")
      BY <1>8, <2>2 DEF CommitAnalysis
    <3> QED BY <1>3, <2>1, <3>1, Lifecycle
  <2>3. CASE cmd[c].seen # "draft"
    BY <1>2, <1>8, <2>3 DEF CommitAnalysis
  <2> QED BY <2>2, <2>3
<1>9. ASSUME NEW c \in Cmds, CommitApproval(c) PROVE LegalOrDisturbed
  <2>1. cmd[c].rev \in 1 .. Len(revs) /\ cmd[c].seen = "verified" /\ Moves(cmd[c].rev, "verified", "approved")
    BY <1>9 DEF CommitApproval, CommandMay
  <2> QED BY <1>3, <2>1, Lifecycle
<1>10. ASSUME NEW c \in Cmds, CommitRevocation(c) PROVE LegalOrDisturbed
  <2>1. cmd[c].rev \in 1 .. Len(revs) /\ cmd[c].seen = "approved"
        /\ Moves(cmd[c].rev, "approved", "approval_revoked")
    BY <1>10 DEF CommitRevocation, CommandMay
  <2> QED BY <1>3, <2>1, Lifecycle
<1>11. ASSUME NEW c \in Cmds, Abandon(c) PROVE LegalOrDisturbed
  BY <1>2, <1>11 DEF Abandon
<1>12. ASSUME NEW w \in Workers, Claim(w) PROVE LegalOrDisturbed
  BY <1>2, <1>12 DEF Claim, Take
<1>13. ASSUME NEW w \in Workers, Record(w) PROVE LegalOrDisturbed
  <2> DEFINE i == jobs[worker[w].job].rev
             s == IF worker[w].passes THEN "verified" ELSE "needs_review"
  <2>1. i \in 1 .. Len(revs)
    BY <1>13 DEF Record, JobsAreHeldAlone, ResearchTypes
  <2>2. CASE worker[w].seen = "analyzing"
    <3>1. Moves(i, "analyzing", s)
      BY <1>13, <2>2 DEF Record
    <3>2. s \in Allowed["analyzing"] /\ "analyzing" \in States
      BY Lifecycle
    <3> QED BY <1>3, <2>1, <3>1, <3>2
  <2>3. CASE worker[w].seen # "analyzing"
    BY <1>2, <1>13, <2>3 DEF Record
  <2> QED BY <2>2, <2>3
<1>14. ASSUME NEW w \in Workers, Crash(w) PROVE LegalOrDisturbed
  BY <1>2, <1>14 DEF Crash
<1>15. ASSUME NEW i \in 1 .. Current, SealEvidence(i) PROVE LegalOrDisturbed
  BY <1>2, <1>15 DEF SealEvidence, Seal
<1>16. CASE UNCHANGED researchVars
  BY <1>2, <1>16 DEF researchVars
<1> QED BY <1>4, <1>5, <1>6, <1>7, <1>8, <1>9, <1>10, <1>11, <1>12, <1>13, <1>14, <1>15, <1>16
       DEF NextResearch, CommitsCommand

-----------------------------------------------------------------------------
(* What steps do to jobs, commands and workers *)

\* Opening a command keeps the types and gives it what it needs.
LEMMA ReadsStep ==
  ASSUME ResearchInv, NEW c \in Cmds, NEW op \in {"policy", "analyze", "approve", "revoke"},
         NEW i \in 1 .. Len(revs), NEW arg \in Policies \cup {None}, Reads(c, op, i, arg),
         op = "policy" => ~Frozen(revs[i].state) /\ arg \in Policies,
         op = "approve" => revs[i].state = "verified",
         op = "revoke" => revs[i].state = "approved"
  PROVE  ResearchInv'
<1> DEFINE new == [op |-> op, rev |-> i, seen |-> revs[i].state, arg |-> arg]
<1>1. new \in Command
  BY TypedRows DEF ResearchInv, Command
<1>2. cmd' = [cmd EXCEPT ![c] = new] /\ UNCHANGED <<market, revs, jobs, worker, bundles, disturbed>>
  BY DEF Reads
<1>3. ResearchTypes'
  BY <1>1, <1>2 DEF ResearchInv, ResearchTypes
<1>4. CommandMay'
  <2>1. cmd \in [Cmds -> Command]
    BY DEF ResearchInv, ResearchTypes
  <2>2. \A d \in Cmds : cmd'[d] = IF d = c THEN new ELSE cmd[d]
    BY <1>2, <2>1
  <2> QED BY <1>2, <2>2 DEF ResearchInv, CommandMay, Frozen
<1>5. (JobsAreHeldAlone /\ OneRunPerJob /\ BundlesPin /\ BundlesHold)'
  BY <1>2 DEF ResearchInv, JobsAreHeldAlone, OneRunPerJob, BundlesPin, BundlesHold, Frozen
<1> QED BY <1>3, <1>4, <1>5 DEF ResearchInv

\* Evidence holds after every step that seals none.
LEMMA BundlesStep ==
  ASSUME ResearchInv, [NextResearch]_researchVars, UNCHANGED bundles
  PROVE  (BundlesPin /\ BundlesHold)'
<1>1. LegalOrDisturbed
  BY RevisionStep DEF ResearchInv
<1>2. Len(revs) \in Nat /\ Len(revs') \in Nat /\ Len(revs') >= Len(revs)
  BY <1>1 DEF LegalOrDisturbed, ResearchInv, ResearchTypes
<1>3. BundlesPin'
  BY <1>2 DEF BundlesPin, ResearchInv
<1>4. ASSUME NEW b \in 1 .. Len(bundles), bundles[b].rev \notin disturbed'
      PROVE  /\ Frozen(revs'[bundles[b].rev].state)
             /\ revs'[bundles[b].rev].policy = bundles[b].policy
  <2> DEFINE k == bundles[b].rev
  <2>1. k \in 1 .. Len(revs) /\ k \notin disturbed
    BY <1>1, <1>4 DEF LegalOrDisturbed, BundlesPin, ResearchInv
  <2>2. Frozen(revs[k].state) /\ revs[k].policy = bundles[b].policy /\ revs[k].state \in States
    BY <2>1, TypedRows DEF BundlesHold, ResearchInv
  <2>3. \/ revs'[k].policy = revs[k].policy /\ revs'[k].state = revs[k].state
        \/ revs'[k].policy = revs[k].policy /\ revs'[k].state \in Allowed[revs[k].state]
    BY <1>1, <1>4, <2>1, <2>2 DEF LegalOrDisturbed
  <2> QED BY <2>2, <2>3, Lifecycle
<1>5. BundlesHold'
  BY <1>4 DEF BundlesHold, Frozen
<1> QED BY <1>3, <1>5

\* What a step that only writes revisions and closes a command keeps.
LEMMA WriteStep ==
  ASSUME ResearchInv, [NextResearch]_researchVars, UNCHANGED <<worker, bundles>>,
         NEW c \in Cmds, cmd' = [cmd EXCEPT ![c] = NoCommand],
         jobs' \in Seq(Job), Len(jobs') >= Len(jobs),
         \A j \in 1 .. Len(jobs) : jobs'[j] = jobs[j],
         \A j \in 1 .. Len(jobs') : j > Len(jobs)
           => ~jobs'[j].done /\ jobs'[j].runs = 0 /\ jobs'[j].rev \in 1 .. Len(revs)
  PROVE  ResearchInv'
<1>1. LegalOrDisturbed
  BY RevisionStep DEF ResearchInv
<1>2. /\ Len(revs) \in Nat /\ Len(revs') \in Nat /\ Len(revs') >= Len(revs)
      /\ revs' \in Seq(Revision) /\ Len(jobs) \in Nat /\ Len(jobs') \in Nat
  BY <1>1 DEF LegalOrDisturbed, ResearchInv, ResearchTypes
<1>3. NoCommand \in Command
  BY Lifecycle DEF NoCommand, Command
<1>4. cmd \in [Cmds -> Command]
  BY DEF ResearchInv, ResearchTypes
<1>5. \A d \in Cmds : cmd'[d] = IF d = c THEN NoCommand ELSE cmd[d]
  BY <1>4
<1>6. cmd' \in [Cmds -> Command]
  BY <1>3, <1>4
<1>7. \A j \in 1 .. Len(jobs') : j \in 1 .. Len(jobs) \/ j > Len(jobs)
  BY <1>2
<1>8. \A j \in 1 .. Len(jobs') : jobs'[j].rev \in 1 .. Len(revs')
  <2>1. ASSUME NEW j \in 1 .. Len(jobs') PROVE jobs'[j].rev \in 1 .. Len(revs)
    BY <1>7 DEF ResearchInv, ResearchTypes
  <2> QED BY <1>2, <2>1
<1>9. ResearchTypes'
  BY <1>2, <1>6, <1>8 DEF ResearchInv, ResearchTypes
<1>10. CommandMay'
  <2>1. ASSUME NEW d \in Cmds, cmd'[d].op # "none" PROVE d # c /\ cmd'[d] = cmd[d]
    BY <1>5, <2>1 DEF NoCommand
  <2>2. ASSUME NEW d \in Cmds, cmd'[d].op # "none" PROVE cmd'[d].rev \in 1 .. Len(revs')
    BY <1>2, <2>1, <2>2 DEF ResearchInv, CommandMay
  <2> QED BY <2>1, <2>2 DEF ResearchInv, CommandMay, Frozen
<1>11. JobsAreHeldAlone'
  BY <1>2 DEF ResearchInv, JobsAreHeldAlone
<1>12. OneRunPerJob'
  BY <1>7 DEF ResearchInv, OneRunPerJob
<1>13. (BundlesPin /\ BundlesHold)'
  BY BundlesStep
<1> QED BY <1>9, <1>10, <1>11, <1>12, <1>13 DEF ResearchInv

\* The same for a step that adds no job.
LEMMA WriteStepOnly ==
  ASSUME ResearchInv, [NextResearch]_researchVars, UNCHANGED <<worker, bundles, jobs>>,
         NEW c \in Cmds, cmd' = [cmd EXCEPT ![c] = NoCommand]
  PROVE  ResearchInv'
<1>1. jobs' \in Seq(Job) /\ Len(jobs') >= Len(jobs) /\ Len(jobs) \in Nat
  BY DEF ResearchInv, ResearchTypes
<1>2. \A j \in 1 .. Len(jobs) : jobs'[j] = jobs[j]
  OBVIOUS
<1>3. \A j \in 1 .. Len(jobs') : ~(j > Len(jobs))
  BY <1>1
<1> QED BY <1>1, <1>2, <1>3, WriteStep

\* What a step that frees a worker keeps: the worker's job may now be done.
LEMMA FreeStep ==
  ASSUME ResearchInv, [NextResearch]_researchVars, UNCHANGED <<cmd, bundles>>,
         NEW w \in Workers, worker' = [worker EXCEPT ![w] = Free], worker[w] # Free,
         \/ jobs' = jobs
         \/ jobs' = [jobs EXCEPT ![worker[w].job] = [rev |-> @.rev, done |-> TRUE, runs |-> @.runs + 1]]
  PROVE  ResearchInv'
<1> DEFINE j == worker[w].job
<1>1. LegalOrDisturbed
  BY RevisionStep DEF ResearchInv
<1>2. /\ Len(revs) \in Nat /\ Len(revs') \in Nat /\ Len(revs') >= Len(revs)
      /\ revs' \in Seq(Revision) /\ Len(jobs) \in Nat /\ jobs \in Seq(Job)
  BY <1>1 DEF LegalOrDisturbed, ResearchInv, ResearchTypes
<1>3. j \in 1 .. Len(jobs) /\ ~jobs[j].done /\ jobs[j] \in Job /\ jobs[j].runs = 0
  <2>1. j \in 1 .. Len(jobs) /\ ~jobs[j].done
    BY DEF ResearchInv, JobsAreHeldAlone
  <2>2. jobs[j] \in Job /\ jobs[j].runs \in Nat /\ jobs[j].runs <= 1 /\ jobs[j].runs # 1
    BY <2>1, TypedRows DEF ResearchInv, OneRunPerJob
  <2> QED BY <2>1, <2>2
<1>4. /\ jobs' \in Seq(Job) /\ Len(jobs') = Len(jobs)
      /\ \A k \in 1 .. Len(jobs) :
           /\ jobs'[k].rev = jobs[k].rev
           /\ k # j => jobs'[k] = jobs[k]
           /\ jobs'[k] = jobs[k] \/ (k = j /\ jobs'[k].done /\ jobs'[k].runs = 1)
  <2>1. CASE jobs' = jobs
    BY <1>2, <2>1
  <2>2. CASE jobs' = [jobs EXCEPT ![j] = [rev |-> @.rev, done |-> TRUE, runs |-> @.runs + 1]]
    <3> DEFINE new == [rev |-> jobs[j].rev, done |-> TRUE, runs |-> jobs[j].runs + 1]
    <3>1. new \in Job /\ new.rev = jobs[j].rev /\ new.done /\ new.runs = 1
      BY <1>3 DEF Job
    <3>2. jobs' = [jobs EXCEPT ![j] = new]
      BY <2>2
    <3> HIDE DEF new
    <3> QED BY <1>2, <1>3, <3>1, <3>2
  <2> QED BY <2>1, <2>2
<1>5. worker \in [Workers -> Delivery] /\ Free \in Delivery
  BY Lifecycle DEF ResearchInv, ResearchTypes, Delivery, Free
<1>6. worker' \in [Workers -> Delivery] /\ \A v \in Workers : worker'[v] = IF v = w THEN Free ELSE worker[v]
  BY <1>5
<1>7. ResearchTypes'
  <2>1. \A k \in 1 .. Len(jobs') : jobs'[k].rev \in 1 .. Len(revs')
    BY <1>2, <1>4 DEF ResearchInv, ResearchTypes
  <2> QED BY <1>2, <1>4, <1>6, <2>1 DEF ResearchInv, ResearchTypes
<1>8. CommandMay'
  BY <1>2 DEF ResearchInv, CommandMay, Frozen
<1>9. JobsAreHeldAlone'
  <2>1. ASSUME NEW v \in Workers, worker'[v] # Free
        PROVE  /\ v # w /\ worker'[v] = worker[v] /\ worker[v].job \in 1 .. Len(jobs')
               /\ ~jobs'[worker[v].job].done
    <3>1. v # w /\ worker'[v] = worker[v] /\ worker[v] # Free
      BY <1>6, <2>1
    <3>2. worker[v].job \in 1 .. Len(jobs) /\ worker[v].job # j /\ ~jobs[worker[v].job].done
      BY <3>1 DEF ResearchInv, JobsAreHeldAlone
    <3> QED BY <1>4, <3>1, <3>2
  <2>2. ASSUME NEW u \in Workers, NEW v \in Workers, worker'[v] # Free, worker'[u].job = worker'[v].job
        PROVE  u = v
    <3>1. v # w /\ worker'[v] = worker[v] /\ worker[v].job \in 1 .. Len(jobs)
      BY <1>4, <2>1, <2>2
    <3>2. u # w
      BY <1>2, <1>6, <2>2, <3>1 DEF Free
    <3> QED BY <1>6, <2>2, <3>1, <3>2 DEF ResearchInv, JobsAreHeldAlone
  <2> QED BY <2>1, <2>2 DEF JobsAreHeldAlone, Free
<1>10. OneRunPerJob'
  BY <1>4 DEF ResearchInv, OneRunPerJob
<1>11. (BundlesPin /\ BundlesHold)'
  BY BundlesStep
<1> QED BY <1>7, <1>8, <1>9, <1>10, <1>11 DEF ResearchInv

-----------------------------------------------------------------------------
(* The invariant *)

\* A dataset starts as one draft with nothing about it.
LEMMA ResearchInitially == InitResearch => ResearchInv
<1> SUFFICES ASSUME InitResearch PROVE ResearchInv
  OBVIOUS
<1>1. Draft(TRUE) \in Revision
  BY Lifecycle DEF Draft, Revision
<1>2. /\ revs \in Seq(Revision) /\ Len(revs) = 1
      /\ jobs \in Seq(Job) /\ Len(jobs) = 0
      /\ bundles \in Seq([rev : Nat, policy : Policies]) /\ Len(bundles) = 0
  <2> DEFINE draft == Draft(TRUE)
  <2> HIDE DEF draft
  <2>1. revs = <<draft>> /\ draft \in Revision /\ jobs = <<>> /\ bundles = <<>>
    BY <1>1 DEF InitResearch, draft
  <2> QED BY <2>1
<1>3. cmd \in [Cmds -> Command] /\ \A c \in Cmds : cmd[c] = NoCommand
  BY Lifecycle DEF InitResearch, NoCommand, Command
<1>4. worker \in [Workers -> Delivery] /\ \A w \in Workers : worker[w] = Free
  BY Lifecycle DEF InitResearch, Free, Delivery
<1>5. ResearchTypes
  BY <1>2, <1>3, <1>4 DEF ResearchTypes
<1>6. CommandMay
  BY <1>3 DEF CommandMay, NoCommand
<1> QED BY <1>2, <1>4, <1>5, <1>6 DEF ResearchInv, JobsAreHeldAlone, OneRunPerJob, BundlesPin, BundlesHold

\* Every step keeps the invariant, action by action.
LEMMA ResearchPreserved == ResearchInv /\ [NextResearch]_researchVars => ResearchInv'
<1> SUFFICES ASSUME ResearchInv, [NextResearch]_researchVars PROVE ResearchInv'
  OBVIOUS
<1>1. /\ revs \in Seq(Revision) /\ Len(revs) \in Nat /\ Len(revs) > 0
      /\ jobs \in Seq(Job) /\ Len(jobs) \in Nat
  BY DEF ResearchInv, ResearchTypes
<1>2. Current \in 1 .. Len(revs)
  BY <1>1 DEF Current
<1>3. ASSUME NEW i \in 1 .. Len(revs) PROVE revs[i].state \in States
  BY TypedRows DEF ResearchInv
<1>4. CASE Revise
  <2>1. LegalOrDisturbed /\ UNCHANGED <<jobs, cmd, worker, bundles>>
    BY <1>4, RevisionStep DEF ResearchInv, Revise
  <2>2. revs' \in Seq(Revision) /\ Len(revs') \in Nat /\ Len(revs') >= Len(revs)
    BY <2>1 DEF LegalOrDisturbed
  <2>3. ResearchTypes'
    BY <1>1, <2>1, <2>2 DEF ResearchInv, ResearchTypes
  <2>4. CommandMay'
    BY <1>1, <2>1, <2>2 DEF ResearchInv, CommandMay, Frozen
  <2>5. (JobsAreHeldAlone /\ OneRunPerJob)'
    BY <2>1 DEF ResearchInv, JobsAreHeldAlone, OneRunPerJob, Free
  <2> QED BY <2>1, <2>3, <2>4, <2>5, BundlesStep DEF ResearchInv
<1>5. CASE MarketChanges
  BY <1>5 DEF MarketChanges, ResearchInv, ResearchTypes, CommandMay, JobsAreHeldAlone, OneRunPerJob, BundlesPin, BundlesHold
<1>6. ASSUME NEW c \in Cmds, Opens(c) PROVE ResearchInv'
  <2>1. ASSUME NEW p \in Policies, OpenPolicy(c, p) PROVE ResearchInv'
    BY <1>2, <2>1, ReadsStep DEF OpenPolicy
  <2>2. CASE OpenAnalysis(c)
    BY <1>2, <2>2, ReadsStep DEF OpenAnalysis
  <2>3. ASSUME NEW i \in 1 .. Len(revs), OpenApproval(c, i) PROVE ResearchInv'
    BY <1>3, <2>3, ReadsStep, Lifecycle DEF OpenApproval
  <2>4. ASSUME NEW i \in 1 .. Len(revs), OpenRevocation(c, i) PROVE ResearchInv'
    BY <1>3, <2>4, ReadsStep, Lifecycle DEF OpenRevocation
  <2> QED BY <1>6, <2>1, <2>2, <2>3, <2>4 DEF Opens, Current
<1>7. ASSUME NEW c \in Cmds, CommitsCommand(c) PROVE ResearchInv'
  <2>1. cmd' = [cmd EXCEPT ![c] = NoCommand] /\ UNCHANGED <<worker, bundles>>
    BY <1>7 DEF CommitsCommand, CommitPolicy, CommitAnalysis, CommitApproval, CommitRevocation, Close
  <2>2. CASE jobs' = jobs
    BY <1>1, <2>1, <2>2, WriteStepOnly
  <2>3. CASE CommitAnalysis(c)
    <3> DEFINE new == [rev |-> cmd[c].rev, done |-> FALSE, runs |-> 0]
    <3>1. cmd[c].rev \in 1 .. Len(revs) /\ jobs' = Append(jobs, new)
      BY <2>3 DEF CommitAnalysis, ResearchInv, CommandMay
    <3>2. new \in Job
      BY <1>1, <3>1 DEF Job
    <3>3. ~new.done /\ new.runs = 0 /\ new.rev \in 1 .. Len(revs)
      BY <3>1
    <3> HIDE DEF new
    <3>4. /\ jobs' \in Seq(Job) /\ Len(jobs') = Len(jobs) + 1
          /\ \A j \in 1 .. Len(jobs) : jobs'[j] = jobs[j]
          /\ \A j \in 1 .. Len(jobs') : j > Len(jobs) => jobs'[j] = new
      BY <1>1, <3>1, <3>2
    <3>5. Len(jobs') >= Len(jobs)
      BY <1>1, <3>4
    <3>6. \A j \in 1 .. Len(jobs') : j > Len(jobs)
            => ~jobs'[j].done /\ jobs'[j].runs = 0 /\ jobs'[j].rev \in 1 .. Len(revs)
      BY <3>3, <3>4
    <3>7. jobs' \in Seq(Job) /\ \A j \in 1 .. Len(jobs) : jobs'[j] = jobs[j]
      BY <3>4
    <3> QED BY <2>1, <3>5, <3>6, <3>7, WriteStep
  <2> QED BY <1>7, <2>2, <2>3 DEF CommitsCommand, CommitPolicy, CommitApproval, CommitRevocation
<1>8. ASSUME NEW c \in Cmds, Abandon(c) PROVE ResearchInv'
  BY <1>8, WriteStepOnly DEF Abandon, Close
<1>9. ASSUME NEW w \in Workers, Claim(w) PROVE ResearchInv'
  <2>1. PICK j \in 1 .. Len(jobs) : ~Claimed(j) /\ ~jobs[j].done /\ Take(w, j)
    BY <1>9 DEF Claim
  <2>2. PICK passes \in Outcomes(jobs[j].rev) :
          worker' = [worker EXCEPT ![w] = [job |-> j, seen |-> revs[jobs[j].rev].state, passes |-> passes]]
    BY <2>1 DEF Take
  <2> DEFINE new == [job |-> j, seen |-> revs[jobs[j].rev].state, passes |-> passes]
  <2>3. passes \in BOOLEAN /\ jobs[j].rev \in 1 .. Len(revs)
    BY <2>2 DEF Outcomes, ResearchInv, ResearchTypes
  <2>4. new \in Delivery /\ new.job = j
    BY <1>3, <2>3 DEF Delivery
  <2> HIDE DEF new
  <2>5. worker \in [Workers -> Delivery]
    BY DEF ResearchInv, ResearchTypes
  <2>6. worker' = [worker EXCEPT ![w] = new] /\ UNCHANGED <<market, revs, jobs, cmd, bundles, disturbed>>
    BY <2>1, <2>2 DEF Take, new
  <2>7. worker' \in [Workers -> Delivery] /\ \A v \in Workers : worker'[v] = IF v = w THEN new ELSE worker[v]
    BY <2>4, <2>5, <2>6
  <2>8. ResearchTypes' /\ CommandMay' /\ OneRunPerJob' /\ BundlesPin' /\ BundlesHold'
    BY <2>6, <2>7 DEF ResearchInv, ResearchTypes, CommandMay, OneRunPerJob, BundlesPin, BundlesHold, Delivery, Frozen
  <2>9. \A v \in Workers : worker[v].job # j
    BY <2>1 DEF Claimed
  <2>10. JobsAreHeldAlone'
    BY <2>1, <2>4, <2>6, <2>7, <2>9 DEF ResearchInv, JobsAreHeldAlone
  <2> QED BY <2>8, <2>10 DEF ResearchInv
<1>10. ASSUME NEW w \in Workers, Record(w) PROVE ResearchInv'
  <2>1. /\ worker[w] # Free /\ worker' = [worker EXCEPT ![w] = Free] /\ UNCHANGED <<cmd, bundles>>
        /\ jobs' = [jobs EXCEPT ![worker[w].job] = [rev |-> @.rev, done |-> TRUE, runs |-> @.runs + 1]]
    BY <1>10 DEF Record
  <2> QED BY <2>1, FreeStep
<1>11. ASSUME NEW w \in Workers, Crash(w) PROVE ResearchInv'
  BY <1>11, FreeStep DEF Crash
<1>12. ASSUME NEW i \in 1 .. Len(revs), SealEvidence(i) PROVE ResearchInv'
  <2> DEFINE new == [rev |-> i, policy |-> revs[i].policy]
  <2>1. /\ bundles' = Append(bundles, new) /\ revs[i].policy # None /\ revs[i].state = "approved"
        /\ UNCHANGED <<market, revs, jobs, cmd, worker, disturbed>>
    BY <1>12 DEF SealEvidence, Seal
  <2>2. new \in [rev : Nat, policy : Policies] /\ new.rev = i /\ new.policy = revs[i].policy
    BY <2>1, TypedRows DEF ResearchInv
  <2> HIDE DEF new
  <2>3. bundles \in Seq([rev : Nat, policy : Policies])
    BY DEF ResearchInv, ResearchTypes
  <2>4. /\ bundles' \in Seq([rev : Nat, policy : Policies]) /\ Len(bundles') = Len(bundles) + 1
        /\ \A b \in 1 .. Len(bundles') : bundles'[b] = IF b \in 1 .. Len(bundles) THEN bundles[b] ELSE new
    BY <2>1, <2>2, <2>3
  <2>5. (ResearchTypes /\ CommandMay /\ JobsAreHeldAlone /\ OneRunPerJob)'
    BY <2>1, <2>4 DEF ResearchInv, ResearchTypes, CommandMay, JobsAreHeldAlone, OneRunPerJob, Frozen
  <2>6. BundlesPin'
    BY <2>1, <2>2, <2>4 DEF ResearchInv, BundlesPin
  <2>7. BundlesHold'
    BY <2>1, <2>2, <2>4 DEF ResearchInv, BundlesHold, Frozen
  <2> QED BY <2>5, <2>6, <2>7 DEF ResearchInv
<1>13. CASE UNCHANGED researchVars
  BY <1>13 DEF researchVars, ResearchInv, ResearchTypes, CommandMay, JobsAreHeldAlone, OneRunPerJob, BundlesPin, BundlesHold
<1> QED BY <1>4, <1>5, <1>6, <1>7, <1>8, <1>9, <1>10, <1>11, <1>12, <1>13 DEF NextResearch, Current

\* ResearchTypes, what open commands and deliveries may rely on, and the evidence sealed so far.
LEMMA ResearchInvariant == SpecResearch => []ResearchInv
BY ResearchInitially, ResearchPreserved, PTL DEF SpecResearch

\* However often a job's message is delivered, it records one validation run
\* (claim_job_for_delivery).
THEOREM JobRunsOnce == SpecResearch => []OneRunPerJob
<1>1. ResearchInv => OneRunPerJob
  BY DEF ResearchInv
<1> QED BY <1>1, ResearchInvariant, PTL

\* Unless somebody wrote on a state he had not read, a revision keeps the lifecycle of
\* domain/research_data, and what a bundle pinned of it is approved or revoked since, under
\* the time policy pinned (TIME_POLICY_FROZEN_STATES).
THEOREM EvidenceHolds == SpecResearch => PinnedEvidenceHolds
<1> DEFINE Legal == \A i \in 1 .. Current :
          i \notin disturbed' /\ revs'[i].state # revs[i].state => revs'[i].state \in Allowed[revs[i].state]
<1>1. ResearchInv => BundlesHold
  BY DEF ResearchInv
<1>2. ResearchInv /\ [NextResearch]_researchVars => [Legal]_researchVars
  BY RevisionStep DEF ResearchInv, LegalOrDisturbed, Current
<1>3. SpecResearch => [][Legal]_researchVars
  BY <1>2, ResearchInvariant, PTL DEF SpecResearch
<1>4. SpecResearch => []BundlesHold
  BY <1>1, ResearchInvariant, PTL
<1> QED BY <1>3, <1>4 DEF PinnedEvidenceHolds, BundlesHold

-----------------------------------------------------------------------------
(* The two side by side *)

\* What runs the accounts and the dataset side by side is a run of each, so that every
\* theorem above holds of it: no step of one part is a step of the other.
THEOREM RecordsAreBoth == SpecRecords => Spec /\ SpecResearch
<1>1. InitRecords => Init /\ InitResearch
  BY DEF InitRecords
<1>2. [NextRecord]_<<vars, researchVars, part>> => [Next]_vars /\ [NextResearch]_researchVars
  <2> SUFFICES ASSUME [NextRecord]_<<vars, researchVars, part>>
               PROVE  [Next]_vars /\ [NextResearch]_researchVars
    OBVIOUS
  <2>1. CASE UNCHANGED <<vars, researchVars, part>>
    BY <2>1
  <2>2. ASSUME NEW r \in Reqs, AccountStep(r) PROVE Next /\ UNCHANGED researchVars
    <3>1. UNCHANGED researchVars
      BY <2>2 DEF AccountStep, OfAccounts
    <3>2. Arrivals(r) \/ AssignLock(r) \/ Count(r) \/ Commits(r) \/ LateKey(r) \/ NameTaken(r) \/ Fail(r) \/ ProofLock(r)
      BY <2>2 DEF AccountStep, Arrivals, Commits
    <3> QED BY <3>1, <3>2 DEF Next
  <2>3. ASSUME NEW c \in Cmds, CommandStep(c) PROVE NextResearch /\ UNCHANGED vars
    <3>1. UNCHANGED vars
      BY <2>3 DEF CommandStep, OfDataset
    <3>2. Opens(c) \/ CommitsCommand(c) \/ Abandon(c)
      BY <2>3 DEF CommandStep, Opens, CommitsCommand
    <3> QED BY <3>1, <3>2 DEF NextResearch
  <2>4. ASSUME DatasetStep PROVE NextResearch /\ UNCHANGED vars
    BY <2>3, <2>4 DEF DatasetStep, NextResearch, OfDataset
  <2> QED BY <2>1, <2>2, <2>4 DEF NextRecord
<1> QED BY <1>1, <1>2, PTL DEF SpecRecords, Spec, SpecResearch
=============================================================================
