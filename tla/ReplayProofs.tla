---------------------------- MODULE ReplayProofs ----------------------------
(***************************************************************************)
(* Theorems of Admission, for any items, requests, plans and bounds; of     *)
(* PortfolioReplay, for any items, bars, plans and amounts; and of          *)
(* ItemReplay, for any strategies, bars and length of the data.             *)
(*                                                                         *)
(* The ledgers are compared by sums over the items.  What a sum is worth is *)
(* an induction over subsets, done here as the search of a least            *)
(* counterexample: a nonempty set of naturals has a least element.          *)
(*                                                                         *)
(* A bar of one item is a composition of phases, so its proof is too: what  *)
(* holds between any two operations (Coherent), what a phase may rely on       *)
(* (Beginning, Filling, Tailing), and one lemma for each operation.         *)
(***************************************************************************)
EXTENDS Admission, PortfolioReplay, ItemReplay, FiniteSetTheorems, WellFoundedInduction, TLAPS

-----------------------------------------------------------------------------
(* Admission: the invariant *)

Roots == {RootOf[i] : i \in Items}
Members == {<<RootOf[i], p>> : i \in Items, p \in Pins}

\* Fingerprints of items.
Prints == UNION {[M -> {Cardinality(T) : T \in SUBSET Items}] : M \in SUBSET Members}

\* What an open request, and an admitted run, has read.
Reading ==
  [op : {"check", "run"}, pc : {"open", "plan", "entries", "facts"}, asks : BOOLEAN,
   expected : Prints, bad : SUBSET (Roots \cup {"feed"}),
   enabled : SUBSET Items, available : SUBSET Items, pins : SUBSET Members, fp : Prints,
   row : Nat, entries : Nat, revision : Nat]

Report == [fp : Prints, ready : BOOLEAN]

Types ==
  /\ item \in [Items -> [state : {"absent", "on", "off"}, pin : Pins]]
  /\ deleted \subseteq Roots /\ feed \in {"approved", "withdrawn"} /\ changes \in 0 .. MaxChanges
  /\ plan \in [version : Nat, entries : Nat, revision : Nat]
  /\ drafts \in Seq(Drafts) /\ plan.version = Len(drafts) /\ plan.entries = plan.version
  /\ revisions \in Seq(Nat) /\ plan.revision <= Len(revisions)
  /\ \A k \in 1 .. Len(revisions) : revisions[k] \in 1 .. Len(drafts)
  /\ reports \in Seq(Report)
  /\ runs \in Seq(Reading)
  /\ req \in [Requests -> Reading \cup {Done}]

\* What has been read of the plan exists, and a named revision is read as it was cut.
PlanRead(r) ==
  /\ r.row <= Len(drafts) /\ r.entries <= Len(drafts) /\ r.revision <= Len(revisions)
  /\ r.revision > 0 => r.row = revisions[r.revision] /\ r.entries = revisions[r.revision]

\* A request pins nothing that has been bad since it was opened, and goes on only with
\* the composition its client expects.
Sound(r) ==
  /\ r.bad \subseteq BadFacts /\ (r.op = "check" => r.bad = {})
  /\ \A p \in r.pins : p[1] \notin r.bad
  /\ r.asks /\ r.pc # "open" => r.fp = r.expected
  /\ PlanRead(r) /\ (r.pc # "facts" => r.revision = 0)

\* What an admitted run pins.
Checked(r) ==
  /\ \A p \in r.pins : p[1] \notin r.bad
  /\ "feed" \notin r.bad /\ r.pins \cap Invalid = {}
  /\ r.asks => r.fp = r.expected
  /\ PinnedConfig(r).enabled => PinnedConfig(r).shares \subseteq r.available
  /\ PlanRead(r)

Inv ==
  /\ Types
  /\ \A q \in Requests : req[q] # Done => Sound(req[q])
  /\ \A n \in 1 .. Len(runs) : Checked(runs[n])

-----------------------------------------------------------------------------
(* Readings *)

\* The columns of a reading.
LEMMA Columns ==
  ASSUME NEW r \in Reading
  PROVE  /\ r.op \in {"check", "run"} /\ r.pc \in {"open", "plan", "entries", "facts"} /\ r.asks \in BOOLEAN
         /\ r.expected \in Prints /\ r.fp \in Prints /\ r.bad \subseteq Roots \cup {"feed"}
         /\ r.enabled \subseteq Items /\ r.available \subseteq Items /\ r.pins \subseteq Members
         /\ r.row \in Nat /\ r.entries \in Nat /\ r.revision \in Nat
         /\ r # Done
BY DEF Reading, Done

\* A fingerprint of items is one.
LEMMA FingerprintType ==
  ASSUME Types, NEW S \in SUBSET Items
  PROVE  Fingerprint(S) \in Prints
<1> DEFINE M == {Member(i) : i \in S}
           C == {Cardinality(T) : T \in SUBSET Items}
<1>1. M \in SUBSET Members
  <2>1. \A i \in S : item[i].pin \in Pins
    BY DEF Types
  <2> QED BY <2>1 DEF Member, Members
<1>2. \A m \in M : Cardinality({i \in S : Member(i) = m}) \in C
  <2> SUFFICES ASSUME NEW m \in M PROVE {i \in S : Member(i) = m} \in SUBSET Items
    OBVIOUS
  <2> QED OBVIOUS
<1>3. Fingerprint(S) \in [M -> C]
  BY <1>2 DEF Fingerprint
<1> QED BY <1>1, <1>3 DEF Prints

\* A request forgets facts that change under it.
LEMMA Forgets ==
  ASSUME NEW r \in Reading, NEW X, NEW s, s = [r EXCEPT !.bad = @ \ X]
  PROVE  /\ s \in Reading /\ s.bad = r.bad \ X
         /\ s.op = r.op /\ s.pc = r.pc /\ s.asks = r.asks /\ s.expected = r.expected /\ s.fp = r.fp
         /\ s.pins = r.pins /\ s.row = r.row /\ s.entries = r.entries /\ s.revision = r.revision
BY DEF Reading

WithItems(r, E, A, P, f) ==
  [r EXCEPT !.pc = "plan", !.enabled = E, !.available = A, !.pins = P, !.fp = f]

WithPlan(r, pc, v, e, n) ==
  [r EXCEPT !.pc = pc, !.row = v, !.entries = e, !.revision = n]

\* A request reads the items.
LEMMA ReadsItems ==
  ASSUME NEW r \in Reading, NEW E \in SUBSET Items, NEW A \in SUBSET Items, NEW P \in SUBSET Members,
         NEW f \in Prints, NEW s, s = WithItems(r, E, A, P, f)
  PROVE  /\ s \in Reading /\ s.pins = P /\ s.fp = f /\ s.pc = "plan"
         /\ s.op = r.op /\ s.asks = r.asks /\ s.expected = r.expected /\ s.bad = r.bad
         /\ s.row = r.row /\ s.entries = r.entries /\ s.revision = r.revision
BY DEF Reading, WithItems

-----------------------------------------------------------------------------
(* Steps *)

\* Facts change: what was bad and has not changed is still bad.
LEMMA FactsStep ==
  ASSUME Inv, NEW X, FactsChange(X), BadFacts \ X \subseteq BadFacts', UNCHANGED <<capital, evidence>>,
         item' \in [Items -> [state : {"absent", "on", "off"}, pin : Pins]], deleted' \subseteq Roots,
         feed' \in {"approved", "withdrawn"}
  PROVE  Inv'
<1>1. /\ changes' \in 0 .. MaxChanges /\ req \in [Requests -> Reading \cup {Done}]
      /\ UNCHANGED <<plan, drafts, revisions, reports, runs>>
  BY AdmissionBoundsAssumption DEF FactsChange, Inv, Types, capital, evidence
<1>2. \A q \in Requests :
        IF req[q].op = "run" THEN req'[q] = [req[q] EXCEPT !.bad = @ \ X] ELSE req'[q] = req[q]
  BY DEF FactsChange
<1>3. ASSUME NEW q \in Requests, req[q] # Done
      PROVE  req'[q] \in Reading /\ Sound(req[q])'
  <2>1. req[q] \in Reading /\ Sound(req[q])
    BY <1>1, <1>3 DEF Inv
  <2> DEFINE r == req[q]
  <2>2. CASE r.op = "run"
    <3>1. req'[q] = [r EXCEPT !.bad = @ \ X]
      BY <1>2, <2>2
    <3>2. /\ req'[q] \in Reading /\ req'[q].bad = r.bad \ X
          /\ req'[q].op = r.op /\ req'[q].pc = r.pc /\ req'[q].asks = r.asks /\ req'[q].expected = r.expected
          /\ req'[q].fp = r.fp /\ req'[q].pins = r.pins
          /\ req'[q].row = r.row /\ req'[q].entries = r.entries /\ req'[q].revision = r.revision
      BY <2>1, <3>1, Forgets
    <3>3. r.bad \subseteq BadFacts /\ \A p \in r.pins : p[1] \notin r.bad
      BY <2>1 DEF Sound
    <3>4. req'[q].bad \subseteq BadFacts' /\ \A p \in req'[q].pins : p[1] \notin req'[q].bad
      BY <3>2, <3>3
    <3> QED BY <1>1, <2>1, <2>2, <3>2, <3>4 DEF Sound, PlanRead
  <2>3. CASE r.op = "check"
    <3>1. req'[q] = r
      BY <1>2, <2>3
    <3> QED BY <1>1, <2>1, <2>3, <3>1 DEF Sound, PlanRead
  <2> QED BY <2>1, <2>2, <2>3, Columns
<1>4. \A q \in Requests : req[q] = Done => req'[q] = Done
  BY <1>2 DEF Done
<1>5. req' \in [Requests -> Reading \cup {Done}]
  <2>1. \A q \in Requests : req'[q] \in Reading \cup {Done}
    BY <1>3, <1>4
  <2>2. req' = [q \in Requests |-> req'[q]]
    BY DEF FactsChange
  <2> QED BY <2>1, <2>2
<1>6. Types'
  BY <1>1, <1>5 DEF Inv, Types
<1>7. \A q \in Requests : req'[q] # Done => Sound(req[q])'
  BY <1>3, <1>4
<1>8. \A n \in 1 .. Len(runs') : Checked(runs[n])'
  BY <1>1 DEF Inv, Checked, PinnedConfig, PlanRead
<1> QED BY <1>6, <1>7, <1>8 DEF Inv

\* The mainboard, the library and the dataset are edited.
LEMMA EditSteps ==
  ASSUME Inv, Edit
  PROVE  Inv'
<1>1. /\ item \in [Items -> [state : {"absent", "on", "off"}, pin : Pins]] /\ deleted \subseteq Roots
      /\ feed \in {"approved", "withdrawn"}
  BY DEF Inv, Types
<1>2. ASSUME NEW i \in Items, NEW state \in {"on", "off"}, NEW pin \in Pins, EditItem(i, state, pin)
      PROVE  Inv'
  <2>1. item' \in [Items -> [state : {"absent", "on", "off"}, pin : Pins]]
    BY <1>1, <1>2 DEF EditItem
  <2>2. FactsChange({}) /\ UNCHANGED <<deleted, feed, capital, evidence>>
    BY <1>2 DEF EditItem
  <2> QED BY <1>1, <2>1, <2>2, FactsStep DEF BadFacts
<1>3. ASSUME NEW i \in Items, DeleteOrRestore(RootOf[i]) PROVE Inv'
  <2> DEFINE r == RootOf[i]
  <2>1. /\ FactsChange({r}) /\ UNCHANGED <<item, feed, capital, evidence>>
        /\ deleted' = IF r \in deleted THEN deleted \ {r} ELSE deleted \cup {r}
    BY <1>3 DEF DeleteOrRestore
  <2>2. deleted' \subseteq Roots
    BY <1>1, <2>1 DEF Roots
  <2>3. BadFacts \ {r} \subseteq BadFacts'
    BY <2>1 DEF BadFacts
  <2> QED BY <1>1, <2>1, <2>2, <2>3, FactsStep
<1>4. ASSUME FeedChanges PROVE Inv'
  <2>1. /\ FactsChange({"feed"}) /\ UNCHANGED <<item, deleted, capital, evidence>>
        /\ feed' \in {"approved", "withdrawn"}
    BY <1>4 DEF FeedChanges
  <2>2. BadFacts \ {"feed"} \subseteq BadFacts'
    BY <2>1 DEF BadFacts
  <2> QED BY <1>1, <2>1, <2>2, FactsStep
<1> QED BY <1>2, <1>3, <1>4 DEF Edit

\* The plan only grows: what was read of it stays what it was.
LEMMA PlanGrows ==
  ASSUME Types, drafts' \in Seq(Drafts), revisions' \in Seq(Nat), Len(drafts) <= Len(drafts'),
         Len(revisions) <= Len(revisions'), \A k \in 1 .. Len(drafts) : drafts'[k] = drafts[k],
         \A k \in 1 .. Len(revisions) : revisions'[k] = revisions[k],
         NEW r \in Reading, PlanRead(r)
  PROVE  PlanRead(r)' /\ PinnedConfig(r)' = PinnedConfig(r)
<1>1. /\ r.row \in Nat /\ r.entries \in Nat /\ r.revision \in Nat /\ Len(drafts) \in Nat /\ Len(drafts') \in Nat
      /\ Len(revisions) \in Nat /\ Len(revisions') \in Nat
  BY Columns DEF Types
<1>2. r.row <= Len(drafts) /\ r.entries <= Len(drafts) /\ r.revision <= Len(revisions)
  BY DEF PlanRead
<1>3. r.revision > 0 => revisions'[r.revision] = revisions[r.revision]
  BY <1>1, <1>2
<1>4. PlanRead(r)'
  BY <1>1, <1>2, <1>3 DEF PlanRead
<1>5. (r.row > 0 => drafts'[r.row] = drafts[r.row]) /\ (r.entries > 0 => drafts'[r.entries] = drafts[r.entries])
  BY <1>1, <1>2
<1> QED BY <1>4, <1>5 DEF PinnedConfig

\* What a change of the plan leaves.
PlanStep ==
  /\ drafts' \in Seq(Drafts) /\ Len(drafts') = Len(drafts) + 1
  /\ \A k \in 1 .. Len(drafts) : drafts'[k] = drafts[k]
  /\ revisions' \in Seq(Nat) /\ Len(revisions) <= Len(revisions')
  /\ \A k \in 1 .. Len(revisions) : revisions'[k] = revisions[k]
  /\ \A k \in 1 .. Len(revisions') : revisions'[k] \in 1 .. Len(drafts')
  /\ plan' \in [version : Nat, entries : Nat, revision : Nat]
  /\ plan'.version = Len(drafts') /\ plan'.entries = Len(drafts') /\ plan'.revision <= Len(revisions')
  /\ UNCHANGED <<board, evidence, req>>

\* The draft is replaced, or made a revision.
LEMMA PlanSteps ==
  ASSUME Inv, Plan
  PROVE  Inv'
<1>1. Types
  BY DEF Inv
<1>2. PlanStep
  <2>1. ASSUME NEW draft \in Drafts, UpsertDraft(draft) PROVE PlanStep
    <3>1. drafts' = Append(drafts, draft) /\ UNCHANGED <<board, revisions, evidence, req>>
      BY <2>1 DEF UpsertDraft
    <3>2. plan' = [plan EXCEPT !.version = @ + 1, !.entries = plan.version + 1]
      BY <2>1 DEF UpsertDraft
    <3>3. /\ plan' \in [version : Nat, entries : Nat, revision : Nat]
          /\ plan'.version = plan.version + 1 /\ plan'.entries = plan.version + 1 /\ plan'.revision = plan.revision
      <4> DEFINE n == plan.version + 1
      <4>1. plan \in [version : Nat, entries : Nat, revision : Nat] /\ n \in Nat
        BY <1>1 DEF Types
      <4>2. plan' = [plan EXCEPT !.version = n, !.entries = n]
        BY <3>2
      <4> HIDE DEF n
      <4>3. /\ plan' \in [version : Nat, entries : Nat, revision : Nat]
            /\ plan'.version = n /\ plan'.entries = n /\ plan'.revision = plan.revision
        BY <4>1, <4>2
      <4> QED BY <4>3 DEF n
    <3>4. /\ drafts' \in Seq(Drafts) /\ Len(drafts') = Len(drafts) + 1 /\ Len(drafts) \in Nat
          /\ \A k \in 1 .. Len(drafts) : drafts'[k] = drafts[k]
      BY <1>1, <3>1 DEF Types
    <3>5. /\ revisions' = revisions /\ plan'.revision <= Len(revisions)
          /\ \A k \in 1 .. Len(revisions) : revisions[k] \in 1 .. Len(drafts')
      BY <1>1, <3>1, <3>3, <3>4 DEF Types
    <3> QED BY <1>1, <3>1, <3>3, <3>4, <3>5 DEF Types, PlanStep
  <2>2. ASSUME FreezeDraft PROVE PlanStep
    <3> DEFINE v == plan.version
    <3>1. /\ v \in 1 .. MaxVersion - 1 /\ revisions' = Append(revisions, v) /\ drafts' = Append(drafts, drafts[v])
          /\ plan' = [version |-> v + 1, entries |-> v + 1, revision |-> Len(revisions) + 1]
          /\ UNCHANGED <<board, evidence, req>>
      BY <2>2 DEF FreezeDraft
    <3>2. v \in 1 .. Len(drafts) /\ v \in Nat /\ v = Len(drafts)
      BY <1>1, <3>1 DEF Types
    <3>3. drafts[v] \in Drafts
      BY <1>1, <3>2 DEF Types
    <3> HIDE DEF v
    <3> QED BY <1>1, <3>1, <3>2, <3>3 DEF Types, PlanStep
  <2> QED BY <2>1, <2>2 DEF Plan
<1>3. \A r \in Reading : PlanRead(r) => PlanRead(r)' /\ PinnedConfig(r)' = PinnedConfig(r)
  <2>1. /\ drafts' \in Seq(Drafts) /\ revisions' \in Seq(Nat) /\ Len(drafts) <= Len(drafts')
        /\ Len(revisions) <= Len(revisions')
        /\ \A k \in 1 .. Len(drafts) : drafts'[k] = drafts[k]
        /\ \A k \in 1 .. Len(revisions) : revisions'[k] = revisions[k]
    BY <1>1, <1>2 DEF Types, PlanStep
  <2> QED BY <1>1, <2>1, PlanGrows
<1>4. Types'
  BY <1>1, <1>2 DEF Types, board, evidence, PlanStep
<1>5. ASSUME NEW q \in Requests, req[q] # Done PROVE Sound(req[q])'
  <2>1. req[q] \in Reading /\ Sound(req[q])
    BY <1>1, <1>5 DEF Inv, Types
  <2>2. PlanRead(req[q])'
    BY <1>2, <1>3, <2>1 DEF Sound, PlanRead, PlanStep
  <2> QED BY <1>2, <2>1, <2>2 DEF Sound, BadFacts, board, PlanStep
<1>6. ASSUME NEW n \in 1 .. Len(runs) PROVE Checked(runs[n])'
  <2>1. runs[n] \in Reading /\ Checked(runs[n])
    BY <1>1 DEF Inv, Types
  <2>2. PlanRead(runs[n])' /\ PinnedConfig(runs[n])' = PinnedConfig(runs[n])
    BY <1>2, <1>3, <2>1 DEF Checked, PlanRead, PinnedConfig, PlanStep, evidence
  <2> QED BY <1>2, <2>1, <2>2 DEF Checked, evidence, PlanStep
<1> QED BY <1>2, <1>4, <1>5, <1>6 DEF Inv, evidence, PlanStep

\* A request that goes on, or ends, with nothing read that is not sound.
LEMMA RequestStep ==
  ASSUME Inv, NEW q \in Requests, NEW new \in Reading \cup {Done}, new # Done => Sound(new),
         req' = [req EXCEPT ![q] = new], UNCHANGED <<board, capital>>,
         reports' \in Seq(Report), runs' \in Seq(Reading),
         \A n \in 1 .. Len(runs') : (n \in 1 .. Len(runs) /\ runs'[n] = runs[n]) \/ Checked(runs'[n])
  PROVE  Inv'
<1>1. /\ req' \in [Requests -> Reading \cup {Done}]
      /\ \A s \in Requests : req'[s] = IF s = q THEN new ELSE req[s]
  BY DEF Inv, Types
<1>2. Types'
  BY <1>1 DEF Inv, Types, board, capital
<1>3. \A s \in Requests : req'[s] # Done => Sound(req[s])'
  BY <1>1 DEF Inv, Sound, PlanRead, BadFacts, board, capital
<1>4. \A n \in 1 .. Len(runs') : Checked(runs[n])'
  BY DEF Inv, Checked, PinnedConfig, PlanRead, capital
<1> QED BY <1>2, <1>3, <1>4 DEF Inv

\* A Ready Check or an admission is asked for.
LEMMA OpenStep ==
  ASSUME Inv, NEW q \in Requests, NEW op \in {"check", "run"}, NEW asks \in BOOLEAN, CheckOpen(q, op, asks)
  PROVE  Inv'
<1> DEFINE e == IF asks THEN reports[Len(reports)].fp ELSE Fingerprint({})
           b == IF op = "run" THEN BadFacts ELSE {}
           new == [op |-> op, pc |-> "open", asks |-> asks, expected |-> e, bad |-> b,
                   enabled |-> {}, available |-> {}, pins |-> {}, fp |-> Fingerprint({}),
                   row |-> 0, entries |-> 0, revision |-> 0]
<1>1. req' = [req EXCEPT ![q] = new] /\ UNCHANGED <<board, capital, evidence>> /\ (asks => reports # <<>>)
  BY DEF CheckOpen, Set
<1>2. Types
  BY DEF Inv
<1>3. Fingerprint({}) \in Prints
  BY <1>2, FingerprintType
<1>4. asks => reports[Len(reports)] \in Report
  BY <1>1, <1>2 DEF Types
<1>5. e \in Prints
  BY <1>3, <1>4 DEF Report
<1>6. b \subseteq BadFacts /\ b \subseteq Roots \cup {"feed"} /\ (op = "check" => b = {})
  BY <1>2 DEF BadFacts, Types
<1> HIDE DEF e, b
<1>7. new \in Reading
  BY <1>3, <1>5, <1>6 DEF Reading
<1>8. Sound(new)
  BY <1>2, <1>6 DEF Sound, PlanRead, Types
<1> HIDE DEF new
<1>9. reports' \in Seq(Report) /\ runs' = runs /\ runs \in Seq(Reading)
  BY <1>1, <1>2 DEF Types, evidence
<1> QED BY <1>1, <1>7, <1>8, <1>9, RequestStep

\* The items are read: what is available is not in the trash.
LEMMA ItemsStep ==
  ASSUME Inv, NEW q \in Requests, CheckItems(q)
  PROVE  Inv'
<1> DEFINE A == Available(EnabledItems)
           P == {Member(i) : i \in A}
           new == WithItems(req[q], EnabledItems, A, P, Live)
<1>1. /\ UNCHANGED <<board, capital, evidence>> /\ Types /\ req[q].pc = "open" /\ req[q].op \in {"check", "run"}
      /\ \/ req' = [req EXCEPT ![q] = Done]
         \/ req' = [req EXCEPT ![q] = new] /\ ~(req[q].asks /\ req[q].expected # Live)
  BY DEF CheckItems, Checking, Set, Inv, WithItems
<1>2. req[q] \in Reading /\ Sound(req[q])
  BY <1>1 DEF Inv, Types, Done
<1>3. reports' \in Seq(Report) /\ runs' = runs /\ runs \in Seq(Reading)
  BY <1>1 DEF Types, evidence
<1>4. CASE req' = [req EXCEPT ![q] = Done]
  BY <1>1, <1>3, <1>4, RequestStep
<1>5. CASE req' = [req EXCEPT ![q] = new] /\ ~(req[q].asks /\ req[q].expected # Live)
  <2>1. EnabledItems \in SUBSET Items /\ A \in SUBSET Items
    BY DEF EnabledItems, Available
  <2>2. P \in SUBSET Members
    <3>1. \A i \in A : item[i].pin \in Pins
      BY <1>1, <2>1 DEF Types
    <3> QED BY <2>1, <3>1 DEF Member, Members
  <2>3. Live \in Prints
    BY <1>1, <2>1, FingerprintType DEF Live
  <2>4. \A p \in P : p[1] \notin deleted /\ p[1] # "feed"
    BY <2>1, BoardAssumption DEF Available, Member
  <2>8. new = WithItems(req[q], EnabledItems, A, P, Live)
    OBVIOUS
  <2>9. req[q] \in Reading
    BY <1>2
  <2> HIDE DEF P, A, new
  <2>5. /\ new \in Reading /\ new.pins = P /\ new.fp = Live /\ new.pc = "plan"
        /\ new.op = req[q].op /\ new.asks = req[q].asks /\ new.expected = req[q].expected /\ new.bad = req[q].bad
        /\ new.row = req[q].row /\ new.entries = req[q].entries /\ new.revision = req[q].revision
    BY <2>1, <2>2, <2>3, <2>8, <2>9, ReadsItems
  <2>6. \A p \in P : p[1] \notin req[q].bad
    BY <1>2, <2>4 DEF Sound, BadFacts
  <2>7. Sound(new)
    BY <1>1, <1>2, <1>5, <2>5, <2>6 DEF Sound, PlanRead
  <2> QED BY <1>1, <1>3, <1>5, <2>5, <2>7, RequestStep
<1> QED BY <1>1, <1>4, <1>5

\* The plan's row and its entries are read, of the revision or of the draft.
LEMMA PlanReadSteps ==
  ASSUME Inv, NEW q \in Requests, CheckPlan(q) \/ CheckEntries(q)
  PROVE  Inv'
<1>1. UNCHANGED <<board, capital, evidence>> /\ Types /\ req[q].pc \in {"plan", "entries"} /\ req[q].op \in {"check", "run"}
  BY DEF CheckPlan, CheckEntries, Checking, Inv
<1>2. req[q] \in Reading /\ Sound(req[q])
  BY <1>1 DEF Inv, Types, Done
<1>3. reports' \in Seq(Report) /\ runs' = runs /\ runs \in Seq(Reading)
  BY <1>1 DEF Types, evidence
<1>4. /\ plan.version = Len(drafts) /\ plan.entries = Len(drafts) /\ Len(drafts) \in Nat
      /\ plan.revision \in Nat /\ plan.revision <= Len(revisions) /\ Len(revisions) \in Nat
      /\ \A k \in 1 .. Len(revisions) : revisions[k] \in 1 .. Len(drafts)
  BY <1>1 DEF Types
<1>5. /\ req[q].row \in Nat /\ req[q].entries \in Nat /\ req[q].revision = 0
      /\ req[q].row <= Len(drafts) /\ req[q].entries <= Len(drafts)
  BY <1>1, <1>2, Columns DEF Sound, PlanRead
<1>6. ASSUME NEW pc \in {"entries", "facts"}, NEW v \in Nat, NEW e \in Nat, NEW n \in Nat,
             req' = [req EXCEPT ![q] = WithPlan(req[q], pc, v, e, n)],
             v <= Len(drafts), e <= Len(drafts), n <= Len(revisions),
             n > 0 => pc = "facts" /\ v = revisions[n] /\ e = revisions[n]
      PROVE  Inv'
  <2> DEFINE new == WithPlan(req[q], pc, v, e, n)
  <2>1. new = WithPlan(req[q], pc, v, e, n) /\ req' = [req EXCEPT ![q] = new]
    BY <1>6
  <2> HIDE DEF new
  <2>2. req[q] \in Reading
    BY <1>2
  <2>3. /\ new \in Reading /\ new.row = v /\ new.entries = e /\ new.revision = n /\ new.pc = pc
        /\ new.op = req[q].op /\ new.asks = req[q].asks /\ new.expected = req[q].expected /\ new.bad = req[q].bad
        /\ new.pins = req[q].pins /\ new.fp = req[q].fp
    BY <1>6, <2>1, <2>2 DEF Reading, WithPlan
  <2>4. Sound(new)
    BY <1>1, <1>2, <1>6, <2>3 DEF Sound, PlanRead
  <2> QED BY <1>1, <1>3, <2>1, <2>3, <2>4, RequestStep
<1>7. ASSUME CheckPlan(q), plan.version > 0 /\ drafts[plan.version].enabled /\ plan.revision > 0
      PROVE  Inv'
  <2> DEFINE v == revisions[plan.revision]
  <2>1. v \in 1 .. Len(drafts) /\ v \in Nat /\ v <= Len(drafts)
    BY <1>4, <1>7
  <2>2. req' = [req EXCEPT ![q] = WithPlan(req[q], "facts", v, v, plan.revision)]
    BY <1>7 DEF CheckPlan, Set, WithPlan
  <2> HIDE DEF v
  <2>3. plan.revision <= Len(revisions) /\ plan.revision \in Nat /\ v = revisions[plan.revision]
    BY <1>4 DEF v
  <2> QED BY <1>6, <2>1, <2>2, <2>3
<1>8. ASSUME CheckPlan(q), ~(plan.version > 0 /\ drafts[plan.version].enabled /\ plan.revision > 0)
      PROVE  Inv'
  <2>1. req' = [req EXCEPT ![q] = [req[q] EXCEPT !.pc = "entries", !.row = plan.version]]
    BY <1>8 DEF CheckPlan, Set
  <2>2. [req[q] EXCEPT !.pc = "entries", !.row = plan.version]
          = WithPlan(req[q], "entries", plan.version, req[q].entries, 0)
    BY <1>2, <1>5 DEF Reading, WithPlan
  <2> DEFINE v == plan.version
           e == req[q].entries
           n == 0
  <2>3. req' = [req EXCEPT ![q] = WithPlan(req[q], "entries", v, e, n)]
    BY <2>1, <2>2
  <2>4. /\ v \in Nat /\ e \in Nat /\ v <= Len(drafts) /\ e <= Len(drafts) /\ n <= Len(revisions)
        /\ n \in Nat /\ ~(n > 0)
    BY <1>4, <1>5
  <2> HIDE DEF v, e, n
  <2> QED BY <1>6, <2>3, <2>4
<1>9. ASSUME CheckEntries(q) PROVE Inv'
  <2>1. req' = [req EXCEPT ![q] = [req[q] EXCEPT !.pc = "facts", !.entries = plan.entries]]
    BY <1>9 DEF CheckEntries, Set
  <2>2. [req[q] EXCEPT !.pc = "facts", !.entries = plan.entries]
          = WithPlan(req[q], "facts", req[q].row, plan.entries, 0)
    BY <1>2, <1>5 DEF Reading, WithPlan
  <2> DEFINE v == req[q].row
           e == plan.entries
           n == 0
  <2>3. req' = [req EXCEPT ![q] = WithPlan(req[q], "facts", v, e, n)]
    BY <2>1, <2>2
  <2>4. /\ v \in Nat /\ e \in Nat /\ v <= Len(drafts) /\ e <= Len(drafts) /\ n <= Len(revisions)
        /\ n \in Nat /\ ~(n > 0)
    BY <1>4, <1>5
  <2> HIDE DEF v, e, n
  <2> QED BY <1>6, <2>3, <2>4
<1> QED BY <1>7, <1>8, <1>9

\* A Ready Check reports the composition it has read.
LEMMA CheckCommitStep ==
  ASSUME Inv, NEW q \in Requests, CheckCommit(q)
  PROVE  Inv'
<1> DEFINE report == [fp |-> req[q].fp, ready |-> ~Blocked(req[q])]
<1>1. /\ req[q].op = "check" /\ reports' = Append(reports, report) /\ req' = [req EXCEPT ![q] = Done]
      /\ UNCHANGED <<board, capital, runs>> /\ Types
  BY DEF CheckCommit, Is, Set, Inv
<1>2. req[q] \in Reading
  BY <1>1 DEF Types, Done
<1>3. report \in Report
  <2>1. Blocked(req[q]) \in BOOLEAN
    BY DEF Blocked, CompositionBlocked, GoneBlocked, PinsBlocked, FeedBlocked, AllocationBlocked
  <2> QED BY <1>2, <2>1, Columns DEF Report
<1> HIDE DEF report
<1>4. reports' \in Seq(Report) /\ runs' = runs /\ runs \in Seq(Reading)
  BY <1>1, <1>3 DEF Types
<1> QED BY <1>1, <1>4, RequestStep

\* An admission without blockers pins what its preflight has read.
LEMMA AdmitStep ==
  ASSUME Inv, NEW q \in Requests, AdmitCommit(q)
  PROVE  Inv'
<1>1. /\ req[q].op = "run" /\ req[q].pc = "facts" /\ req' = [req EXCEPT ![q] = Done]
      /\ runs' = IF Blocked(req[q]) THEN runs ELSE Append(runs, req[q])
      /\ UNCHANGED <<board, capital, reports>> /\ Types
  BY DEF AdmitCommit, Is, Set, Inv
<1>2. req[q] \in Reading /\ Sound(req[q])
  BY <1>1 DEF Inv, Types, Done
<1>3. reports' \in Seq(Report) /\ runs \in Seq(Reading)
  BY <1>1 DEF Types
<1>4. CASE Blocked(req[q])
  BY <1>1, <1>3, <1>4, RequestStep
<1>5. CASE ~Blocked(req[q])
  <2>1. /\ feed # "withdrawn" /\ req[q].pins \cap Invalid = {}
        /\ ~AllocationBlocked(PinnedConfig(req[q]), req[q].available)
    BY <1>5 DEF Blocked, FeedBlocked, PinsBlocked
  <2>2. PinnedConfig(req[q]).enabled => PinnedConfig(req[q]).shares \subseteq req[q].available
    BY <2>1 DEF AllocationBlocked
  <2>3. "feed" \notin req[q].bad
    BY <1>1, <1>2, <2>1, BoardAssumption DEF Sound, BadFacts, Types, Roots
  <2>4. Checked(req[q])
    BY <1>1, <1>2, <2>1, <2>2, <2>3 DEF Sound, Checked
  <2>5. runs' = Append(runs, req[q])
    BY <1>1, <1>5
  <2>6. /\ runs' \in Seq(Reading) /\ Len(runs') = Len(runs) + 1 /\ Len(runs) \in Nat
        /\ runs'[Len(runs) + 1] = req[q] /\ \A n \in 1 .. Len(runs) : runs'[n] = runs[n]
    BY <1>2, <1>3, <2>5
  <2>7. \A n \in 1 .. Len(runs') : (n \in 1 .. Len(runs) /\ runs'[n] = runs[n]) \/ Checked(runs'[n])
    BY <2>4, <2>6
  <2> QED BY <1>1, <1>3, <2>6, <2>7, RequestStep
<1> QED BY <1>4, <1>5

-----------------------------------------------------------------------------
(* The invariant holds *)

\* Nothing is on the board yet.
LEMMA Initially == Init => Inv
<1> SUFFICES ASSUME Init PROVE Inv
  OBVIOUS
<1>1. item \in [Items -> [state : {"absent", "on", "off"}, pin : Pins]]
  BY BoardAssumption DEF Init
<1>2. req \in [Requests -> Reading \cup {Done}] /\ \A q \in Requests : req[q] = Done
  BY DEF Init
<1>3. Len(runs) = 0 /\ Len(drafts) = 0 /\ Len(revisions) = 0
  BY DEF Init
<1>4. Types
  BY <1>1, <1>2, <1>3, AdmissionBoundsAssumption DEF Init, Types
<1> QED BY <1>2, <1>3, <1>4 DEF Inv

\* Every step preserves the invariant.
LEMMA Preserved == Inv /\ [Next]_vars => Inv'
<1> SUFFICES ASSUME Inv, [Next]_vars PROVE Inv'
  OBVIOUS
<1>1. CASE Edit
  BY <1>1, EditSteps
<1>2. CASE Plan
  BY <1>2, PlanSteps
<1>3. ASSUME NEW q \in Requests, CheckStep(q) PROVE Inv'
  BY <1>3, OpenStep, ItemsStep, PlanReadSteps, CheckCommitStep, AdmitStep DEF CheckStep
<1>4. CASE UNCHANGED vars
  BY <1>4 DEF vars, board, capital, evidence, Inv, Types, Sound, Checked, PlanRead, PinnedConfig, BadFacts
<1> QED BY <1>1, <1>2, <1>3, <1>4 DEF Next

\* The invariant implies the properties.
LEMMA InvTells == Inv => AdmittedRunIsSound /\ RunIsWhatWasChecked
<1> SUFFICES ASSUME Inv PROVE AdmittedRunIsSound /\ RunIsWhatWasChecked
  OBVIOUS
<1>1. Types /\ \A n \in 1 .. Len(runs) : Checked(runs[n])
  BY DEF Inv
<1>2. \A n \in 1 .. Len(runs) : runs[n] \in Reading
  BY <1>1 DEF Types
<1>3. AdmittedRunIsSound
  BY <1>1 DEF AdmittedRunIsSound, Admitted, Checked
<1>4. RunIsTheReportedComposition /\ SharesArePinned /\ NamedRevisionIsPinned
  BY <1>1 DEF RunIsTheReportedComposition, SharesArePinned, NamedRevisionIsPinned, Admitted, Checked, PlanRead
<1>5. TypeOK
  <2>1. \A n \in 1 .. Len(runs) : runs[n].available \subseteq Items
    BY <1>2, Columns
  <2>2. \A q \in Requests : Idle(q) \/ req[q].op \in {"check", "run"}
    BY <1>1, Columns DEF Types, Idle
  <2>3. \A n \in 1 .. Len(reports) : reports[n].ready \in BOOLEAN
    <3>1. \A n \in 1 .. Len(reports) : reports[n] \in Report
      BY <1>1 DEF Types
    <3> QED BY <3>1 DEF Report
  <2>4. plan.revision \in 0 .. Len(revisions)
    BY <1>1 DEF Types
  <2> QED BY <1>1, <2>1, <2>2, <2>3, <2>4 DEF TypeOK, Types, Roots
<1> QED BY <1>3, <1>4, <1>5 DEF RunIsWhatWasChecked

-----------------------------------------------------------------------------
(* Theorems *)

\* A run pins nothing that was bad all through its admission.
THEOREM AdmittedRunsAreSound == Spec => []AdmittedRunIsSound
BY Initially, Preserved, InvTells, PTL DEF Spec

\* An admitted run executes the composition its client was shown, under capital that funds
\* what it pins and under the plan revision it names.
THEOREM RunsAreWhatWasChecked == Spec => []RunIsWhatWasChecked
BY Initially, Preserved, InvTells, PTL DEF Spec

-----------------------------------------------------------------------------
(* The portfolio: what is known of a tick *)

Grants == Outcome("admitted") \cup Outcome("capped")
Passed == Outcome("survived") \cup Outcome("rejected") \cup Grants
Ticking == {"P4", "P5", "P6", "P7"}

\* What the grants that wait to be applied will cost, all of them and those up to an item.
Due(i) == decisions[i].units * Price[i]
Waiting == IF phase = "P6" THEN Grants ELSE IF phase = "P7" THEN todo ELSE {}
Pending == SumFunction([j \in Ordinals |-> IF j \in Waiting THEN Due(j) ELSE 0])
PendingUpTo(i) == SumFunction([j \in Ordinals |-> IF j \in Waiting /\ j <= i THEN Due(j) ELSE 0])

\* The records of a tick exist while it lasts, and speak of items with a bar in it.
TickRecords ==
  /\ phase \notin Ticking \cup {"failed"} =>
       \A i \in Ordinals : intents[i] = NoIntent /\ decisions[i] = Undecided
  /\ phase \notin {"P6", "P7", "failed"} => committed = 0
  /\ phase = "P4" => /\ \A i \in Ordinals : decisions[i] = Undecided
                     /\ \A i \in todo : intents[i] = NoIntent /\ Fresh(i)
  /\ phase \in Ticking => snap.equity = equity /\ \A i \in Intending : Fresh(i)
  /\ phase \in Ticking \ {"P7"} => \A i \in Intending : positions[i] = Flat

\* Which items each phase still has to ask, and what they have been told.
TickOrder ==
  /\ phase = "P5" => /\ todo \subseteq Intending
                     /\ \A i \in todo : decisions[i].outcome = "none"
                     /\ \A i \in Ordinals : decisions[i].outcome \in {"none", "survived", "blocked"}
  /\ phase = "P6" => /\ todo = Outcome("survived")
                     /\ \A i \in Grants, j \in todo : i < j
  /\ phase = "P7" => todo \subseteq Grants /\ \A i \in todo : positions[i] = Flat
  /\ phase \in Ticking => \A i \in Ordinals : decisions[i].outcome # "none" => i \in Intending
  /\ phase = "P10" => Held \subseteq todo
  /\ phase = "done" => Held = {}

\* What is granted is planned and paid for, in the order in which it is applied.
GrantsFit ==
  /\ phase \in {"P6", "P7"} => \A i \in Grants :
       /\ decisions[i].units \in 1 .. intents[i].size
       /\ decisions[i].units <= HalfEven(SleeveCapacity(i, snap.equity), Whole * Price[i])
  /\ phase = "P6" => committed = Pending
  /\ Waiting # {} => GrossExposure + Pending <= Allocatable(equity)
  /\ pinned.cap # NoCap => \A i \in Waiting : 2 * (GrossExposure + PendingUpTo(i)) <= 2 * pinned.cap + Price[i]

\* Whoever holds or has passed P5 opposes nobody who does.
Stance(i) == IF positions[i] # Flat THEN positions[i].dir ELSE intents[i].dir
NoOpposition ==
  pinned.block => \A i, j \in Held \cup Passed :
    i # j /\ MayBeSame(i, j) => ~Opposes(Stance(i), Stance(j))

GaveWay ==
  \A i \in Outcome("blocked") :
    LET j == decisions[i].by
    IN  j \in Ordinals \ {i} /\ (j \in Passed \/ (decisions[j].outcome = "none" /\ j \in Held))

\* The rows follow the lots, and the lots the positions.
RowsFollow ==
  /\ equity = Pool + rows.net + rows.final - bucket.funding
  /\ phase \notin {"P10", "done"} => lots = Held /\ rows.final = 0
  /\ \A i \in Held : LastClosed(i) # {}

\* The curve is behind the ledger by at most the tick under way.
CurveFollows ==
  /\ Len(points) >= 1 /\ points[Len(points)].t <= now
  /\ phase \in {"P1", "P3"} \cup Ticking => points[Len(points)].t < now
  /\ CurveIsTheLedger /\ DrawdownCoversTheCurve
  /\ peak >= equity /\ \A k \in 1 .. Len(points) : peak >= points[k].equity

PortfolioInv ==
  /\ TypeOKPortfolio /\ BooksBalance /\ BooksPartByTheEntryFees
  /\ TickRecords /\ TickOrder /\ GrantsFit /\ NoOpposition /\ GaveWay /\ RowsFollow /\ CurveFollows
  /\ UnmarkedOnlyByAge /\ GrantsAreApplicable

-----------------------------------------------------------------------------
(* Sums over a finite set *)

\* A set of naturals has a least element: an induction is the search of a least
\* counterexample.
LEMMA LeastElement ==
  ASSUME NEW T, T \subseteq Nat, T # {}
  PROVE  \E x \in T : \A y \in T : x <= y
<1> DEFINE R == OpToRel(<, Nat)
<1>1. IsWellFoundedOn(R, Nat)
  BY NatLessThanWellFounded
<1>2. \A x, y \in T : y < x => <<y, x>> \in R
  BY DEF OpToRel
<1> HIDE DEF R
<1>3. PICK x \in T : \A y \in T : ~(<<y, x>> \in R)
  BY <1>1, WFMin
<1>4. \A y \in T : ~(y < x)
  BY <1>2, <1>3
<1> QED BY <1>4

\* The element a sum takes next.
Pick(s) == CHOOSE x \in s : TRUE

\* The element it takes is one of the set.
LEMMA PickIs ==
  ASSUME NEW s, s # {}
  PROVE  Pick(s) \in s
BY DEF Pick

\* What the sum has left is a smaller subset.
LEMMA PickLeaves ==
  ASSUME NEW S, IsFiniteSet(S), NEW s \in SUBSET S, s # {}
  PROVE  /\ IsFiniteSet(s) /\ Cardinality(s) \in Nat /\ Cardinality(s) # 0
         /\ s \ {Pick(s)} \in SUBSET S /\ Cardinality(s \ {Pick(s)}) = Cardinality(s) - 1
<1>1. IsFiniteSet(s) /\ Pick(s) \in s
  BY FS_Subset, PickIs
<1>2. Cardinality(s) \in Nat /\ Cardinality(s) # 0
  BY <1>1, FS_CardinalityType, FS_EmptySet
<1>3. Cardinality(s \ {Pick(s)}) = Cardinality(s) - 1
  BY <1>1, FS_RemoveElement
<1> QED BY <1>1, <1>2, <1>3

\* What holds of the empty set, and of a set when it holds without its next element, holds
\* of every subset.
LEMMA SubsetInduction ==
  ASSUME NEW S, IsFiniteSet(S), NEW T, {} \in T,
         \A s \in SUBSET S : s # {} /\ s \ {Pick(s)} \in T => s \in T
  PROVE  \A s \in SUBSET S : s \in T
<1> DEFINE bad == {n \in Nat : \E s \in SUBSET S : s \notin T /\ Cardinality(s) = n}
<1>1. \A s \in SUBSET S : Cardinality(s) \in Nat
  BY FS_Subset, FS_CardinalityType
<1>2. SUFFICES ASSUME bad # {} PROVE FALSE
  BY <1>1
<1>3. PICK n \in bad : \A m \in bad : n <= m
  BY <1>2, LeastElement
<1>4. PICK s \in SUBSET S : s \notin T /\ Cardinality(s) = n
  BY <1>3
<1>5. s # {}
  BY <1>4
<1>6. s \ {Pick(s)} \in SUBSET S /\ Cardinality(s \ {Pick(s)}) = n - 1 /\ n - 1 \in Nat
  BY <1>4, <1>5, PickLeaves
<1>7. n - 1 \notin bad
  BY <1>3, <1>6
<1>8. s \ {Pick(s)} \in T
  BY <1>6, <1>7
<1> QED BY <1>4, <1>5, <1>8

\* The partial sums of f, as the fold computes them.
SumsUp(iter, f) ==
  iter = [s \in SUBSET DOMAIN f |-> IF s = {} THEN 0 ELSE f[Pick(s)] + iter[s \ {Pick(s)}]]
Partial(f) == CHOOSE iter : SumsUp(iter, f)

Summable(f, S) == IsFiniteSet(S) /\ f \in [S -> Int]
Accumulates(sum, f, S) ==
  /\ sum \in [SUBSET S -> Int] /\ sum[{}] = 0
  /\ \A s \in SUBSET S : s # {} => sum[s] = f[Pick(s)] + sum[s \ {Pick(s)}]

\* SumFunction of the community modules is the partial sum of the whole domain.
LEMMA SumIsPartial ==
  ASSUME NEW f
  PROVE  SumFunction(f) = Partial(f)[DOMAIN f]
BY DEF SumFunction, SumFunctionOnSet, FoldFunctionOnSet, MapThenFoldSet, Partial, SumsUp, Pick

\* The recursion has a solution: it is built for subsets of growing cardinality.
LEMMA PartialExists ==
  ASSUME NEW S, NEW f, Summable(f, S)
  PROVE  \E iter : SumsUp(iter, f)
<1> USE DEF Summable
<1> DEFINE Upto(n) == {s \in SUBSET S : Cardinality(s) <= n}
           Solves(g, n) == /\ g \in [Upto(n) -> Int]
                           /\ \A s \in Upto(n) : g[s] = IF s = {} THEN 0 ELSE f[Pick(s)] + g[s \ {Pick(s)}]
           bad == {n \in Nat : ~ \E g : Solves(g, n)}
<1>1. \A s \in SUBSET S : Cardinality(s) \in Nat /\ (Cardinality(s) = 0 => s = {})
  BY FS_Subset, FS_CardinalityType, FS_EmptySet
<1>2. \A s \in SUBSET S : s # {} =>
        f[Pick(s)] \in Int /\ s \ {Pick(s)} \in SUBSET S /\ Cardinality(s \ {Pick(s)}) = Cardinality(s) - 1
  BY PickIs, PickLeaves
<1>3. 0 \notin bad
  <2> DEFINE g == [s \in Upto(0) |-> 0]
  <2>1. \A s \in Upto(0) : s = {}
    BY <1>1
  <2>2. Solves(g, 0)
    BY <2>1
  <2> QED BY <2>2
<1>4. ASSUME NEW n \in Nat, NEW g, Solves(g, n) PROVE \E h : Solves(h, n + 1)
  <2> DEFINE h == [s \in Upto(n + 1) |-> IF s = {} THEN 0 ELSE f[Pick(s)] + g[s \ {Pick(s)}]]
  <2>1. \A s \in Upto(n + 1) : s # {} => s \ {Pick(s)} \in Upto(n)
    BY <1>1, <1>2
  <2>2. \A s \in Upto(n + 1) : s # {} => g[s \ {Pick(s)}] \in Int
    BY <1>4, <2>1
  <2>3. h \in [Upto(n + 1) -> Int]
    BY <1>2, <2>2
  <2>4. \A s \in Upto(n) : s \in Upto(n + 1) /\ h[s] = g[s]
    <3>1. \A s \in Upto(n) : s \in Upto(n + 1)
      BY <1>1
    <3> QED BY <1>4, <3>1
  <2>5. \A s \in Upto(n + 1) : h[s] = IF s = {} THEN 0 ELSE f[Pick(s)] + h[s \ {Pick(s)}]
    BY <2>1, <2>4
  <2> HIDE DEF h
  <2> QED BY <2>3, <2>5
<1>5. bad = {}
  <2> SUFFICES ASSUME bad # {} PROVE FALSE
    OBVIOUS
  <2>1. PICK m \in bad : \A k \in bad : m <= k
    BY LeastElement
  <2>2. m # 0 /\ m \in Nat
    BY <1>3, <2>1
  <2> HIDE DEF Solves
  <2>3. m - 1 \in Nat
    BY <2>2
  <2>6. m - 1 \notin bad
    <3> HIDE DEF bad
    <3>1. m \in Nat /\ ~(m <= m - 1)
      BY <2>2
    <3> QED BY <2>1, <3>1
  <2>4. PICK g : Solves(g, m - 1)
    BY <2>3, <2>6
  <2>5. \E h : Solves(h, (m - 1) + 1)
    BY <1>4, <2>3, <2>4
  <2> QED BY <2>1, <2>2, <2>5
<1>6. Cardinality(S) \in Nat /\ \A s \in SUBSET S : Cardinality(s) <= Cardinality(S)
  BY FS_CardinalityType, FS_Subset
<1>7. PICK g : Solves(g, Cardinality(S))
  BY <1>5, <1>6
<1>8. Upto(Cardinality(S)) = SUBSET S
  BY <1>6
<1>9. g = [s \in SUBSET S |-> IF s = {} THEN 0 ELSE f[Pick(s)] + g[s \ {Pick(s)}]]
  BY <1>7, <1>8
<1> QED BY <1>9 DEF SumsUp

\* The partial sums accumulate, and the sum is the last of them.
LEMMA PartialSums ==
  ASSUME NEW S, NEW f, Summable(f, S)
  PROVE  Accumulates(Partial(f), f, S) /\ SumFunction(f) = Partial(f)[S]
<1> DEFINE iter == Partial(f)
<1>0. DOMAIN f = S /\ IsFiniteSet(S) /\ f \in [S -> Int]
  BY DEF Summable
<1>8. SumsUp(iter, f)
  BY PartialExists DEF Partial
<1>1. iter = [s \in SUBSET S |-> IF s = {} THEN 0 ELSE f[Pick(s)] + iter[s \ {Pick(s)}]]
  BY <1>0, <1>8 DEF SumsUp
<1> HIDE DEF iter
<1>2. iter[{}] = 0 /\ \A s \in SUBSET S : s # {} => iter[s] = f[Pick(s)] + iter[s \ {Pick(s)}]
  BY <1>1
<1> DEFINE T == {s \in SUBSET S : iter[s] \in Int}
<1>3. \A s \in SUBSET S : s \in T
  <2>1. {} \in T
    BY <1>2
  <2>2. ASSUME NEW s \in SUBSET S, s # {}, s \ {Pick(s)} \in T PROVE s \in T
    BY <1>0, <1>2, <2>2, PickIs
  <2> HIDE DEF T
  <2> QED BY <1>0, <2>1, <2>2, SubsetInduction
<1>4. iter \in [SUBSET S -> Int]
  BY <1>1, <1>3
<1>5. SumFunction(f) = iter[S]
  BY <1>0, SumIsPartial DEF iter
<1> QED BY <1>2, <1>4, <1>5 DEF iter, Accumulates

\* A sum of integers is an integer.
LEMMA SumType ==
  ASSUME NEW S, NEW f, Summable(f, S)
  PROVE  SumFunction(f) \in Int
<1>1. Accumulates(Partial(f), f, S) /\ SumFunction(f) = Partial(f)[S]
  BY PartialSums
<1> QED BY <1>1 DEF Accumulates

\* A sum of naturals is a natural.
LEMMA SumNatural ==
  ASSUME NEW S, NEW f, Summable(f, S), \A i \in S : f[i] >= 0
  PROVE  SumFunction(f) \in Nat
<1> DEFINE sum == Partial(f)
           T == {s \in SUBSET S : sum[s] >= 0}
<1>1. Accumulates(sum, f, S) /\ SumFunction(f) = sum[S]
  BY PartialSums
<1>2. IsFiniteSet(S) /\ f \in [S -> Int]
  BY DEF Summable
<1> USE DEF Accumulates
<1> HIDE DEF sum
<1>3. {} \in T
  BY <1>1
<1>4. ASSUME NEW s \in SUBSET S, s # {}, s \ {Pick(s)} \in T PROVE s \in T
  <2>1. Pick(s) \in S /\ f[Pick(s)] \in Int /\ f[Pick(s)] >= 0
    BY <1>2, <1>4, PickIs
  <2>2. sum[s \ {Pick(s)}] \in Int /\ sum[s \ {Pick(s)}] >= 0
    BY <1>1, <1>4
  <2> QED BY <1>1, <1>4, <2>1, <2>2
<1> HIDE DEF T
<1>5. S \in T
  BY <1>2, <1>3, <1>4, SubsetInduction
<1> QED BY <1>1, <1>5 DEF T

\* A sum of zeros is zero.
LEMMA SumZero ==
  ASSUME NEW S, NEW f, Summable(f, S), \A i \in S : f[i] = 0
  PROVE  SumFunction(f) = 0
<1> DEFINE sum == Partial(f)
           T == {s \in SUBSET S : sum[s] = 0}
<1>1. Accumulates(sum, f, S) /\ SumFunction(f) = sum[S]
  BY PartialSums
<1>2. IsFiniteSet(S) /\ f \in [S -> Int]
  BY DEF Summable
<1> USE DEF Accumulates
<1> HIDE DEF sum
<1>3. {} \in T
  BY <1>1
<1>4. ASSUME NEW s \in SUBSET S, s # {}, s \ {Pick(s)} \in T PROVE s \in T
  BY <1>1, <1>4, PickIs
<1> HIDE DEF T
<1>5. S \in T
  BY <1>2, <1>3, <1>4, SubsetInduction
<1> QED BY <1>1, <1>5 DEF T

\* One summand changes.
LEMMA SumChanges ==
  ASSUME NEW S, NEW f, NEW g, Summable(f, S), Summable(g, S), NEW i \in S,
         \A j \in S \ {i} : g[j] = f[j]
  PROVE  SumFunction(g) = SumFunction(f) + g[i] - f[i]
<1> DEFINE a == Partial(f)
           b == Partial(g)
           more(s) == IF i \in s THEN g[i] - f[i] ELSE 0
           T == {s \in SUBSET S : b[s] = a[s] + more(s)}
<1>1. Accumulates(a, f, S) /\ SumFunction(f) = a[S]
  BY PartialSums
<1>2. Accumulates(b, g, S) /\ SumFunction(g) = b[S]
  BY PartialSums
<1>3. IsFiniteSet(S) /\ f \in [S -> Int] /\ g \in [S -> Int]
  BY DEF Summable
<1> USE DEF Accumulates
<1> HIDE DEF a, b
<1>4. {} \in T
  BY <1>1, <1>2
<1>5. ASSUME NEW s \in SUBSET S, s # {}, s \ {Pick(s)} \in T PROVE s \in T
  <2>1. a[s] = f[Pick(s)] + a[s \ {Pick(s)}] /\ b[s] = g[Pick(s)] + b[s \ {Pick(s)}]
    BY <1>1, <1>2, <1>5
  <2>2. Pick(s) \in S /\ Pick(s) \in s /\ s \ {Pick(s)} \in SUBSET S
    BY <1>5, PickIs
  <2>3. a[s \ {Pick(s)}] \in Int /\ b[s \ {Pick(s)}] = a[s \ {Pick(s)}] + more(s \ {Pick(s)})
    BY <1>1, <1>5, <2>2
  <2>4. f[Pick(s)] \in Int /\ g[Pick(s)] \in Int /\ f[i] \in Int /\ g[i] \in Int
    BY <1>3, <2>2
  <2>5. CASE Pick(s) = i
    <3>1. more(s) = g[i] - f[i] /\ more(s \ {Pick(s)}) = 0
      BY <2>2, <2>5
    <3> QED BY <2>1, <2>3, <2>4, <2>5, <3>1
  <2>6. CASE Pick(s) # i
    <3>1. more(s) = more(s \ {Pick(s)}) /\ g[Pick(s)] = f[Pick(s)]
      BY <2>2, <2>6
    <3>2. more(s) \in Int
      BY <2>4
    <3> HIDE DEF more
    <3>3. b[s] = a[s] + more(s)
      BY <2>1, <2>3, <2>4, <3>1, <3>2
    <3> QED BY <3>3
  <2> QED BY <2>5, <2>6
<1> HIDE DEF T
<1>6. S \in T
  BY <1>3, <1>4, <1>5, SubsetInduction
<1>7. b[S] = a[S] + (g[i] - f[i])
  BY <1>6 DEF T
<1>8. a[S] \in Int /\ f[i] \in Int /\ g[i] \in Int
  BY <1>1, <1>3
<1> QED BY <1>1, <1>2, <1>7, <1>8

\* One summand moves, and the sum by as much.
LEMMA SumMoves ==
  ASSUME NEW S, NEW f, NEW g, Summable(f, S), Summable(g, S), NEW i \in S, NEW d \in Int,
         \A j \in S \ {i} : g[j] = f[j], g[i] = f[i] + d
  PROVE  SumFunction(g) = SumFunction(f) + d
<1>1. SumFunction(g) = SumFunction(f) + g[i] - f[i]
  BY SumChanges
<1>2. SumFunction(f) \in Int /\ f[i] \in Int
  BY SumType DEF Summable
<1> QED BY <1>1, <1>2

\* No natural summand is more than the sum.
LEMMA SumCovers ==
  ASSUME NEW S, NEW f, Summable(f, S), \A j \in S : f[j] >= 0, NEW i \in S
  PROVE  f[i] <= SumFunction(f)
<1> DEFINE g == [f EXCEPT ![i] = 0]
<1>1. f \in [S -> Int] /\ f[i] \in Int
  BY DEF Summable
<1>2. Summable(g, S) /\ (\A j \in S \ {i} : g[j] = f[j]) /\ g[i] = 0 /\ \A j \in S : g[j] >= 0
  BY <1>1 DEF Summable
<1> HIDE DEF g
<1>3. SumFunction(g) = SumFunction(f) + g[i] - f[i]
  BY <1>2, SumChanges
<1>4. SumFunction(g) \in Nat /\ SumFunction(f) \in Int
  BY <1>2, SumNatural, SumType
<1> QED BY <1>1, <1>2, <1>3, <1>4
-----------------------------------------------------------------------------
(* Numbers *)

\* Products of naturals, and how they follow the order of their factors.
LEMMA Products ==
  ASSUME NEW a \in Nat, NEW b \in Nat
  PROVE  a * b \in Nat /\ a * b = b * a /\ a * (b + 1) = a * b + a
OBVIOUS

\* A product of positive numbers is positive.
LEMMA ProductPositive ==
  ASSUME NEW a \in Nat, NEW b \in Nat, a # 0, b # 0
  PROVE  a * b \in Nat \ {0}
OBVIOUS

\* A product grows with its factor.
LEMMA ProductGrows ==
  ASSUME NEW a \in Nat, NEW b \in Nat, NEW c \in Nat, b <= c
  PROVE  a * b <= a * c
OBVIOUS

\* Rounding half to even gives a natural, nothing for nothing, and at most half a
\* quantum too much.
LEMMA HalfEvenRounds ==
  ASSUME NEW a \in Nat, NEW b \in Nat \ {0}
  PROVE  /\ HalfEven(a, b) \in Nat /\ HalfEven(0, b) = 0
         /\ 2 * (b * HalfEven(a, b)) <= 2 * a + b
<1>1. /\ a \div b \in Nat /\ a % b \in Nat /\ a = b * (a \div b) + (a % b)
  OBVIOUS
<1>2. 0 \div b = 0 /\ 0 % b = 0
  OBVIOUS
<1> DEFINE q == a \div b
           m == a % b
<1>3. q \in Nat /\ m \in Nat /\ a = b * q + m /\ b * q \in Nat
  BY <1>1
<1>4. HalfEven(a, b) = IF 2 * m < b \/ (2 * m = b /\ q % 2 = 0) THEN q ELSE q + 1
  BY DEF HalfEven
<1>5. HalfEven(0, b) = 0
  BY <1>2 DEF HalfEven
<1> HIDE DEF q, m
<1>6. b * (q + 1) = b * q + b
  BY <1>3
<1>7. CASE 2 * m < b \/ (2 * m = b /\ q % 2 = 0)
  <2>1. HalfEven(a, b) = q
    BY <1>4, <1>7
  <2> QED BY <1>3, <1>5, <2>1
<1>8. CASE ~(2 * m < b \/ (2 * m = b /\ q % 2 = 0))
  <2>1. HalfEven(a, b) = q + 1 /\ 2 * m >= b
    BY <1>3, <1>4, <1>8
  <2>2. 2 * (b * q + b) <= 2 * (b * q + m) + b
    BY <1>3, <2>1
  <2> QED BY <1>3, <1>5, <1>6, <2>1, <2>2
<1> QED BY <1>7, <1>8

\* The least of a set of naturals is one of them.
LEMMA MinIsLeast ==
  ASSUME NEW T, T \subseteq Nat, T # {}
  PROVE  Min(T) \in T /\ \A y \in T : Min(T) <= y
BY LeastElement DEF Min

\* Most and Least choose one of the two, and the right one.
LEMMA MostLeast ==
  ASSUME NEW a \in Int, NEW b \in Int
  PROVE  /\ Most(a, b) \in {a, b} /\ Most(a, b) >= a /\ Most(a, b) >= b
         /\ Least(a, b) \in {a, b} /\ Least(a, b) <= a /\ Least(a, b) <= b
BY DEF Most, Least
-----------------------------------------------------------------------------
(* Types *)

\* The numbers of a pinned plan, as PlanAssumption gives them.
LEMMA PlanNumbers ==
  /\ IsFiniteSet(Ordinals) /\ Ordinals \subseteq Nat \ {0} /\ Axis \subseteq Nat \ {0}
  /\ Pool \in Nat /\ Reserve \in Nat /\ Fee \in Nat /\ Whole \in Nat \ {0}
  /\ \A i \in Ordinals : /\ Price[i] \in Nat \ {0} /\ Share[i] \in Nat /\ Streams[i] \subseteq Axis
                         /\ Whole * Price[i] \in Nat \ {0}
<1>1. N \in Nat /\ IsFiniteSet(1..N)
  BY PlanAssumption, FS_Interval
<1>2. \A i \in Ordinals : Price[i] \in Nat \ {0} /\ Whole * Price[i] \in Nat \ {0}
  BY PlanAssumption, ProductPositive
<1> QED BY <1>1, <1>2, PlanAssumption DEF Ordinals, Axis

\* What a plan makes of an equity is a natural amount.
LEMMA PlanTypes ==
  ASSUME TypeOKPortfolio
  PROVE  /\ pinned.compound \in BOOLEAN /\ pinned.block \in BOOLEAN
         /\ pinned.cap # NoCap => pinned.cap \in Nat
         /\ \A i \in Ordinals, e \in Int : Allocatable(e) \in Nat /\ SleeveCapacity(i, e) \in Nat
<1>1. pinned \in [compound : BOOLEAN, block : BOOLEAN, cap : Nat \cup {NoCap}]
  BY PlanAssumption DEF TypeOKPortfolio
<1>2. \A e \in Int : Allocatable(e) \in Nat
  BY PlanNumbers DEF Allocatable, Most
<1>3. \A i \in Ordinals, e \in Int : SleeveCapacity(i, e) \in Nat
  BY <1>2, PlanNumbers DEF SleeveCapacity
<1> QED BY <1>1, <1>2, <1>3

\* The fields of an item's position, intent and decision.
LEMMA PositionTypes ==
  ASSUME TypeOKPortfolio, NEW i \in Ordinals
  PROVE  /\ positions[i].dir \in {-1, 0, 1} /\ positions[i].size \in Nat /\ positions[i].price \in Nat
         /\ Notional(positions[i]) \in Nat
         /\ intents[i].dir \in {-1, 0, 1} /\ intents[i].size \in Nat
         /\ decisions[i].outcome \in Outcomes /\ decisions[i].units \in Nat
         /\ decisions[i].by \in Ordinals \cup {0} /\ Due(i) \in Nat
<1>1. positions[i] \in Positions
  BY DEF TypeOKPortfolio
<1>2. intents[i] \in [dir : {-1, 0, 1}, size : Nat]
  BY DEF TypeOKPortfolio
<1>3. decisions[i] \in [outcome : Outcomes, units : Nat, by : Ordinals \cup {0}]
  BY DEF TypeOKPortfolio
<1>4. positions[i].size \in Nat /\ positions[i].price \in Nat /\ decisions[i].units \in Nat
  BY <1>1, <1>3 DEF Positions
<1>5. Notional(positions[i]) \in Nat /\ Due(i) \in Nat
  BY <1>4, PlanNumbers, Products DEF Notional, Due
<1> QED BY <1>1, <1>2, <1>3, <1>5 DEF Positions

\* The exposure is the sum of the notionals.
Notionals == [i \in Ordinals |-> Notional(positions[i])]

\* Gross exposure and available capital are natural amounts.
LEMMA ExposureIsNatural ==
  ASSUME TypeOKPortfolio
  PROVE  GrossExposure \in Nat /\ Summable(Notionals, Ordinals) /\ GrossExposure = SumFunction(Notionals)
         /\ AvailableCapital \in Nat
<1>1. \A i \in Ordinals : Notional(positions[i]) \in Nat
  BY PositionTypes
<1>2. Summable(Notionals, Ordinals) /\ \A i \in Ordinals : Notionals[i] >= 0
  BY <1>1, PlanNumbers DEF Summable, Notionals
<1>3. SumFunction(Notionals) \in Nat
  BY <1>2, SumNatural
<1>4. GrossExposure = SumFunction(Notionals)
  BY DEF GrossExposure, Notionals
<1>5. Allocatable(equity) \in Int
  BY PlanNumbers DEF TypeOKPortfolio, Allocatable, Most
<1>6. GrossExposure \in Nat
  BY <1>3, <1>4
<1>7. AvailableCapital \in Nat
  BY <1>5, <1>6 DEF AvailableCapital, Most
<1> QED BY <1>2, <1>3, <1>4, <1>7

\* What a layer allows and what is granted are natural numbers, and the grant respects
\* every layer.
LEMMA GrantIsAllowed ==
  ASSUME TypeOKPortfolio, NEW i \in Ordinals
  PROVE  /\ Granted(i) \in Nat /\ Granted(i) <= intents[i].size
         /\ RemainingSleeve(i) \in Nat /\ Granted(i) <= HalfEven(RemainingSleeve(i), Whole * Price[i])
         /\ pinned.cap # NoCap =>
              ExposureHeadroom \in Nat /\ Granted(i) <= HalfEven(ExposureHeadroom, Price[i])
         /\ Granted(i) * Price[i] > AvailableCapital - committed => Granted(i) = 0
<1>1. RemainingSleeve(i) \in Nat
  <2>1. SleeveCapacity(i, snap.equity) \in Nat
    BY PlanTypes DEF TypeOKPortfolio
  <2>2. Whole * Notional(positions[i]) \in Nat
    BY PlanNumbers, PositionTypes, Products
  <2> QED BY <2>1, <2>2 DEF RemainingSleeve, Most
<1>2. HalfEven(RemainingSleeve(i), Whole * Price[i]) \in Nat
  BY <1>1, PlanNumbers, HalfEvenRounds
<1>3. ASSUME pinned.cap # NoCap
      PROVE  ExposureHeadroom \in Nat /\ HalfEven(ExposureHeadroom, Price[i]) \in Nat
  <2>1. pinned.cap \in Nat /\ committed \in Nat /\ GrossExposure \in Nat
    BY <1>3, PlanTypes, ExposureIsNatural DEF TypeOKPortfolio
  <2>2. ExposureHeadroom \in Nat
    BY <2>1 DEF ExposureHeadroom, Most
  <2> QED BY <2>2, PlanNumbers, HalfEvenRounds
<1>4. intents[i].size \in Nat
  BY PositionTypes
<1> DEFINE layers == Allowed(i) \cup {intents[i].size}
<1>5. layers \subseteq Nat /\ layers # {}
  BY <1>2, <1>3, <1>4 DEF Allowed
<1>6. HalfEven(RemainingSleeve(i), Whole * Price[i]) \in layers /\ intents[i].size \in layers
  BY DEF Allowed
<1>7. pinned.cap # NoCap => HalfEven(ExposureHeadroom, Price[i]) \in layers
  BY DEF Allowed
<1> DEFINE units == Min(layers)
<1>8. Granted(i) = IF units * Price[i] > AvailableCapital - committed THEN 0 ELSE units
  BY DEF Granted
<1> HIDE DEF layers
<1>9. units \in layers /\ \A y \in layers : units <= y
  BY <1>5, MinIsLeast
<1>10. units \in Nat
  BY <1>5, <1>9
<1> HIDE DEF units
<1>11. Granted(i) \in Nat /\ Granted(i) <= units
  BY <1>8, <1>10
<1>12. \A y \in layers : Granted(i) <= y
  BY <1>5, <1>9, <1>10, <1>11
<1>13. Granted(i) * Price[i] > AvailableCapital - committed => Granted(i) = 0
  BY <1>8
<1> QED BY <1>1, <1>3, <1>6, <1>7, <1>11, <1>12, <1>13
\* The item whose turn it is.
LEMMA TurnIs ==
  ASSUME TypeOKPortfolio, NEW i, NEW p, Turn(p, i) \/ (todo # {} /\ i = Min(todo))
  PROVE  i \in todo /\ i \in Ordinals /\ \A j \in todo : i <= j
<1>1. todo \subseteq Nat /\ todo # {} /\ i = Min(todo)
  BY PlanNumbers DEF TypeOKPortfolio, Turn
<1> QED BY <1>1, MinIsLeast DEF TypeOKPortfolio

Points == [t : Axis \cup {0}, equity : Int, drawdown : Int]

\* A booking keeps the types of the pool's ledger.
LEMMA TypesBook ==
  ASSUME TypeOKPortfolio, NEW i \in Ordinals, NEW realized \in Int, NEW fees \in Nat, NEW funding \in Int,
         Book(i, realized, fees, funding)
  PROVE  equity' \in Int /\ peak' \in Int /\ bucket' \in Buckets /\ attribution' \in [Ordinals -> Buckets]
<1>1. /\ equity \in Int /\ peak \in Int /\ bucket \in Buckets /\ attribution \in [Ordinals -> Buckets]
      /\ attribution[i] \in Buckets
  BY DEF TypeOKPortfolio
<1>2. equity' \in Int /\ peak' \in Int
  BY <1>1 DEF Book, Most
<1>3. bucket' \in Buckets
  BY <1>1 DEF Book, Buckets
<1>4. [realized |-> attribution[i].realized + realized, fees |-> attribution[i].fees + fees,
       funding |-> attribution[i].funding + funding] \in Buckets
  BY <1>1 DEF Buckets
<1>5. attribution' \in [Ordinals -> Buckets]
  BY <1>1, <1>4 DEF Book
<1> QED BY <1>2, <1>3, <1>5

\* A close keeps the types of both ledgers.
LEMMA TypesClose ==
  ASSUME TypeOKPortfolio, NEW i \in Ordinals, NEW gross \in Gains,
         ClosePosition(i), BookTrade(i, gross), ItemCloses(i, gross)
  PROVE  /\ equity' \in Int /\ peak' \in Int /\ bucket' \in Buckets /\ attribution' \in [Ordinals -> Buckets]
         /\ positions' \in [Ordinals -> Positions]
         /\ own' \in [Ordinals -> [net : Int, fills : Nat, pos : Positions]]
<1>1. gross \in Int /\ Fee \in Nat /\ 0 \in Int
  BY PlanAssumption
<1>2. Flat \in Positions
  BY DEF Flat, Positions
<1>3. own[i] \in [net : Int, fills : Nat, pos : Positions]
  BY DEF TypeOKPortfolio
<1> DEFINE net == own[i].net + gross - Fee
<1>4. [own[i] EXCEPT !.net = net, !.pos = Flat] \in [net : Int, fills : Nat, pos : Positions]
  <2>1. net \in Int
    BY <1>1, <1>3
  <2> HIDE DEF net
  <2> QED BY <1>2, <1>3, <2>1
<1>5. own' = [own EXCEPT ![i] = [own[i] EXCEPT !.net = net, !.pos = Flat]]
  BY <1>3 DEF ItemCloses, TypeOKPortfolio
<1> HIDE DEF net
<1>6. own' \in [Ordinals -> [net : Int, fills : Nat, pos : Positions]]
  BY <1>4, <1>5 DEF TypeOKPortfolio
<1>7. positions' \in [Ordinals -> Positions]
  BY <1>2 DEF ClosePosition, TypeOKPortfolio
<1>8. /\ equity' \in Int /\ peak' \in Int /\ bucket' \in Buckets /\ attribution' \in [Ordinals -> Buckets]
  <2>1. Book(i, gross, Fee, 0)
    BY DEF BookTrade
  <2> QED BY <1>1, <2>1, TypesBook
<1> QED BY <1>6, <1>7, <1>8

\* The curve stays a sequence of points when the ledger is committed to it.
LEMMA TypesCommitted ==
  ASSUME TypeOKPortfolio, Len(points) >= 1
  PROVE  Committed(now) \in Seq(Points) /\ Folded \in Seq(Points)
<1>1. points \in Seq(Points) /\ Len(points) \in 1..Len(points)
  BY DEF TypeOKPortfolio, Points
<1>2. [t |-> now, equity |-> equity, drawdown |-> peak - equity] \in Points
  BY DEF TypeOKPortfolio, Points
<1>3. Committed(now) \in Seq(Points)
  BY <1>1, <1>2 DEF Committed
<1> DEFINE point == [t |-> now, equity |-> equity, drawdown |-> peak - equity]
<1> HIDE DEF point
<1>4. [points EXCEPT ![Len(points)] = point] \in Seq(Points)
  BY <1>1, <1>2 DEF point
<1> QED BY <1>3, <1>4 DEF Folded, point

\* The types, over the phases that move money before the valuation and at the end.
LEMMA TypesMoney ==
  ASSUME PortfolioInv,
         \/ StartTick \/ StartExits
         \/ \E i \in Ordinals : Carry(i) \/ MandatoryExit(i) \/ NoExit(i) \/ FinalClose(i)
  PROVE  TypeOKPortfolio'
<1>0. TypeOKPortfolio
  BY DEF PortfolioInv
<1>1. CASE StartTick
  <2>1. Later \subseteq Nat /\ Later # {}
    BY <1>1, PlanNumbers DEF Later, StartTick
  <2>2. now' \in Axis
    BY <1>1, <2>1, MinIsLeast DEF StartTick, Later
  <2> QED BY <1>0, <1>1, <2>2 DEF StartTick, Enter, TypeOKPortfolio, ledger, Held
<1>2. CASE StartExits
  BY <1>0, <1>2 DEF StartExits, Enter, TypeOKPortfolio, ledger, Held
<1>3. ASSUME NEW i \in Ordinals, Carry(i) PROVE TypeOKPortfolio'
  <2>1. PICK amount \in Fundings : BookFunding(i, amount) /\ own' = [own EXCEPT ![i].net = @ - amount]
    BY <1>3 DEF Carry
  <2>2. amount \in Int /\ 0 \in Int /\ 0 \in Nat
    BY PlanAssumption
  <2>3. Book(i, 0, 0, amount)
    BY <2>1 DEF BookFunding
  <2>4. equity' \in Int /\ peak' \in Int /\ bucket' \in Buckets /\ attribution' \in [Ordinals -> Buckets]
    BY <1>0, <2>2, <2>3, TypesBook
  <2>5. own[i] \in [net : Int, fills : Nat, pos : Positions]
    BY <1>0 DEF TypeOKPortfolio
  <2>6. [own[i] EXCEPT !.net = @ - amount] \in [net : Int, fills : Nat, pos : Positions]
    BY <2>2, <2>5
  <2>7. own' = [own EXCEPT ![i] = [own[i] EXCEPT !.net = @ - amount]]
    BY <1>0, <2>1 DEF TypeOKPortfolio
  <2>8. own' \in [Ordinals -> [net : Int, fills : Nat, pos : Positions]]
    BY <1>0, <2>6, <2>7 DEF TypeOKPortfolio
  <2> QED BY <1>0, <1>3, <2>4, <2>8 DEF Carry, Turn, TypeOKPortfolio
<1>4. ASSUME NEW i \in Ordinals, MandatoryExit(i) PROVE TypeOKPortfolio'
  <2>1. PICK gross \in Gains : /\ ClosePosition(i) /\ BookTrade(i, gross) /\ ItemCloses(i, gross)
                               /\ CloseLot(i, gross - Fee)
    BY <1>4 DEF MandatoryExit
  <2>2. /\ equity' \in Int /\ peak' \in Int /\ bucket' \in Buckets /\ attribution' \in [Ordinals -> Buckets]
        /\ positions' \in [Ordinals -> Positions]
        /\ own' \in [Ordinals -> [net : Int, fills : Nat, pos : Positions]]
    BY <1>0, <2>1, TypesClose
  <2>3. gross \in Int /\ Fee \in Nat
    BY PlanAssumption
  <2>4. rows' \in [n : Nat, net : Int, final : Int] /\ lots' \subseteq Ordinals
    <3>1. rows \in [n : Nat, net : Int, final : Int] /\ lots \subseteq Ordinals
      BY <1>0 DEF TypeOKPortfolio
    <3>2. rows.n + 1 \in Nat /\ rows.net + (gross - Fee) \in Int
      BY <2>3, <3>1
    <3> QED BY <2>1, <3>1, <3>2 DEF CloseLot
  <2> QED BY <1>0, <1>4, <2>2, <2>4 DEF MandatoryExit, Turn, TypeOKPortfolio
<1>5. ASSUME NEW i \in Ordinals, FinalClose(i) PROVE TypeOKPortfolio'
  <2>1. PICK gross \in Gains : /\ ClosePosition(i) /\ BookTrade(i, gross) /\ ItemCloses(i, gross)
                               /\ rows' = [rows EXCEPT !.final = @ + gross - Fee]
    BY <1>5 DEF FinalClose
  <2>2. /\ equity' \in Int /\ peak' \in Int /\ bucket' \in Buckets /\ attribution' \in [Ordinals -> Buckets]
        /\ positions' \in [Ordinals -> Positions]
        /\ own' \in [Ordinals -> [net : Int, fills : Nat, pos : Positions]]
    BY <1>0, <2>1, TypesClose
  <2>3. gross \in Int /\ Fee \in Nat
    BY PlanAssumption
  <2>4. rows' \in [n : Nat, net : Int, final : Int]
    <3>1. rows \in [n : Nat, net : Int, final : Int]
      BY <1>0 DEF TypeOKPortfolio
    <3>2. rows.final + gross - Fee \in Int
      BY <2>3, <3>1
    <3> QED BY <2>1, <3>1, <3>2
  <2> QED BY <1>0, <1>5, <2>2, <2>4 DEF FinalClose, Turn, TypeOKPortfolio
<1>6. ASSUME NEW i \in Ordinals, NoExit(i) PROVE TypeOKPortfolio'
  BY <1>0, <1>6 DEF NoExit, Turn, TypeOKPortfolio, ledger
<1> QED BY <1>1, <1>2, <1>3, <1>4, <1>5, <1>6
\* Who stands in the way of an intent is an item.
LEMMA CounterpartyIsItem ==
  ASSUME TypeOKPortfolio, NEW i \in Ordinals
  PROVE  Counterparty(i) \in Ordinals \cup {0}
<1>1. OpposingHolders(i) \subseteq Ordinals /\ OpposingSurvivors(i) \subseteq Ordinals /\ Ordinals \subseteq Nat
  BY PlanNumbers DEF OpposingHolders, OpposingSurvivors, Held, Outcome
<1>2. OpposingHolders(i) # {} => Min(OpposingHolders(i)) \in Ordinals
  BY <1>1, MinIsLeast
<1>3. OpposingSurvivors(i) # {} => Min(OpposingSurvivors(i)) \in Ordinals
  BY <1>1, MinIsLeast
<1> QED BY <1>2, <1>3 DEF Counterparty

\* The types, over the phases from the valuation to the commit of the tick.
LEMMA TypesTick ==
  ASSUME PortfolioInv,
         \/ PublishSnapshot \/ StartConflicts \/ StartCapacity \/ BeginApply \/ CommitTick
         \/ Cancel \/ StartFinalize \/ Finish \/ Stop
         \/ \E i \in Ordinals : \/ FormIntent(i) \/ NoEntry(i) \/ ResolveConflict(i)
                                \/ ResolveCapacity(i) \/ Apply(i)
  PROVE  TypeOKPortfolio'
<1>0. TypeOKPortfolio /\ Len(points) >= 1
  BY DEF PortfolioInv, CurveFollows
<1>1. CASE PublishSnapshot
  <2>1. snap' \in [equity : Int, unmarked : SUBSET Ordinals, stale : SUBSET Ordinals]
    BY <1>0, <1>1 DEF PublishSnapshot, TypeOKPortfolio, Unmarked, StaleRefused, Held
  <2> QED BY <1>0, <1>1, <2>1 DEF PublishSnapshot, Enter, TypeOKPortfolio, ledger
<1>2. CASE StartConflicts \/ StartCapacity \/ BeginApply \/ Cancel \/ StartFinalize
  <2>1. UNCHANGED <<pinned, now, ledger, own, snap, intents, decisions, committed, points, rows, lots>>
    BY <1>2 DEF StartConflicts, StartCapacity, BeginApply, Cancel, StartFinalize
  <2>2. phase' \in {"P5", "P6", "P7", "cancelled", "P10"} /\ todo' \subseteq Ordinals
    BY <1>2 DEF StartConflicts, StartCapacity, BeginApply, Cancel, StartFinalize, Enter, Intending, Outcome, Held
  <2> QED BY <1>0, <2>1, <2>2 DEF TypeOKPortfolio, Ended, ledger
<1>3. CASE CommitTick
  <2>1. points' \in Seq(Points)
    BY <1>0, <1>3, TypesCommitted DEF CommitTick
  <2>2. snap' \in [equity : Int, unmarked : SUBSET Ordinals, stale : SUBSET Ordinals]
    BY <1>3 DEF CommitTick, NoSnap
  <2>3. intents' \in [Ordinals -> [dir : {-1, 0, 1}, size : Nat]]
    BY <1>3 DEF CommitTick, NoIntent
  <2>4. decisions' \in [Ordinals -> [outcome : Outcomes, units : Nat, by : Ordinals \cup {0}]]
    BY <1>3 DEF CommitTick, Undecided, Outcomes
  <2>5. /\ UNCHANGED <<pinned, now, ledger, own, rows, lots>> /\ committed' = 0
        /\ phase' = "idle" /\ todo' = {}
    BY <1>3 DEF CommitTick, Enter
  <2> QED BY <1>0, <2>1, <2>2, <2>3, <2>4, <2>5 DEF TypeOKPortfolio, ledger, Points
<1>4. CASE Finish
  <2>1. points' \in Seq(Points)
    BY <1>0, <1>4, TypesCommitted DEF Finish
  <2> QED BY <1>0, <1>4, <2>1 DEF Finish, Enter, TypeOKPortfolio, ledger, Points, Ended
<1>5. CASE Stop
  BY <1>0, <1>5 DEF Stop, portfolioVars, ledger, TypeOKPortfolio
<1>6. ASSUME NEW i \in Ordinals, FormIntent(i) PROVE TypeOKPortfolio'
  <2>1. PICK dir \in {1, -1}, size \in Sizes : intents' = [intents EXCEPT ![i] = [dir |-> dir, size |-> size]]
    BY <1>6 DEF FormIntent
  <2>2. [dir |-> dir, size |-> size] \in [dir : {-1, 0, 1}, size : Nat]
    BY PlanAssumption
  <2>3. intents' \in [Ordinals -> [dir : {-1, 0, 1}, size : Nat]]
    BY <1>0, <2>1, <2>2 DEF TypeOKPortfolio
  <2> QED BY <1>0, <1>6, <2>3 DEF FormIntent, Turn, TypeOKPortfolio, ledger
<1>7. ASSUME NEW i \in Ordinals, NoEntry(i) PROVE TypeOKPortfolio'
  BY <1>0, <1>7 DEF NoEntry, Turn, TypeOKPortfolio, ledger
<1>8. ASSUME NEW i \in Ordinals, ResolveConflict(i) PROVE TypeOKPortfolio'
  <2> DEFINE verdict == IF Counterparty(i) = 0 THEN [outcome |-> "survived", units |-> 0, by |-> 0]
                        ELSE [outcome |-> "blocked", units |-> 0, by |-> Counterparty(i)]
  <2>1. verdict \in [outcome : Outcomes, units : Nat, by : Ordinals \cup {0}]
    BY <1>0, CounterpartyIsItem DEF Outcomes
  <2>2. decisions' = [decisions EXCEPT ![i] = verdict]
    BY <1>8 DEF ResolveConflict
  <2> HIDE DEF verdict
  <2>3. decisions' \in [Ordinals -> [outcome : Outcomes, units : Nat, by : Ordinals \cup {0}]]
    BY <1>0, <2>1, <2>2 DEF TypeOKPortfolio
  <2> QED BY <1>0, <1>8, <2>3 DEF ResolveConflict, Turn, TypeOKPortfolio, ledger
<1>9. ASSUME NEW i \in Ordinals, ResolveCapacity(i) PROVE TypeOKPortfolio'
  <2>1. Granted(i) \in Nat
    BY <1>0, GrantIsAllowed
  <2> DEFINE units == Granted(i)
             verdict == [outcome |-> IF units = 0 THEN "rejected"
                                     ELSE IF units < intents[i].size THEN "capped" ELSE "admitted",
                         units |-> units, by |-> 0]
  <2>2. decisions' = [decisions EXCEPT ![i] = verdict] /\ committed' = committed + units * Price[i]
    BY <1>9 DEF ResolveCapacity
  <2> HIDE DEF units
  <2>3. verdict \in [outcome : Outcomes, units : Nat, by : Ordinals \cup {0}]
    BY <2>1 DEF Outcomes, units
  <2> HIDE DEF verdict
  <2>4. decisions' \in [Ordinals -> [outcome : Outcomes, units : Nat, by : Ordinals \cup {0}]]
    BY <1>0, <2>2, <2>3 DEF TypeOKPortfolio
  <2>5. units \in Nat /\ Price[i] \in Nat /\ committed \in Nat
    BY <1>0, <2>1, PlanNumbers DEF TypeOKPortfolio, units
  <2>6. committed' \in Nat
    BY <2>2, <2>5, Products
  <2> QED BY <1>0, <1>9, <2>4, <2>6 DEF ResolveCapacity, Turn, TypeOKPortfolio, ledger
<1>10. ASSUME NEW i \in Ordinals, Apply(i) PROVE TypeOKPortfolio'
  <2>1. Opened(i) \in Positions
    BY <1>0, PositionTypes, PlanNumbers DEF Opened, Positions
  <2>2. CASE CanApply(i)
    <3>1. own[i] \in [net : Int, fills : Nat, pos : Positions]
      BY <1>0 DEF TypeOKPortfolio
    <3>2. own[i].net - Fee \in Int /\ own[i].fills + 1 \in Nat
      BY <3>1, PlanNumbers
    <3>3. own' = [own EXCEPT ![i] = [net |-> own[i].net - Fee, fills |-> own[i].fills + 1, pos |-> Opened(i)]]
      BY <1>10, <2>2 DEF Apply
    <3>4. own' \in [Ordinals -> [net : Int, fills : Nat, pos : Positions]]
      BY <1>0, <2>1, <3>2, <3>3 DEF TypeOKPortfolio
    <3>5. positions' \in [Ordinals -> Positions]
      BY <1>0, <1>10, <2>1, <2>2 DEF Apply, TypeOKPortfolio
    <3>6. lots' \subseteq Ordinals
      BY <1>0, <1>10, <2>2 DEF Apply, OpenLot, TypeOKPortfolio
    <3> QED BY <1>0, <1>10, <2>2, <3>4, <3>5, <3>6 DEF Apply, TypeOKPortfolio
  <2>3. CASE ~CanApply(i)
    BY <1>0, <1>10, <2>3 DEF Apply, TypeOKPortfolio, Ended
  <2> QED BY <2>2, <2>3
<1> QED BY <1>1, <1>2, <1>3, <1>4, <1>5, <1>6, <1>7, <1>8, <1>9, <1>10

\* Every step keeps the types.
LEMMA TypesStep ==
  ASSUME PortfolioInv, NextPortfolio
  PROVE  TypeOKPortfolio'
BY TypesMoney, TypesTick DEF NextPortfolio
-----------------------------------------------------------------------------
(* The books *)

\* What a step of the pool books, if it books anything.
LEMMA OneBooking ==
  ASSUME TypeOKPortfolio, BooksBalance, NEW i \in Ordinals,
         NEW realized \in Int, NEW fees \in Nat, NEW funding \in Int, Book(i, realized, fees, funding)
  PROVE  BooksBalance'
<1>0. \A j \in Ordinals :
        attribution[j].realized \in Int /\ attribution[j].fees \in Int /\ attribution[j].funding \in Int
  <2>1. \A j \in Ordinals : attribution[j] \in Buckets
    BY DEF TypeOKPortfolio
  <2> QED BY <2>1 DEF Buckets
<1>1. TypeOKPortfolio => attribution' \in [Ordinals -> Buckets]
  BY TypesBook
<1>2. \A j \in Ordinals :
        attribution'[j].realized \in Int /\ attribution'[j].fees \in Int /\ attribution'[j].funding \in Int
  BY <1>1 DEF Buckets
<1>3. /\ \A j \in Ordinals \ {i} : attribution'[j] = attribution[j]
      /\ attribution'[i] = [realized |-> attribution[i].realized + realized, fees |-> attribution[i].fees + fees,
                            funding |-> attribution[i].funding + funding]
  BY DEF Book, TypeOKPortfolio
<1>4. IsFiniteSet(Ordinals)
  BY PlanNumbers
<1>5. SumFunction([j \in Ordinals |-> attribution'[j].realized])
        = SumFunction([j \in Ordinals |-> attribution[j].realized]) + realized
  <2> DEFINE f == [j \in Ordinals |-> attribution[j].realized]
             g == [j \in Ordinals |-> attribution'[j].realized]
  <2>1. Summable(f, Ordinals) /\ Summable(g, Ordinals)
    BY <1>0, <1>2, <1>4 DEF Summable
  <2>2. (\A j \in Ordinals \ {i} : g[j] = f[j]) /\ g[i] = f[i] + realized /\ f[i] \in Int
    BY <1>0, <1>3
  <2> HIDE DEF f, g
  <2>3. SumFunction(g) = SumFunction(f) + realized
    BY <2>1, <2>2, SumMoves
  <2> QED BY <2>3 DEF f, g
<1>6. SumFunction([j \in Ordinals |-> attribution'[j].fees])
        = SumFunction([j \in Ordinals |-> attribution[j].fees]) + fees
  <2> DEFINE f == [j \in Ordinals |-> attribution[j].fees]
             g == [j \in Ordinals |-> attribution'[j].fees]
  <2>1. Summable(f, Ordinals) /\ Summable(g, Ordinals)
    BY <1>0, <1>2, <1>4 DEF Summable
  <2>2. (\A j \in Ordinals \ {i} : g[j] = f[j]) /\ g[i] = f[i] + fees /\ f[i] \in Int
    BY <1>0, <1>3
  <2> HIDE DEF f, g
  <2>3. SumFunction(g) = SumFunction(f) + fees
    BY <2>1, <2>2, SumMoves
  <2> QED BY <2>3 DEF f, g
<1>7. SumFunction([j \in Ordinals |-> attribution'[j].funding])
        = SumFunction([j \in Ordinals |-> attribution[j].funding]) + funding
  <2> DEFINE f == [j \in Ordinals |-> attribution[j].funding]
             g == [j \in Ordinals |-> attribution'[j].funding]
  <2>1. Summable(f, Ordinals) /\ Summable(g, Ordinals)
    BY <1>0, <1>2, <1>4 DEF Summable
  <2>2. (\A j \in Ordinals \ {i} : g[j] = f[j]) /\ g[i] = f[i] + funding /\ f[i] \in Int
    BY <1>0, <1>3
  <2> HIDE DEF f, g
  <2>3. SumFunction(g) = SumFunction(f) + funding
    BY <2>1, <2>2, SumMoves
  <2> QED BY <2>3 DEF f, g
<1>8. /\ bucket'.realized = bucket.realized + realized /\ bucket'.fees = bucket.fees + fees
      /\ bucket'.funding = bucket.funding + funding /\ equity' = equity + realized - fees - funding
  BY DEF Book
<1>9. bucket.realized \in Int /\ bucket.fees \in Int /\ bucket.funding \in Int /\ Pool \in Int
  BY PlanNumbers DEF TypeOKPortfolio, Buckets
<1>10. equity' = Pool + bucket'.realized - bucket'.fees - bucket'.funding
  BY <1>8, <1>9 DEF BooksBalance
<1> QED BY <1>5, <1>6, <1>7, <1>8, <1>10 DEF BooksBalance

\* The one thing a step does to the money of the pool.
Booking(i, realized, fees, funding) ==
  /\ i \in Ordinals /\ realized \in Int /\ fees \in Nat /\ funding \in Int
  /\ Book(i, realized, fees, funding)

\* E(t) moves by a carry or by a close, and by nothing else.
LEMMA MoneyMoves ==
  ASSUME PortfolioInv, NextPortfolio
  PROVE  \/ UNCHANGED <<equity, peak, bucket, attribution>>
         \/ \E i \in Ordinals : \/ \E amount \in Fundings : Booking(i, 0, 0, amount) /\ Carry(i)
                                \/ \E gross \in Gains : Booking(i, gross, Fee, 0) /\ (MandatoryExit(i) \/ FinalClose(i))
<1>1. Fundings \subseteq Int /\ Gains \subseteq Int /\ Fee \in Nat /\ 0 \in Int /\ 0 \in Nat
  BY PlanAssumption
<1>2. ASSUME NEW i \in Ordinals, Carry(i)
      PROVE  \E amount \in Fundings : Booking(i, 0, 0, amount)
  BY <1>1, <1>2 DEF Carry, BookFunding, Booking
<1>3. ASSUME NEW i \in Ordinals, MandatoryExit(i) \/ FinalClose(i)
      PROVE  \E gross \in Gains : Booking(i, gross, Fee, 0)
  BY <1>1, <1>3 DEF MandatoryExit, FinalClose, BookTrade, Booking
<1>4. ASSUME NEW i \in Ordinals,
             NoExit(i) \/ FormIntent(i) \/ NoEntry(i) \/ ResolveConflict(i) \/ ResolveCapacity(i) \/ Apply(i)
      PROVE  UNCHANGED <<equity, peak, bucket, attribution>>
  BY <1>4 DEF NoExit, FormIntent, NoEntry, ResolveConflict, ResolveCapacity, Apply, ledger
<1>5. ASSUME \/ StartTick \/ StartExits \/ PublishSnapshot \/ StartConflicts \/ StartCapacity
             \/ BeginApply \/ CommitTick \/ Cancel \/ StartFinalize \/ Finish \/ Stop
      PROVE  UNCHANGED <<equity, peak, bucket, attribution>>
  BY <1>5 DEF StartTick, StartExits, PublishSnapshot, StartConflicts, StartCapacity,
              BeginApply, CommitTick, Cancel, StartFinalize, Finish, Stop, ledger, portfolioVars
<1> QED BY <1>2, <1>3, <1>4, <1>5 DEF NextPortfolio

\* Every step keeps the accounting identity and its attribution.
LEMMA BalanceStep ==
  ASSUME PortfolioInv, NextPortfolio
  PROVE  BooksBalance'
<1>1. TypeOKPortfolio /\ BooksBalance
  BY DEF PortfolioInv
<1>2. CASE UNCHANGED <<equity, peak, bucket, attribution>>
  BY <1>1, <1>2 DEF BooksBalance
<1>3. ASSUME NEW i, NEW realized, NEW fees, NEW funding, Booking(i, realized, fees, funding)
      PROVE  BooksBalance'
  BY <1>1, <1>3, OneBooking DEF Booking
<1> QED BY <1>2, <1>3, MoneyMoves

\* The commissions of one more entry.
LEMMA OneMoreFill ==
  ASSUME NEW k \in Nat
  PROVE  Fee * (k + 1) = Fee * k + Fee /\ Fee * k \in Nat
BY PlanNumbers, Products

\* Every step keeps the pool's and the items' ledgers apart by the entry commissions.
LEMMA PartStep ==
  ASSUME PortfolioInv, NextPortfolio
  PROVE  BooksPartByTheEntryFees'
<1>0. TypeOKPortfolio /\ BooksPartByTheEntryFees
  BY DEF PortfolioInv
<1>1. \A j \in Ordinals :
        /\ own[j] \in [net : Int, fills : Nat, pos : Positions] /\ own[j].net \in Int /\ own[j].fills \in Nat
        /\ attribution[j].realized \in Int /\ attribution[j].fees \in Int /\ attribution[j].funding \in Int
        /\ Fee * own[j].fills \in Int
  <2>1. \A j \in Ordinals : own[j] \in [net : Int, fills : Nat, pos : Positions] /\ attribution[j] \in Buckets
    BY <1>0 DEF TypeOKPortfolio
  <2>2. \A j \in Ordinals : own[j].fills \in Nat
    BY <2>1
  <2>3. \A j \in Ordinals : Fee * own[j].fills \in Int
    BY <2>2, OneMoreFill
  <2> QED BY <2>1, <2>2, <2>3 DEF Buckets
<1>2. CASE UNCHANGED <<attribution, positions, own>>
  BY <1>0, <1>2 DEF BooksPartByTheEntryFees
<1>3. ASSUME NEW i \in Ordinals, Carry(i) PROVE BooksPartByTheEntryFees'
  <2>1. PICK amount \in Fundings : BookFunding(i, amount) /\ own' = [own EXCEPT ![i].net = @ - amount]
    BY <1>3 DEF Carry
  <2>2. amount \in Int /\ positions' = positions
    BY <1>3, PlanAssumption DEF Carry
  <2>3. /\ own'[i].pos = own[i].pos /\ own'[i].net = own[i].net - amount /\ own'[i].fills = own[i].fills
        /\ \A j \in Ordinals \ {i} : own'[j] = own[j] /\ attribution'[j] = attribution[j]
    BY <1>0, <1>1, <2>1 DEF BookFunding, Book, TypeOKPortfolio
  <2>4. attribution'[i] = [realized |-> attribution[i].realized + 0, fees |-> attribution[i].fees + 0,
                           funding |-> attribution[i].funding + amount]
    BY <1>0, <2>1 DEF BookFunding, Book, TypeOKPortfolio
  <2>5. own'[i].net = attribution'[i].realized - attribution'[i].fees - attribution'[i].funding - Fee * own'[i].fills
    BY <1>0, <1>1, <2>2, <2>3, <2>4 DEF BooksPartByTheEntryFees
  <2> QED BY <1>0, <2>2, <2>3, <2>5 DEF BooksPartByTheEntryFees
<1>4. ASSUME NEW i \in Ordinals, MandatoryExit(i) \/ FinalClose(i) PROVE BooksPartByTheEntryFees'
  <2>1. PICK gross \in Gains : ClosePosition(i) /\ BookTrade(i, gross) /\ ItemCloses(i, gross)
    BY <1>4 DEF MandatoryExit, FinalClose
  <2>2. gross \in Int /\ Fee \in Int
    BY PlanAssumption
  <2>3. /\ own'[i].pos = Flat /\ own'[i].net = own[i].net + gross - Fee /\ own'[i].fills = own[i].fills
        /\ \A j \in Ordinals \ {i} : own'[j] = own[j]
    BY <1>0, <1>1, <2>1 DEF ItemCloses, TypeOKPortfolio
  <2>4. /\ attribution'[i] = [realized |-> attribution[i].realized + gross, fees |-> attribution[i].fees + Fee,
                              funding |-> attribution[i].funding + 0]
        /\ \A j \in Ordinals \ {i} : attribution'[j] = attribution[j]
    BY <1>0, <2>1 DEF BookTrade, Book, TypeOKPortfolio
  <2>5. positions'[i] = Flat /\ \A j \in Ordinals \ {i} : positions'[j] = positions[j]
    BY <1>0, <2>1 DEF ClosePosition, TypeOKPortfolio
  <2>6. own'[i].net = attribution'[i].realized - attribution'[i].fees - attribution'[i].funding - Fee * own'[i].fills
    BY <1>0, <1>1, <2>2, <2>3, <2>4 DEF BooksPartByTheEntryFees
  <2> QED BY <1>0, <2>3, <2>4, <2>5, <2>6 DEF BooksPartByTheEntryFees
<1>5. ASSUME NEW i \in Ordinals, Apply(i), CanApply(i) PROVE BooksPartByTheEntryFees'
  <2>1. attribution' = attribution /\ Fee \in Int
    BY <1>5, PlanNumbers DEF Apply
  <2>2. /\ own'[i] = [net |-> own[i].net - Fee, fills |-> own[i].fills + 1, pos |-> Opened(i)]
        /\ positions'[i] = Opened(i)
        /\ \A j \in Ordinals \ {i} : own'[j] = own[j] /\ positions'[j] = positions[j]
    BY <1>0, <1>5 DEF Apply, TypeOKPortfolio
  <2>3. own'[i].net = own[i].net - Fee /\ own'[i].fills = own[i].fills + 1 /\ own'[i].pos = positions'[i]
    BY <2>2
  <2>4. Fee * own'[i].fills = Fee * own[i].fills + Fee
    BY <1>1, <2>3, OneMoreFill
  <2>5. own'[i].net = attribution'[i].realized - attribution'[i].fees - attribution'[i].funding - Fee * own'[i].fills
    BY <1>0, <1>1, <2>1, <2>3, <2>4 DEF BooksPartByTheEntryFees
  <2> QED BY <1>0, <2>1, <2>2, <2>3, <2>5 DEF BooksPartByTheEntryFees
<1>6. ASSUME NEW i \in Ordinals, \/ NoExit(i) \/ FormIntent(i) \/ NoEntry(i) \/ ResolveConflict(i)
                                 \/ ResolveCapacity(i) \/ (Apply(i) /\ ~CanApply(i))
      PROVE  UNCHANGED <<attribution, positions, own>>
  BY <1>6 DEF NoExit, FormIntent, NoEntry, ResolveConflict, ResolveCapacity, Apply, ledger
<1>7. ASSUME \/ StartTick \/ StartExits \/ PublishSnapshot \/ StartConflicts \/ StartCapacity
             \/ BeginApply \/ CommitTick \/ Cancel \/ StartFinalize \/ Finish \/ Stop
      PROVE  UNCHANGED <<attribution, positions, own>>
  BY <1>7 DEF StartTick, StartExits, PublishSnapshot, StartConflicts, StartCapacity,
              BeginApply, CommitTick, Cancel, StartFinalize, Finish, Stop, ledger, portfolioVars
<1> QED BY <1>2, <1>3, <1>4, <1>5, <1>6, <1>7 DEF NextPortfolio
-----------------------------------------------------------------------------
(* What is granted can be applied *)

Costs == [j \in Ordinals |-> IF j \in Waiting THEN Due(j) ELSE 0]
CostsUpTo(i) == [j \in Ordinals |-> IF j \in Waiting /\ j <= i THEN Due(j) ELSE 0]

\* What waits to be applied is a natural amount.
LEMMA CostsAreSummable ==
  ASSUME TypeOKPortfolio
  PROVE  /\ Summable(Costs, Ordinals) /\ Pending = SumFunction(Costs) /\ Pending \in Nat
         /\ \A j \in Ordinals : Costs[j] \in Nat
         /\ \A i : /\ Summable(CostsUpTo(i), Ordinals) /\ PendingUpTo(i) = SumFunction(CostsUpTo(i))
                   /\ PendingUpTo(i) \in Nat /\ \A j \in Ordinals : CostsUpTo(i)[j] \in Nat
<1>1. \A j \in Ordinals : Due(j) \in Nat
  BY PositionTypes
<1>2. Summable(Costs, Ordinals) /\ \A j \in Ordinals : Costs[j] \in Nat
  BY <1>1, PlanNumbers DEF Costs, Summable
<1>3. Pending = SumFunction(Costs)
  BY DEF Pending, Costs
<1>4. Pending \in Nat
  BY <1>2, <1>3, SumNatural
<1>5. ASSUME NEW i
      PROVE  /\ Summable(CostsUpTo(i), Ordinals) /\ PendingUpTo(i) = SumFunction(CostsUpTo(i))
             /\ PendingUpTo(i) \in Nat /\ \A j \in Ordinals : CostsUpTo(i)[j] \in Nat
  <2>1. Summable(CostsUpTo(i), Ordinals) /\ \A j \in Ordinals : CostsUpTo(i)[j] \in Nat
    BY <1>1, PlanNumbers DEF CostsUpTo, Summable
  <2>2. PendingUpTo(i) = SumFunction(CostsUpTo(i))
    BY DEF PendingUpTo, CostsUpTo
  <2>3. PendingUpTo(i) \in Nat
    BY <2>1, <2>2, SumNatural
  <2> QED BY <2>1, <2>2, <2>3
<1> QED BY <1>2, <1>3, <1>4, <1>5

\* A grant that waits costs no more than all that wait.
LEMMA PendingCovers ==
  ASSUME TypeOKPortfolio, NEW i \in Ordinals, i \in Waiting
  PROVE  Due(i) <= Pending /\ Due(i) <= PendingUpTo(i)
<1>1. Costs[i] = Due(i)
  BY DEF Costs
<1>2. CostsUpTo(i)[i] = Due(i)
  BY PlanNumbers DEF CostsUpTo
<1>3. Summable(Costs, Ordinals) /\ \A j \in Ordinals : Costs[j] >= 0
  BY CostsAreSummable
<1>4. Summable(CostsUpTo(i), Ordinals) /\ \A j \in Ordinals : CostsUpTo(i)[j] >= 0
  BY CostsAreSummable
<1>5. Costs[i] <= SumFunction(Costs)
  BY <1>3, SumCovers
<1>6. CostsUpTo(i)[i] <= SumFunction(CostsUpTo(i))
  BY <1>4, SumCovers
<1> QED BY <1>1, <1>2, <1>5, <1>6, CostsAreSummable

\* What a grant opens costs what it was granted for.
LEMMA OpenedCosts ==
  ASSUME TypeOKPortfolio, NEW i \in Ordinals
  PROVE  Notional(Opened(i)) = Due(i)
<1>1. Price[i] \in Nat /\ decisions[i].units \in Nat
  BY PlanNumbers, PositionTypes
<1> QED BY <1>1, Products DEF Notional, Opened, Due

\* Neither the ledger nor the adapter refuses a grant.
LEMMA GrantsCanBeApplied ==
  ASSUME PortfolioInv, NEW i \in todo, phase = "P7"
  PROVE  CanApply(i)
<1>0. TypeOKPortfolio /\ TickOrder /\ GrantsFit
  BY DEF PortfolioInv
<1>1. i \in Ordinals /\ i \in Waiting /\ i \in Grants
  BY <1>0 DEF TypeOKPortfolio, Waiting, TickOrder
<1>2. Notional(Opened(i)) <= AvailableCapital
  <2>1. Due(i) <= Pending /\ Notional(Opened(i)) = Due(i)
    BY <1>0, <1>1, PendingCovers, OpenedCosts
  <2>2. GrossExposure + Pending <= Allocatable(equity)
    BY <1>0, <1>1 DEF GrantsFit
  <2>3. /\ GrossExposure \in Nat /\ Pending \in Nat /\ Due(i) \in Nat /\ Allocatable(equity) \in Nat
    <3>1. equity \in Int
      BY <1>0 DEF TypeOKPortfolio
    <3> QED BY <1>0, <1>1, <3>1, ExposureIsNatural, CostsAreSummable, PositionTypes, PlanTypes
  <2>4. AvailableCapital >= Allocatable(equity) - GrossExposure
    BY <2>3, MostLeast DEF AvailableCapital
  <2>5. AvailableCapital \in Nat
    BY <1>0, ExposureIsNatural
  <2> QED BY <2>1, <2>2, <2>3, <2>4, <2>5
<1>3. Settled(i) = decisions[i].units
  <2> DEFINE half == HalfEven(SleeveCapital(i, snap.equity), Whole * Price[i])
  <2>1. decisions[i].units \in 1 .. intents[i].size /\ decisions[i].units <= half
    BY <1>0, <1>1 DEF GrantsFit, SleeveCapital
  <2>2. snap.equity \in Int
    BY <1>0 DEF TypeOKPortfolio
  <2>3. SleeveCapital(i, snap.equity) \in Nat /\ Whole * Price[i] \in Nat \ {0}
    BY <1>0, <1>1, <2>2, PlanTypes, PlanNumbers DEF SleeveCapital
  <2>4. half \in Nat /\ intents[i].size \in Nat /\ decisions[i].units \in Nat
    BY <1>0, <1>1, <2>3, HalfEvenRounds, PositionTypes
  <2>5. Settled(i) = Least(Least(intents[i].size, half), decisions[i].units)
    BY DEF Settled, PlannedSize
  <2> HIDE DEF half
  <2>6. decisions[i].units <= intents[i].size
    BY <2>1, <2>4
  <2> QED BY <2>1, <2>4, <2>5, <2>6 DEF Least
<1> QED BY <1>2, <1>3 DEF CanApply

\* What the application of a grant does, and its cost.
LEMMA ApplyOpens ==
  ASSUME PortfolioInv, NEW i \in Ordinals, Apply(i)
  PROVE  /\ phase = "P7" /\ phase' = "P7" /\ i \in todo /\ (\A j \in todo : i <= j) /\ todo' = todo \ {i}
         /\ CanApply(i) /\ positions' = [positions EXCEPT ![i] = Opened(i)] /\ OpenLot(i)
         /\ i \in Grants /\ positions[i] = Flat /\ positions'[i] # Flat /\ Fresh(i) /\ i \in Intending
<1>0. TypeOKPortfolio /\ TickOrder /\ TickRecords /\ GrantsFit
  BY DEF PortfolioInv
<1>1. phase = "P7" /\ i \in todo /\ \A j \in todo : i <= j
  BY <1>0, TurnIs DEF Apply
<1>2. CanApply(i)
  BY <1>1, GrantsCanBeApplied
<1>3. /\ phase' = "P7" /\ todo' = todo \ {i} /\ OpenLot(i)
      /\ positions' = [positions EXCEPT ![i] = Opened(i)]
  BY <1>2 DEF Apply
<1>4. i \in Grants /\ positions[i] = Flat
  BY <1>0, <1>1 DEF TickOrder
<1>5. decisions[i].units # 0 /\ positions'[i] = Opened(i)
  BY <1>0, <1>1, <1>3, <1>4 DEF GrantsFit, TypeOKPortfolio
<1>6. positions'[i] # Flat
  <2>1. Opened(i).size # Flat.size
    BY <1>5 DEF Opened, Flat
  <2> QED BY <1>5, <2>1
<1>7. i \in Intending
  BY <1>0, <1>1, <1>4 DEF TickOrder, Ticking, Grants, Outcome
<1>8. Fresh(i)
  BY <1>0, <1>1, <1>7 DEF TickRecords, Ticking
<1> QED BY <1>1, <1>2, <1>3, <1>4, <1>6, <1>7, <1>8

\* No step fails the run.
LEMMA ApplicableStep ==
  ASSUME PortfolioInv, NextPortfolio
  PROVE  GrantsAreApplicable'
<1>1. ASSUME NEW i \in Ordinals, Apply(i) PROVE phase' # "failed"
  BY <1>1, ApplyOpens
<1>2. ASSUME NEW i \in Ordinals, \/ Carry(i) \/ MandatoryExit(i) \/ NoExit(i) \/ FormIntent(i) \/ NoEntry(i)
                                 \/ ResolveConflict(i) \/ ResolveCapacity(i) \/ FinalClose(i)
      PROVE  phase' # "failed"
  BY <1>2 DEF Carry, MandatoryExit, NoExit, FormIntent, NoEntry, ResolveConflict, ResolveCapacity, FinalClose, Turn
<1>3. phase # "failed"
  BY DEF PortfolioInv, GrantsAreApplicable
<1>4. ASSUME \/ StartTick \/ StartExits \/ PublishSnapshot \/ StartConflicts \/ StartCapacity
             \/ BeginApply \/ CommitTick \/ Cancel \/ StartFinalize \/ Finish \/ Stop
      PROVE  phase' # "failed"
  BY <1>3, <1>4 DEF StartTick, StartExits, PublishSnapshot, StartConflicts, StartCapacity,
              BeginApply, CommitTick, Cancel, StartFinalize, Finish, Stop, portfolioVars, Enter
<1> QED BY <1>1, <1>2, <1>4 DEF NextPortfolio, GrantsAreApplicable

\* Every step keeps the reason why a mark is missing.
LEMMA AgeStep ==
  ASSUME PortfolioInv, NextPortfolio
  PROVE  UnmarkedOnlyByAge'
<1>1. UnmarkedOnlyByAge /\ RowsFollow
  BY DEF PortfolioInv
<1>2. CASE PublishSnapshot
  <2>1. Unmarked = StaleRefused
    BY <1>1 DEF RowsFollow, Unmarked, StaleRefused, Usable
  <2>2. snap'.unmarked = Unmarked /\ snap'.stale = StaleRefused
    BY <1>2 DEF PublishSnapshot
  <2> QED BY <2>1, <2>2 DEF UnmarkedOnlyByAge
<1>3. CASE CommitTick
  BY <1>3 DEF CommitTick, NoSnap, UnmarkedOnlyByAge
<1>4. CASE UNCHANGED snap
  BY <1>1, <1>4 DEF UnmarkedOnlyByAge
<1>5. ASSUME NEW i \in Ordinals, \/ Carry(i) \/ MandatoryExit(i) \/ NoExit(i) \/ FormIntent(i) \/ NoEntry(i)
                                 \/ ResolveConflict(i) \/ ResolveCapacity(i) \/ Apply(i) \/ FinalClose(i)
      PROVE  UNCHANGED snap
  BY <1>5 DEF Carry, MandatoryExit, NoExit, FormIntent, NoEntry, ResolveConflict, ResolveCapacity, Apply, FinalClose
<1>6. ASSUME \/ StartTick \/ StartExits \/ StartConflicts \/ StartCapacity
             \/ BeginApply \/ Cancel \/ StartFinalize \/ Finish \/ Stop
      PROVE  UNCHANGED snap
  BY <1>6 DEF StartTick, StartExits, StartConflicts, StartCapacity, BeginApply, Cancel, StartFinalize,
              Finish, Stop, portfolioVars
<1> QED BY <1>2, <1>3, <1>4, <1>5, <1>6 DEF NextPortfolio
-----------------------------------------------------------------------------
(* The records of a tick, and the order of its phases *)

\* Every step keeps what the records of a tick speak of.
LEMMA RecordsStep ==
  ASSUME PortfolioInv, NextPortfolio
  PROVE  TickRecords'
<1>0. TypeOKPortfolio /\ TickRecords /\ TickOrder
  BY DEF PortfolioInv
<1> USE DEF TickRecords, Ticking, Intending, Fresh
<1>1. CASE \/ StartTick \/ StartExits \/ Cancel \/ StartFinalize \/ Finish \/ Stop
  BY <1>0, <1>1 DEF StartTick, StartExits, Cancel, StartFinalize, Finish, Stop, Enter, portfolioVars, ledger
<1>2. CASE PublishSnapshot
  <2>1. (\A i \in Ordinals : intents[i] = NoIntent /\ decisions[i] = Undecided) /\ committed = 0
    BY <1>0, <1>2 DEF PublishSnapshot, Enter
  <2>2. snap'.equity = equity /\ equity' = equity
    BY <1>2 DEF PublishSnapshot, ledger
  <2> QED BY <1>2, <2>1, <2>2 DEF PublishSnapshot, Enter
<1>3. CASE StartConflicts \/ StartCapacity \/ BeginApply
  BY <1>0, <1>3 DEF StartConflicts, StartCapacity, BeginApply, Enter, ledger
<1>4. CASE CommitTick
  BY <1>0, <1>4 DEF CommitTick, Enter
<1>5. ASSUME NEW i \in Ordinals, Carry(i) \/ MandatoryExit(i) \/ NoExit(i) \/ FinalClose(i) PROVE TickRecords'
  BY <1>0, <1>5 DEF Carry, MandatoryExit, NoExit, FinalClose, Turn
<1>6. ASSUME NEW i \in Ordinals, FormIntent(i) PROVE TickRecords'
  <2>1. phase = "P4" /\ i \in todo /\ todo' = todo \ {i} /\ phase' = "P4" /\ positions[i] = Flat
    BY <1>0, <1>6, TurnIs DEF FormIntent, Turn
  <2>2. Fresh(i)
    BY <1>0, <2>1
  <2>3. \A j \in Ordinals \ {i} : intents'[j] = intents[j]
    BY <1>0, <1>6 DEF FormIntent, TypeOKPortfolio
  <2>4. UNCHANGED <<now, equity, positions, snap, decisions, committed>>
    BY <1>6 DEF FormIntent, ledger
  <2> QED BY <1>0, <2>1, <2>2, <2>3, <2>4 DEF TypeOKPortfolio
<1>7. ASSUME NEW i \in Ordinals, NoEntry(i) PROVE TickRecords'
  BY <1>0, <1>7 DEF NoEntry, Turn, ledger
<1>8. ASSUME NEW i \in Ordinals, ResolveConflict(i) PROVE TickRecords'
  BY <1>0, <1>8 DEF ResolveConflict, Turn, ledger
<1>9. ASSUME NEW i \in Ordinals, ResolveCapacity(i) PROVE TickRecords'
  BY <1>0, <1>9 DEF ResolveCapacity, Turn, ledger
<1>10. ASSUME NEW i \in Ordinals, Apply(i) PROVE TickRecords'
  <2>1. phase = "P7" /\ phase' = "P7"
    BY <1>10, ApplyOpens
  <2> QED BY <1>0, <1>10, <2>1 DEF Apply
<1> QED BY <1>1, <1>2, <1>3, <1>4, <1>5, <1>6, <1>7, <1>8, <1>9, <1>10 DEF NextPortfolio

\* What a verdict of P6b says, and of whom.
LEMMA CapacityDecides ==
  ASSUME PortfolioInv, NEW i \in Ordinals, ResolveCapacity(i)
  PROVE  /\ phase = "P6" /\ phase' = "P6" /\ i \in todo /\ (\A j \in todo : i <= j) /\ todo' = todo \ {i}
         /\ decisions[i].outcome = "survived" /\ (\A j \in Grants : j < i)
         /\ decisions'[i].units = Granted(i)
         /\ (Granted(i) = 0 => decisions'[i].outcome = "rejected")
         /\ (Granted(i) # 0 => decisions'[i].outcome \in {"capped", "admitted"})
         /\ \A j \in Ordinals \ {i} : decisions'[j] = decisions[j]
         /\ committed' = committed + Granted(i) * Price[i]
         /\ UNCHANGED <<pinned, now, equity, positions, snap, intents>>
<1>0. TypeOKPortfolio /\ TickOrder
  BY DEF PortfolioInv
<1>1. phase = "P6" /\ phase' = "P6" /\ i \in todo /\ (\A j \in todo : i <= j) /\ todo' = todo \ {i}
  BY <1>0, TurnIs DEF ResolveCapacity, Turn
<1>2. decisions[i].outcome = "survived" /\ \A j \in Grants : j < i
  BY <1>0, <1>1 DEF TickOrder, Outcome
<1> DEFINE units == Granted(i)
           verdict == [outcome |-> IF units = 0 THEN "rejected"
                                   ELSE IF units < intents[i].size THEN "capped" ELSE "admitted",
                       units |-> units, by |-> 0]
<1>3. decisions' = [decisions EXCEPT ![i] = verdict] /\ committed' = committed + units * Price[i]
  BY DEF ResolveCapacity
<1> HIDE DEF units
<1>4. /\ verdict.units = units /\ (units = 0 => verdict.outcome = "rejected")
      /\ units # 0 => verdict.outcome \in {"capped", "admitted"}
  OBVIOUS
<1> HIDE DEF verdict
<1>5. decisions'[i] = verdict /\ \A j \in Ordinals \ {i} : decisions'[j] = decisions[j]
  BY <1>0, <1>3 DEF TypeOKPortfolio
<1>6. UNCHANGED <<pinned, now, equity, positions, snap, intents>>
  BY DEF ResolveCapacity, ledger
<1> QED BY <1>1, <1>2, <1>3, <1>4, <1>5, <1>6 DEF units

\* Every step keeps who is still to be asked, and who has been told what.
LEMMA OrderStep ==
  ASSUME PortfolioInv, NextPortfolio
  PROVE  TickOrder'
<1>0. TypeOKPortfolio /\ TickRecords /\ TickOrder /\ RowsFollow
  BY DEF PortfolioInv
<1> USE DEF TickOrder, Ticking, Intending, Outcome, Grants
<1>1. CASE \/ StartTick \/ StartExits \/ Cancel \/ Stop
  BY <1>0, <1>1 DEF StartTick, StartExits, Cancel, Stop, Enter, portfolioVars, ledger, Held
<1>2. CASE StartFinalize
  <2>1. {i \in Held : LastClosed(i) # {}} = Held
    BY <1>0 DEF RowsFollow
  <2> QED BY <1>2, <2>1 DEF StartFinalize, Enter, ledger, Held
<1>3. CASE Finish
  BY <1>0, <1>3 DEF Finish, Enter, ledger, Held
<1>4. CASE PublishSnapshot
  <2>1. \A i \in Ordinals : decisions[i].outcome = "none"
    BY <1>0, <1>4 DEF PublishSnapshot, Enter, TickRecords, Undecided
  <2> QED BY <1>4, <2>1 DEF PublishSnapshot, Enter
<1>5. CASE StartConflicts
  <2>1. \A i \in Ordinals : decisions[i].outcome = "none"
    BY <1>0, <1>5 DEF StartConflicts, Enter, TickRecords, Undecided
  <2> QED BY <1>5, <2>1 DEF StartConflicts, Enter
<1>6. CASE StartCapacity
  <2>1. /\ phase' = "P6" /\ todo' = {i \in Ordinals : decisions[i].outcome = "survived"}
        /\ decisions' = decisions /\ intents' = intents /\ phase = "P5"
    BY <1>6 DEF StartCapacity, Enter
  <2>2. \A i \in Ordinals : decisions[i].outcome \notin {"capped", "admitted"}
    BY <1>0, <2>1
  <2>3. Grants' = {}
    BY <2>1, <2>2
  <2> QED BY <1>0, <2>1, <2>3
<1>7. CASE BeginApply
  <2>1. \A i \in Grants : positions[i] = Flat
    BY <1>0, <1>7 DEF BeginApply, Enter, TickRecords
  <2> QED BY <1>0, <1>7, <2>1 DEF BeginApply, Enter, ledger
<1>8. CASE CommitTick
  BY <1>8 DEF CommitTick, Enter
<1>9. ASSUME NEW i \in Ordinals, Carry(i) \/ MandatoryExit(i) \/ NoExit(i) PROVE TickOrder'
  BY <1>0, <1>9 DEF Carry, MandatoryExit, NoExit, Turn
<1>10. ASSUME NEW i \in Ordinals, FinalClose(i) PROVE TickOrder'
  <2>1. phase = "P10" /\ phase' = "P10" /\ todo' = todo \ {i}
    BY <1>10 DEF FinalClose, Turn
  <2>2. positions'[i] = Flat /\ \A j \in Ordinals \ {i} : positions'[j] = positions[j]
    BY <1>0, <1>10 DEF FinalClose, ClosePosition, TypeOKPortfolio
  <2> QED BY <1>0, <2>1, <2>2 DEF Held
<1>11. ASSUME NEW i \in Ordinals, FormIntent(i) PROVE TickOrder'
  <2>1. phase' = "P4" /\ decisions' = decisions
    BY <1>11 DEF FormIntent, Turn
  <2>2. \A j \in Ordinals : decisions[j].outcome = "none"
    BY <1>0, <1>11 DEF FormIntent, Turn, TickRecords, Undecided
  <2> QED BY <2>1, <2>2
<1>12. ASSUME NEW i \in Ordinals, NoEntry(i) PROVE TickOrder'
  BY <1>0, <1>12 DEF NoEntry, Turn, ledger
<1>13. ASSUME NEW i \in Ordinals, ResolveConflict(i) PROVE TickOrder'
  <2>1. phase = "P5" /\ phase' = "P5" /\ i \in todo /\ todo' = todo \ {i} /\ intents' = intents
    BY <1>0, <1>13, TurnIs DEF ResolveConflict, Turn
  <2>2. decisions'[i].outcome \in {"survived", "blocked"} /\ \A j \in Ordinals \ {i} : decisions'[j] = decisions[j]
    BY <1>0, <1>13 DEF ResolveConflict, TypeOKPortfolio
  <2>3. i \in Intending
    BY <1>0, <2>1
  <2> QED BY <1>0, <2>1, <2>2, <2>3
<1>14. ASSUME NEW i \in Ordinals, ResolveCapacity(i) PROVE TickOrder'
  <2>1. /\ phase' = "P6" /\ todo' = todo \ {i} /\ i \in todo
        /\ decisions[i].outcome = "survived" /\ decisions'[i].outcome \in {"rejected", "capped", "admitted"}
        /\ (\A j \in Ordinals \ {i} : decisions'[j] = decisions[j]) /\ intents' = intents
    BY <1>14, CapacityDecides
  <2>2. (\A j \in todo : i <= j) /\ phase = "P6"
    BY <1>14, CapacityDecides
  <2>3. todo = Outcome("survived") /\ (\A k \in Grants, j \in todo : k < j) /\ i \in Intending
    BY <1>0, <2>1, <2>2
  <2>4. todo' = Outcome("survived")'
    BY <2>1, <2>3
  <2>5. Grants' \subseteq Grants \cup {i} /\ todo \subseteq Ordinals /\ Ordinals \subseteq Nat
    BY <1>0, <2>1, PlanNumbers DEF TypeOKPortfolio
  <2>6. \A j \in todo' : i < j
    BY <2>1, <2>2, <2>5
  <2>7. \A k \in Grants', j \in todo' : k < j
    BY <2>1, <2>3, <2>5, <2>6
  <2>8. \A j \in Ordinals : decisions'[j].outcome # "none" => j \in Intending'
    BY <1>0, <2>1, <2>2, <2>3
  <2> QED BY <2>1, <2>4, <2>7, <2>8
<1>15. ASSUME NEW i \in Ordinals, Apply(i) PROVE TickOrder'
  <2>1. /\ phase = "P7" /\ phase' = "P7" /\ todo' = todo \ {i} /\ positions' = [positions EXCEPT ![i] = Opened(i)]
    BY <1>15, ApplyOpens
  <2>2. decisions' = decisions /\ intents' = intents
    BY <1>15 DEF Apply
  <2>3. \A j \in Ordinals \ {i} : positions'[j] = positions[j]
    BY <1>0, <2>1 DEF TypeOKPortfolio
  <2> QED BY <1>0, <2>1, <2>2, <2>3 DEF TypeOKPortfolio
<1> QED BY <1>1, <1>2, <1>3, <1>4, <1>5, <1>6, <1>7, <1>8, <1>9, <1>10, <1>11, <1>12, <1>13, <1>14, <1>15
        DEF NextPortfolio
-----------------------------------------------------------------------------
(* What is granted fits *)

\* One position changes, and the exposure by the difference of its notional.
LEMMA ExposureMoves ==
  ASSUME TypeOKPortfolio, TypeOKPortfolio', NEW i \in Ordinals,
         \A j \in Ordinals \ {i} : positions'[j] = positions[j]
  PROVE  GrossExposure' = GrossExposure + Notional(positions'[i]) - Notional(positions[i])
<1>1. Summable(Notionals, Ordinals) /\ GrossExposure = SumFunction(Notionals)
  BY ExposureIsNatural
<1>2. Notionals' = [j \in Ordinals |-> Notional(positions'[j])] /\ GrossExposure' = SumFunction(Notionals')
  BY DEF Notionals, GrossExposure, Notional
<1>3. \A j \in Ordinals : Notional(positions'[j]) \in Nat
  <2>1. \A j \in Ordinals : positions'[j] \in Positions
    BY DEF TypeOKPortfolio
  <2>2. \A j \in Ordinals : positions'[j].price \in Nat /\ positions'[j].size \in Nat
    BY <2>1 DEF Positions
  <2> QED BY <2>2, Products DEF Notional
<1>4. Summable(Notionals', Ordinals)
  BY <1>2, <1>3, PlanNumbers DEF Summable
<1>5. \A j \in Ordinals \ {i} : Notionals'[j] = Notionals[j]
  BY <1>2 DEF Notionals
<1>6. SumFunction(Notionals') = SumFunction(Notionals) + Notionals'[i] - Notionals[i]
  BY <1>1, <1>4, <1>5, SumChanges
<1>7. Notionals'[i] = Notional(positions'[i]) /\ Notionals[i] = Notional(positions[i])
  BY <1>2 DEF Notionals
<1> QED BY <1>1, <1>2, <1>6, <1>7

\* No position costs nothing.
LEMMA NothingFlat ==
  Notional(Flat) = 0
BY DEF Notional, Flat

\* A grant is decided: it fits the sleeve, the exposure cap and the pool.
LEMMA GrantFits ==
  ASSUME PortfolioInv, NEW i \in Ordinals, ResolveCapacity(i), TypeOKPortfolio'
  PROVE  GrantsFit'
<1> DEFINE units == Granted(i)
           cost == units * Price[i]
<1>0. TypeOKPortfolio /\ TickOrder /\ TickRecords /\ GrantsFit
  BY DEF PortfolioInv
<1>1. /\ phase = "P6" /\ phase' = "P6" /\ i \in todo
      /\ decisions[i].outcome = "survived" /\ (\A j \in Grants : j < i)
      /\ decisions'[i].units = units
      /\ (units = 0 => decisions'[i].outcome = "rejected")
      /\ (units # 0 => decisions'[i].outcome \in {"capped", "admitted"})
      /\ \A j \in Ordinals \ {i} : decisions'[j] = decisions[j]
      /\ committed' = committed + cost
      /\ UNCHANGED <<pinned, now, equity, positions, snap, intents>>
  BY CapacityDecides
<1>2. /\ units \in Nat /\ units <= intents[i].size /\ intents[i].size \in Nat
      /\ RemainingSleeve(i) \in Nat /\ units <= HalfEven(RemainingSleeve(i), Whole * Price[i])
      /\ pinned.cap # NoCap =>
           ExposureHeadroom \in Nat /\ units <= HalfEven(ExposureHeadroom, Price[i])
      /\ cost > AvailableCapital - committed => units = 0
  BY <1>0, GrantIsAllowed, PositionTypes
<1> HIDE DEF units
<1>3. Price[i] \in Nat \ {0} /\ cost \in Nat /\ (units = 0 => cost = 0) /\ (units # 0 => cost > 0)
      /\ Price[i] * units = cost /\ Whole * Price[i] \in Nat \ {0}
  <2>1. Price[i] \in Nat \ {0} /\ Whole * Price[i] \in Nat \ {0}
    BY PlanNumbers
  <2>2. units # 0 => cost \in Nat \ {0}
    BY <1>2, <2>1, ProductPositive
  <2>3. units = 0 => cost = 0
    BY <2>1
  <2>4. cost \in Nat /\ Price[i] * units = cost
    BY <1>2, <2>1, Products
  <2> HIDE DEF cost
  <2> QED BY <2>1, <2>2, <2>3, <2>4
<1>4. /\ Waiting = Grants /\ Waiting' = Grants' /\ Grants \subseteq Ordinals /\ Ordinals \subseteq Nat
      /\ i \notin Grants /\ Grants' = IF units = 0 THEN Grants ELSE Grants \cup {i}
  BY <1>1, PlanNumbers DEF Waiting, Grants, Outcome
<1>5. /\ \A j \in Ordinals \ {i} : Due(j)' = Due(j)
      /\ Due(i)' = cost
  BY <1>1 DEF Due
<1> HIDE DEF cost
<1>6. Pending' = Pending + cost
  <2>1. Costs' = [j \in Ordinals |-> IF j \in Grants' THEN Due(j)' ELSE 0]
    BY <1>4 DEF Costs
  <2>2. Costs = [j \in Ordinals |-> IF j \in Grants THEN Due(j) ELSE 0]
    BY <1>4 DEF Costs
  <2>3. \A j \in Ordinals \ {i} : Costs'[j] = Costs[j]
    BY <1>4, <1>5, <2>1, <2>2
  <2>4. Costs[i] = 0 /\ Costs'[i] = cost
    BY <1>3, <1>4, <1>5, <2>1, <2>2
  <2>5. /\ Summable(Costs, Ordinals) /\ Pending = SumFunction(Costs)
        /\ Summable(Costs', Ordinals) /\ Pending' = SumFunction(Costs')
    <3>1. \A j \in Ordinals : Due(j)' \in Nat
      <4>1. \A j \in Ordinals \ {i} : Due(j) \in Nat
        BY <1>0, PositionTypes
      <4> QED BY <1>3, <1>5, <4>1
    <3>2. Summable(Costs', Ordinals)
      BY <2>1, <3>1, PlanNumbers DEF Summable
    <3>3. Pending' = SumFunction(Costs')
      BY DEF Pending, Costs
    <3> QED BY <1>0, <3>2, <3>3, CostsAreSummable
  <2>6. Costs'[i] = Costs[i] + cost /\ cost \in Int
    BY <1>3, <2>4
  <2> QED BY <2>3, <2>5, <2>6, SumMoves
<1>7. \A j \in Grants : PendingUpTo(j)' = PendingUpTo(j)
  <2> TAKE j \in Grants
  <2>1. CostsUpTo(j)' = CostsUpTo(j)
    <3>1. \A k \in Ordinals : (k \in Waiting' /\ k <= j) <=> (k \in Waiting /\ k <= j)
      BY <1>1, <1>4
    <3>2. \A k \in Ordinals : k \in Waiting /\ k <= j => k # i
      BY <1>4
    <3>3. \A k \in Ordinals : (IF k \in Waiting' /\ k <= j THEN Due(k)' ELSE 0)
                               = (IF k \in Waiting /\ k <= j THEN Due(k) ELSE 0)
      BY <1>5, <3>1, <3>2
    <3> QED BY <3>3 DEF CostsUpTo
  <2>2. PendingUpTo(j)' = SumFunction(CostsUpTo(j)') /\ PendingUpTo(j) = SumFunction(CostsUpTo(j))
    BY DEF PendingUpTo, CostsUpTo
  <2> QED BY <2>1, <2>2
<1>8. i \in Grants' => PendingUpTo(i)' = Pending'
  <2>1. \A k \in Ordinals : (IF k \in Waiting' /\ k <= i THEN Due(k)' ELSE 0)
                             = (IF k \in Waiting' THEN Due(k)' ELSE 0)
    BY <1>1, <1>4
  <2>2. CostsUpTo(i)' = Costs'
    BY <2>1 DEF CostsUpTo, Costs
  <2>3. PendingUpTo(i)' = SumFunction(CostsUpTo(i)') /\ Pending' = SumFunction(Costs')
    BY DEF PendingUpTo, CostsUpTo, Pending, Costs
  <2> QED BY <2>2, <2>3
<1>9. GrossExposure' = GrossExposure /\ Allocatable(equity)' = Allocatable(equity)
  BY <1>1 DEF GrossExposure, Allocatable
<1>10. GrossExposure \in Nat /\ committed \in Nat /\ Allocatable(equity) \in Nat /\ Pending = committed
  <2>1. equity \in Int /\ committed \in Nat
    BY <1>0 DEF TypeOKPortfolio
  <2> QED BY <1>0, <1>1, <2>1, ExposureIsNatural, PlanTypes DEF GrantsFit
<1>11. \A j \in Grants' : /\ decisions'[j].units \in 1 .. intents'[j].size
                          /\ decisions'[j].units <= HalfEven(SleeveCapacity(j, snap.equity)', Whole * Price[j])
  <2>1. \A j \in Ordinals : SleeveCapacity(j, snap.equity)' = SleeveCapacity(j, snap.equity)
    BY <1>1 DEF SleeveCapacity, Allocatable
  <2>2. ASSUME units # 0
        PROVE  /\ decisions'[i].units \in 1 .. intents'[i].size
               /\ decisions'[i].units <= HalfEven(SleeveCapacity(i, snap.equity)', Whole * Price[i])
    <3>1. positions[i] = Flat
      <4>1. i \in Intending
        BY <1>0, <1>1 DEF TickOrder, Ticking
      <4> QED BY <1>0, <1>1, <4>1 DEF TickRecords, Ticking
    <3>2. SleeveCapacity(i, snap.equity) \in Nat /\ Whole * 0 = 0
      <4>1. snap.equity \in Int
        BY <1>0 DEF TypeOKPortfolio
      <4> QED BY <1>0, <4>1, PlanTypes, PlanNumbers
    <3>3. RemainingSleeve(i) = SleeveCapacity(i, snap.equity)
      BY <3>1, <3>2, NothingFlat DEF RemainingSleeve, Most
    <3> QED BY <1>1, <1>2, <2>1, <2>2, <3>3
  <2>3. \A j \in Grants : j # i
    BY <1>4
  <2> QED BY <1>0, <1>1, <1>4, <2>1, <2>2, <2>3 DEF GrantsFit
<1>12. Waiting' # {} => GrossExposure' + Pending' <= Allocatable(equity)'
  <2>1. CASE units = 0
    <3>1. Pending' = Pending
      BY <1>3, <1>6, <1>10, <2>1
    <3> QED BY <1>0, <1>4, <1>9, <2>1, <3>1 DEF GrantsFit
  <2>2. CASE units # 0
    <3>1. cost <= AvailableCapital - committed /\ AvailableCapital \in Nat
      <4>1. AvailableCapital \in Nat
        BY <1>0, ExposureIsNatural
      <4> QED BY <1>2, <1>3, <1>10, <2>2, <4>1 DEF cost
    <3>2. AvailableCapital = Allocatable(equity) - GrossExposure
      BY <1>3, <1>10, <2>2, <3>1 DEF AvailableCapital, Most
    <3> QED BY <1>3, <1>6, <1>9, <1>10, <3>1, <3>2
  <2> QED BY <2>1, <2>2
<1>13. pinned.cap # NoCap => \A j \in Waiting' : 2 * (GrossExposure' + PendingUpTo(j)') <= 2 * pinned.cap + Price[j]
  <2> SUFFICES ASSUME pinned.cap # NoCap, NEW j \in Grants'
               PROVE  2 * (GrossExposure' + PendingUpTo(j)') <= 2 * pinned.cap + Price[j]
    BY <1>4
  <2>1. CASE j \in Grants
    BY <1>0, <1>4, <1>7, <1>9, <2>1 DEF GrantsFit
  <2>2. CASE j \notin Grants
    <3>1. j = i /\ units # 0
      BY <1>4, <2>2
    <3>2. pinned.cap \in Nat
      BY <1>0, PlanTypes
    <3>3. ExposureHeadroom # 0
      <4>1. HalfEven(0, Price[i]) = 0
        BY <1>3, HalfEvenRounds
      <4>2. units <= HalfEven(ExposureHeadroom, Price[i])
        BY <1>2
      <4> QED BY <1>2, <3>1, <4>1, <4>2
    <3>4. ExposureHeadroom = pinned.cap - committed - GrossExposure
      BY <1>10, <3>2, <3>3 DEF ExposureHeadroom, Most
    <3> DEFINE half == HalfEven(ExposureHeadroom, Price[i])
    <3>5. half \in Nat /\ 2 * (Price[i] * half) <= 2 * ExposureHeadroom + Price[i] /\ units <= half
      BY <1>2, <1>3, HalfEvenRounds
    <3> HIDE DEF half
    <3>6. Price[i] * units <= Price[i] * half /\ Price[i] * half \in Nat
      BY <1>2, <1>3, <3>5, ProductGrows, Products
    <3>7. 2 * cost <= 2 * (pinned.cap - committed - GrossExposure) + Price[i]
      BY <1>2, <1>3, <3>4, <3>5, <3>6
    <3>8. PendingUpTo(i)' = committed + cost
      BY <1>4, <1>6, <1>8, <1>10, <3>1
    <3> QED BY <1>3, <1>9, <1>10, <3>1, <3>2, <3>7, <3>8
  <2> QED BY <2>1, <2>2
<1>14. committed' = Pending' /\ pinned' = pinned /\ phase' = "P6"
  BY <1>1, <1>6, <1>10
<1> QED BY <1>11, <1>12, <1>13, <1>14 DEF GrantsFit

\* A grant is applied: what it cost when it waited is now exposure.
LEMMA ApplyFits ==
  ASSUME PortfolioInv, NEW i \in Ordinals, Apply(i), TypeOKPortfolio'
  PROVE  /\ GrantsFit' /\ GrossExposure' = GrossExposure + Due(i)
         /\ i \in Waiting /\ Notional(positions'[i]) = Due(i)
<1>0. TypeOKPortfolio /\ TickOrder /\ GrantsFit
  BY DEF PortfolioInv
<1>1. /\ phase = "P7" /\ phase' = "P7" /\ i \in todo /\ (\A j \in todo : i <= j) /\ todo' = todo \ {i}
      /\ positions' = [positions EXCEPT ![i] = Opened(i)] /\ positions[i] = Flat
  BY ApplyOpens
<1>2. UNCHANGED <<pinned, equity, snap, intents, decisions, committed>>
  BY DEF Apply
<1>3. positions'[i] = Opened(i) /\ \A j \in Ordinals \ {i} : positions'[j] = positions[j]
  BY <1>0, <1>1 DEF TypeOKPortfolio
<1>4. \A j \in Ordinals : Due(j)' = Due(j) /\ Due(j) \in Nat
  BY <1>0, <1>2, PositionTypes DEF Due
<1>5. GrossExposure' = GrossExposure + Due(i) /\ Notional(positions'[i]) = Due(i)
  <2>1. GrossExposure' = GrossExposure + Notional(positions'[i]) - Notional(positions[i])
    BY <1>0, <1>3, ExposureMoves
  <2>2. Notional(positions'[i]) = Due(i) /\ Notional(positions[i]) = 0
    BY <1>0, <1>1, <1>3, OpenedCosts, NothingFlat
  <2>3. GrossExposure \in Nat /\ Due(i) \in Nat
    BY <1>0, <1>4, ExposureIsNatural
  <2> QED BY <2>1, <2>2, <2>3
<1>6. Waiting = todo /\ Waiting' = todo \ {i} /\ i \in Waiting /\ Waiting \subseteq Ordinals
  BY <1>0, <1>1 DEF Waiting, TypeOKPortfolio
<1>7. Pending' = Pending - Due(i)
  <2>1. Costs' = [j \in Ordinals |-> IF j \in Waiting' THEN Due(j)' ELSE 0]
    BY DEF Costs
  <2>2. Costs'[i] = 0 /\ Costs[i] = Due(i) /\ \A j \in Ordinals \ {i} : Costs'[j] = Costs[j]
    BY <1>4, <1>6, <2>1 DEF Costs
  <2>3. Summable(Costs', Ordinals) /\ Pending' = SumFunction(Costs')
    BY <1>4, <2>1, PlanNumbers DEF Summable, Pending, Costs
  <2>4. Summable(Costs, Ordinals) /\ Pending = SumFunction(Costs)
    BY <1>0, CostsAreSummable
  <2>5. -Due(i) \in Int /\ Costs'[i] = Costs[i] + (-Due(i))
    BY <1>4, <2>2
  <2>6. SumFunction(Costs') = SumFunction(Costs) + (-Due(i))
    BY <2>2, <2>3, <2>4, <2>5, SumMoves
  <2>7. Pending \in Nat
    BY <1>0, CostsAreSummable
  <2> QED BY <1>4, <2>3, <2>4, <2>6, <2>7
<1>8. ASSUME NEW k \in Waiting' PROVE PendingUpTo(k)' = PendingUpTo(k) - Due(i)
  <2>0. i <= k /\ k \in Nat
    BY <1>1, <1>6, PlanNumbers
  <2>1. CostsUpTo(k)' = [j \in Ordinals |-> IF j \in Waiting' /\ j <= k THEN Due(j)' ELSE 0]
    BY DEF CostsUpTo
  <2>2. CostsUpTo(k)'[i] = 0 /\ CostsUpTo(k)[i] = Due(i)
    BY <1>4, <1>6, <2>0, <2>1 DEF CostsUpTo
  <2>3. \A j \in Ordinals \ {i} : CostsUpTo(k)'[j] = CostsUpTo(k)[j]
    BY <1>4, <1>6, <2>1 DEF CostsUpTo
  <2>4. Summable(CostsUpTo(k)', Ordinals)
    BY <1>4, <2>1, PlanNumbers DEF Summable
  <2>5. PendingUpTo(k)' = SumFunction(CostsUpTo(k)')
    BY DEF PendingUpTo, CostsUpTo
  <2>6. Summable(CostsUpTo(k), Ordinals) /\ PendingUpTo(k) = SumFunction(CostsUpTo(k)) /\ PendingUpTo(k) \in Nat
    BY <1>0, CostsAreSummable
  <2>7. -Due(i) \in Int /\ CostsUpTo(k)'[i] = CostsUpTo(k)[i] + (-Due(i))
    BY <1>4, <2>2
  <2>8. SumFunction(CostsUpTo(k)') = SumFunction(CostsUpTo(k)) + (-Due(i))
    BY <2>3, <2>4, <2>6, <2>7, SumMoves
  <2> QED BY <1>4, <2>5, <2>6, <2>8
<1>9. GrossExposure \in Nat /\ Pending \in Nat /\ \A k : PendingUpTo(k) \in Nat
  BY <1>0, ExposureIsNatural, CostsAreSummable
<1>10. GrossExposure' + Pending' = GrossExposure + Pending /\ Allocatable(equity)' = Allocatable(equity)
  BY <1>2, <1>4, <1>5, <1>7, <1>9 DEF Allocatable
<1>11. \A k \in Waiting' : GrossExposure' + PendingUpTo(k)' = GrossExposure + PendingUpTo(k)
  BY <1>4, <1>5, <1>8, <1>9
<1>12. GrossExposure' + Pending' <= Allocatable(equity)'
  BY <1>0, <1>6, <1>10 DEF GrantsFit
<1>13. pinned.cap # NoCap => \A k \in Waiting' : 2 * (GrossExposure' + PendingUpTo(k)') <= 2 * pinned.cap + Price[k]
  BY <1>0, <1>6, <1>11 DEF GrantsFit
<1>14. \A j \in Grants' : /\ decisions'[j].units \in 1 .. intents'[j].size
                          /\ decisions'[j].units <= HalfEven(SleeveCapacity(j, snap.equity)', Whole * Price[j])
  <2>1. \A j \in Ordinals : SleeveCapacity(j, snap.equity)' = SleeveCapacity(j, snap.equity)
    BY <1>2 DEF SleeveCapacity, Allocatable
  <2>2. Grants' = Grants /\ Grants \subseteq Ordinals
    BY <1>2 DEF Grants, Outcome
  <2> QED BY <1>0, <1>1, <1>2, <2>1, <2>2 DEF GrantsFit
<1> QED BY <1>1, <1>2, <1>5, <1>6, <1>12, <1>13, <1>14 DEF GrantsFit

\* The sums a step leaves alone.
LEMMA SumsStay ==
  ASSUME UNCHANGED <<pinned, positions, snap, intents, decisions>>, Waiting' = Waiting
  PROVE  /\ GrossExposure' = GrossExposure /\ Pending' = Pending /\ Grants' = Grants
         /\ \A i : PendingUpTo(i)' = PendingUpTo(i)
         /\ \A i : SleeveCapacity(i, snap.equity)' = SleeveCapacity(i, snap.equity)
BY DEF GrossExposure, Pending, PendingUpTo, Due, Grants, Outcome, SleeveCapacity, Allocatable

\* Every step keeps the grants within the layers.
LEMMA FitStep ==
  ASSUME PortfolioInv, NextPortfolio, TypeOKPortfolio'
  PROVE  GrantsFit'
<1>0. TypeOKPortfolio /\ TickOrder /\ TickRecords /\ GrantsFit
  BY DEF PortfolioInv
<1>1. ASSUME phase' \notin {"P6", "P7"} PROVE GrantsFit'
  <2>1. Waiting' = {}
    BY <1>1 DEF Waiting
  <2> QED BY <1>1, <2>1 DEF GrantsFit
<1>2. CASE \/ StartTick \/ StartExits \/ PublishSnapshot \/ StartConflicts \/ CommitTick
           \/ Cancel \/ StartFinalize \/ Finish \/ Stop
  <2>1. phase' \notin {"P6", "P7"}
    BY <1>2 DEF StartTick, StartExits, PublishSnapshot, StartConflicts, CommitTick, Cancel, StartFinalize,
                Finish, Stop, Enter, Ended, portfolioVars
  <2> QED BY <1>1, <2>1
<1>3. ASSUME NEW i \in Ordinals, \/ Carry(i) \/ MandatoryExit(i) \/ NoExit(i) \/ FormIntent(i) \/ NoEntry(i)
                                 \/ ResolveConflict(i) \/ FinalClose(i)
      PROVE  GrantsFit'
  <2>1. phase' \notin {"P6", "P7"}
    BY <1>3 DEF Carry, MandatoryExit, NoExit, FormIntent, NoEntry, ResolveConflict, FinalClose, Turn
  <2> QED BY <1>1, <2>1
<1>4. CASE StartCapacity
  <2>1. phase = "P5" /\ phase' = "P6" /\ decisions' = decisions /\ committed' = committed
    BY <1>4 DEF StartCapacity, Enter
  <2>2. \A i \in Ordinals : decisions'[i].outcome \notin {"capped", "admitted"}
    BY <1>0, <2>1 DEF TickOrder
  <2>3. Grants' = {} /\ Waiting' = {}
    BY <2>1, <2>2 DEF Grants, Outcome, Waiting
  <2>4. committed' = 0
    BY <1>0, <2>1 DEF TickRecords
  <2>5. Pending' = 0
    <3>1. Costs' = [j \in Ordinals |-> IF j \in Waiting' THEN Due(j)' ELSE 0]
      BY DEF Costs
    <3>2. \A j \in Ordinals : Costs'[j] = 0
      BY <2>3, <3>1
    <3>3. Summable(Costs', Ordinals) /\ Pending' = SumFunction(Costs')
      BY <3>1, <3>2, PlanNumbers DEF Summable, Pending, Costs
    <3> QED BY <3>2, <3>3, SumZero
  <2> QED BY <2>1, <2>3, <2>4, <2>5 DEF GrantsFit
<1>5. CASE BeginApply
  <2>1. /\ phase = "P6" /\ phase' = "P7" /\ todo' = Grants /\ Waiting' = todo'
        /\ UNCHANGED <<pinned, equity, positions, snap, intents, decisions>>
    BY <1>5 DEF BeginApply, Enter, Grants, ledger, Waiting
  <2>2. Waiting = Grants
    BY <2>1 DEF Waiting
  <2>3. /\ GrossExposure' = GrossExposure /\ Pending' = Pending /\ Grants' = Grants
        /\ \A i : PendingUpTo(i)' = PendingUpTo(i)
        /\ \A i : SleeveCapacity(i, snap.equity)' = SleeveCapacity(i, snap.equity)
    BY <2>1, <2>2, SumsStay
  <2>4. Allocatable(equity)' = Allocatable(equity)
    BY <2>1 DEF Allocatable
  <2> QED BY <1>0, <2>1, <2>2, <2>3, <2>4 DEF GrantsFit
<1>6. ASSUME NEW i \in Ordinals, ResolveCapacity(i) PROVE GrantsFit'
  BY <1>6, GrantFits
<1>7. ASSUME NEW i \in Ordinals, Apply(i) PROVE GrantsFit'
  BY <1>7, ApplyFits
<1> QED BY <1>2, <1>3, <1>4, <1>5, <1>6, <1>7 DEF NextPortfolio

\* What is opened fits every layer.
LEMMA OpeningFits ==
  ASSUME PortfolioInv, NEW i \in Ordinals, Apply(i), TypeOKPortfolio'
  PROVE  /\ GrossExposure' <= Most(0, equity - Reserve)
         /\ 2 * Whole * Notional(positions'[i])
              <= 2 * (IF pinned.compound THEN Most(0, snap.equity - Reserve)
                      ELSE Most(0, Pool - Reserve)) * Share[i] + Whole * Price[i]
         /\ pinned.cap # NoCap => 2 * GrossExposure' <= 2 * pinned.cap + Price[i]
<1>0. TypeOKPortfolio /\ GrantsFit
  BY DEF PortfolioInv
<1>1. GrossExposure' = GrossExposure + Due(i) /\ i \in Waiting /\ Notional(positions'[i]) = Due(i)
  BY ApplyFits
<1>2. i \in Grants /\ phase = "P7"
  BY ApplyOpens
<1>3. Due(i) <= Pending /\ Due(i) <= PendingUpTo(i)
  BY <1>0, <1>1, PendingCovers
<1>4. /\ GrossExposure \in Nat /\ Pending \in Nat /\ PendingUpTo(i) \in Nat /\ Due(i) \in Nat
      /\ Allocatable(equity) \in Nat /\ Allocatable(equity) = Most(0, equity - Reserve)
      /\ SleeveCapacity(i, snap.equity) \in Nat
  <2>1. equity \in Int /\ snap.equity \in Int
    BY <1>0 DEF TypeOKPortfolio
  <2>2. Allocatable(equity) = Most(0, equity - Reserve)
    BY DEF Allocatable
  <2> QED BY <1>0, <2>1, <2>2, ExposureIsNatural, CostsAreSummable, PositionTypes, PlanTypes
<1>5. GrossExposure' <= Most(0, equity - Reserve)
  BY <1>0, <1>1, <1>3, <1>4 DEF GrantsFit
<1>6. pinned.cap # NoCap => 2 * GrossExposure' <= 2 * pinned.cap + Price[i]
  <2> SUFFICES ASSUME pinned.cap # NoCap PROVE 2 * GrossExposure' <= 2 * pinned.cap + Price[i]
    OBVIOUS
  <2>1. 2 * (GrossExposure + PendingUpTo(i)) <= 2 * pinned.cap + Price[i]
    BY <1>0, <1>1 DEF GrantsFit
  <2>2. pinned.cap \in Nat /\ Price[i] \in Nat
    BY <1>0, PlanTypes, PlanNumbers
  <2> QED BY <1>1, <1>3, <1>4, <2>1, <2>2
<1>7. 2 * Whole * Notional(positions'[i])
        <= 2 * (IF pinned.compound THEN Most(0, snap.equity - Reserve)
                ELSE Most(0, Pool - Reserve)) * Share[i] + Whole * Price[i]
  <2> DEFINE base == IF pinned.compound THEN Most(0, snap.equity - Reserve) ELSE Most(0, Pool - Reserve)
             quantum == Whole * Price[i]
             half == HalfEven(SleeveCapacity(i, snap.equity), quantum)
             units == decisions[i].units
  <2>1. SleeveCapacity(i, snap.equity) = base * Share[i]
    BY DEF SleeveCapacity, Allocatable
  <2>2. base \in Nat /\ Share[i] \in Nat /\ Whole \in Nat /\ Price[i] \in Nat /\ quantum \in Nat \ {0}
    <3>1. snap.equity \in Int /\ Pool \in Int /\ Reserve \in Int
      BY <1>0, PlanNumbers DEF TypeOKPortfolio
    <3>2. base \in Nat
      BY <3>1 DEF Most
    <3> HIDE DEF base
    <3> QED BY <3>2, PlanNumbers
  <2>3. units <= half /\ units \in Nat /\ Due(i) = units * Price[i]
    BY <1>0, <1>2, PositionTypes DEF GrantsFit, Due
  <2>4. half \in Nat /\ 2 * (quantum * half) <= 2 * SleeveCapacity(i, snap.equity) + quantum
    BY <1>4, <2>2, HalfEvenRounds
  <2>5. Whole * Due(i) = quantum * units
    BY <2>2, <2>3
  <2>11. Whole * Due(i) \in Nat /\ 2 * Whole * Due(i) = 2 * (Whole * Due(i))
    BY <1>4, <2>2, Products
  <2> HIDE DEF base, quantum, half, units
  <2>6. quantum * units <= quantum * half /\ quantum * half \in Nat /\ quantum * units \in Nat
    BY <2>2, <2>3, <2>4, ProductGrows, Products
  <2>7. 2 * (quantum * units) <= 2 * SleeveCapacity(i, snap.equity) + quantum
    BY <1>4, <2>2, <2>4, <2>6
  <2>8. 2 * Whole * Due(i) = 2 * (quantum * units)
    BY <2>5, <2>11
  <2>9. 2 * base * Share[i] = 2 * SleeveCapacity(i, snap.equity)
    BY <2>1, <2>2
  <2>10. 2 * Whole * Notional(positions'[i]) <= 2 * base * Share[i] + quantum
    BY <1>1, <2>7, <2>8, <2>9
  <2> QED BY <2>10 DEF base, quantum
<1> QED BY <1>5, <1>6, <1>7
-----------------------------------------------------------------------------
(* Conflicts *)

\* Opposition is mutual.
LEMMA OpposesBothWays ==
  ASSUME NEW d \in {-1, 0, 1}, NEW e \in {-1, 0, 1}
  PROVE  Opposes(d, e) <=> Opposes(e, d)
BY DEF Opposes

\* So is the doubt whether two items trade one instrument.
LEMMA MayBeSameBothWays ==
  ASSUME NEW i, NEW j
  PROVE  MayBeSame(i, j) <=> MayBeSame(j, i)
BY DEF MayBeSame

\* Nobody joins those who hold or have passed, and nobody there changes sides.
LEMMA StancesStay ==
  ASSUME NoOpposition, pinned' = pinned,
         \A i \in (Held \cup Passed)' : i \in Held \cup Passed /\ Stance(i)' = Stance(i)
  PROVE  NoOpposition'
<1>1. \A i, j : MayBeSame(i, j)' = MayBeSame(i, j)
  BY DEF MayBeSame
<1>2. \A d, e : Opposes(d, e)' = Opposes(d, e)
  BY DEF Opposes
<1>3. ASSUME pinned.block, NEW i \in (Held \cup Passed)', NEW j \in (Held \cup Passed)', i # j, MayBeSame(i, j)
      PROVE  ~Opposes(Stance(i)', Stance(j)')
  <2>1. /\ i \in Held \cup Passed /\ Stance(i)' = Stance(i)
        /\ j \in Held \cup Passed /\ Stance(j)' = Stance(j)
    OBVIOUS
  <2>2. ~Opposes(Stance(i), Stance(j))
    BY <1>3, <2>1 DEF NoOpposition
  <2> QED BY <2>1, <2>2
<1> QED BY <1>3 DEF NoOpposition, MayBeSame, Opposes

\* Where the records of the tick are empty, those who hold are all there is.
LEMMA NobodyPassed ==
  ASSUME \A i \in Ordinals : decisions[i] = Undecided
  PROVE  Passed = {} /\ Outcome("blocked") = {}
BY DEF Passed, Grants, Outcome, Undecided

\* A holder's stance is its position's.
LEMMA StanceOfHolder ==
  ASSUME NEW i \in Held
  PROVE  Stance(i) = positions[i].dir
BY DEF Held, Stance

\* An intent that survives opposes nobody who holds or has survived before it.
LEMMA SurvivorOpposesNobody ==
  ASSUME PortfolioInv, NEW i \in Ordinals, phase = "P5", i \in todo, Counterparty(i) = 0, pinned.block,
         NEW j \in Held \cup Passed, i # j, MayBeSame(i, j)
  PROVE  ~Opposes(Stance(i), Stance(j))
<1>0. TypeOKPortfolio /\ TickOrder /\ TickRecords
  BY DEF PortfolioInv
<1>1. i \in Intending /\ positions[i] = Flat /\ Stance(i) = intents[i].dir
  <2>1. i \in Intending
    BY <1>0 DEF TickOrder
  <2>2. positions[i] = Flat
    BY <1>0, <2>1 DEF TickRecords, Ticking
  <2> QED BY <2>1, <2>2 DEF Stance
<1>2. OpposingHolders(i) = {} /\ OpposingSurvivors(i) = {}
  <2>1. /\ OpposingHolders(i) \subseteq Ordinals /\ OpposingSurvivors(i) \subseteq Ordinals
        /\ Ordinals \subseteq Nat \ {0}
    BY PlanNumbers DEF OpposingHolders, OpposingSurvivors, Held, Outcome
  <2>2. ASSUME OpposingHolders(i) # {} PROVE FALSE
    <3>1. Counterparty(i) = Min(OpposingHolders(i))
      BY <2>2 DEF Counterparty
    <3> QED BY <2>1, <2>2, <3>1, MinIsLeast
  <2>3. ASSUME OpposingHolders(i) = {}, OpposingSurvivors(i) # {} PROVE FALSE
    <3>1. Counterparty(i) = Min(OpposingSurvivors(i))
      BY <2>3 DEF Counterparty
    <3> QED BY <2>1, <2>3, <3>1, MinIsLeast
  <2> QED BY <2>2, <2>3
<1>3. CASE j \in Held
  <2>1. Stance(j) = positions[j].dir
    BY <1>3, StanceOfHolder
  <2> QED BY <1>1, <1>2, <1>3, <2>1 DEF OpposingHolders
<1>4. CASE j \notin Held
  <2>1. j \in Ordinals /\ decisions[j].outcome = "survived"
    BY <1>0, <1>4 DEF TickOrder, Passed, Grants, Outcome
  <2>2. Stance(j) = intents[j].dir
    BY <1>4, <2>1 DEF Held, Stance
  <2> QED BY <1>1, <1>2, <2>1, <2>2 DEF OpposingSurvivors, Outcome
<1> QED BY <1>3, <1>4

\* A stance is a direction.
LEMMA StanceTypes ==
  ASSUME TypeOKPortfolio, NEW i \in Ordinals
  PROVE  Stance(i) \in {-1, 0, 1}
BY PositionTypes DEF Stance

\* Every step keeps those who hold or have passed on one side.
LEMMA OppositionStep ==
  ASSUME PortfolioInv, NextPortfolio
  PROVE  NoOpposition'
<1>0. TypeOKPortfolio /\ TickRecords /\ TickOrder /\ NoOpposition
  BY DEF PortfolioInv
<1>1. ASSUME UNCHANGED <<pinned, positions, intents, decisions>> PROVE NoOpposition'
  BY <1>0, <1>1 DEF NoOpposition, Held, Passed, Grants, Outcome, Stance, MayBeSame, Opposes
<1>2. CASE \/ StartTick \/ StartExits \/ PublishSnapshot \/ StartConflicts \/ StartCapacity
           \/ BeginApply \/ Cancel \/ StartFinalize \/ Finish \/ Stop
  BY <1>1, <1>2 DEF StartTick, StartExits, PublishSnapshot, StartConflicts, StartCapacity,
              BeginApply, Cancel, StartFinalize, Finish, Stop, ledger, portfolioVars
<1>3. ASSUME NEW i \in Ordinals, Carry(i) \/ NoExit(i) \/ NoEntry(i) PROVE NoOpposition'
  BY <1>1, <1>3 DEF Carry, NoExit, NoEntry, ledger
<1>4. ASSUME NEW i \in Ordinals, MandatoryExit(i) \/ FinalClose(i) PROVE NoOpposition'
  <2>1. /\ positions' = [positions EXCEPT ![i] = Flat]
        /\ UNCHANGED <<pinned, intents, decisions>> /\ phase \in {"P3", "P10"}
    BY <1>4 DEF MandatoryExit, FinalClose, ClosePosition, Turn
  <2>2. \A j \in Ordinals : decisions[j] = Undecided /\ decisions'[j] = Undecided
    BY <1>0, <2>1 DEF TickRecords, Ticking
  <2>3. Passed = {} /\ Passed' = {}
    BY <2>2, NobodyPassed DEF Passed, Grants, Outcome, Undecided
  <2>4. positions'[i] = Flat /\ \A j \in Ordinals \ {i} : positions'[j] = positions[j]
    BY <1>0, <2>1 DEF TypeOKPortfolio
  <2>5. \A j \in Held' : j \in Held /\ Stance(j)' = Stance(j)
    BY <2>4 DEF Held, Stance
  <2> QED BY <1>0, <2>1, <2>3, <2>5, StancesStay
<1>5. CASE CommitTick
  <2>1. positions' = positions /\ pinned' = pinned /\ \A j \in Ordinals : decisions'[j] = Undecided
    BY <1>5 DEF CommitTick, ledger
  <2>2. Passed' = {}
    BY <2>1 DEF Passed, Grants, Outcome, Undecided
  <2>3. \A j \in Held' : j \in Held /\ Stance(j)' = Stance(j)
    BY <2>1 DEF Held, Stance
  <2> QED BY <1>0, <2>1, <2>2, <2>3, StancesStay
<1>6. ASSUME NEW i \in Ordinals, FormIntent(i) PROVE NoOpposition'
  <2>1. phase = "P4" /\ UNCHANGED <<pinned, positions, decisions>>
    BY <1>6 DEF FormIntent, Turn, ledger
  <2>2. \A j \in Ordinals : decisions'[j] = Undecided
    BY <1>0, <2>1 DEF TickRecords
  <2>3. Passed' = {}
    BY <2>2 DEF Passed, Grants, Outcome, Undecided
  <2>4. \A j \in Held' : j \in Held /\ Stance(j)' = Stance(j)
    BY <2>1 DEF Held, Stance
  <2> QED BY <1>0, <2>1, <2>3, <2>4, StancesStay
<1>7. ASSUME NEW i \in Ordinals, ResolveConflict(i) PROVE NoOpposition'
  <2>1. phase = "P5" /\ i \in todo /\ UNCHANGED <<pinned, positions, intents>>
    BY <1>0, <1>7, TurnIs DEF ResolveConflict, Turn, ledger
  <2>2. /\ \A j \in Ordinals \ {i} : decisions'[j] = decisions[j]
        /\ Counterparty(i) # 0 => decisions'[i].outcome = "blocked"
    BY <1>0, <1>7 DEF ResolveConflict, TypeOKPortfolio
  <2>3. Held' = Held /\ \A j : Stance(j)' = Stance(j)
    BY <2>1 DEF Held, Stance
  <2>4. Passed' \subseteq Passed \cup {i}
    BY <2>2 DEF Passed, Grants, Outcome
  <2>5. CASE Counterparty(i) # 0
    <3>1. i \notin Passed'
      BY <2>2, <2>5 DEF Passed, Grants, Outcome
    <3>2. \A j \in (Held \cup Passed)' : j \in Held \cup Passed /\ Stance(j)' = Stance(j)
      BY <2>3, <2>4, <3>1
    <3> QED BY <1>0, <2>1, <3>2, StancesStay
  <2>6. CASE Counterparty(i) = 0
    <3> SUFFICES ASSUME pinned.block, NEW j \in Held \cup Passed \cup {i}, NEW k \in Held \cup Passed \cup {i},
                        j # k, MayBeSame(j, k)
                 PROVE  ~Opposes(Stance(j), Stance(k))
      BY <2>1, <2>3, <2>4 DEF NoOpposition, MayBeSame, Opposes
    <3>1. j \in Ordinals /\ k \in Ordinals
      BY DEF Held, Passed, Grants, Outcome
    <3>2. Stance(j) \in {-1, 0, 1} /\ Stance(k) \in {-1, 0, 1} /\ MayBeSame(k, j)
      BY <1>0, <3>1, StanceTypes, MayBeSameBothWays
    <3>3. CASE j = i
      BY <2>1, <2>6, <3>3, SurvivorOpposesNobody
    <3>4. CASE k = i
      <4>1. ~Opposes(Stance(k), Stance(j))
        BY <2>1, <2>6, <3>2, <3>4, SurvivorOpposesNobody
      <4> QED BY <3>2, <4>1, OpposesBothWays
    <3>5. CASE j # i /\ k # i
      BY <1>0, <3>5 DEF NoOpposition
    <3> QED BY <3>3, <3>4, <3>5
  <2> QED BY <2>5, <2>6
<1>8. ASSUME NEW i \in Ordinals, ResolveCapacity(i) PROVE NoOpposition'
  <2>1. /\ UNCHANGED <<pinned, positions, intents>> /\ decisions[i].outcome = "survived"
        /\ \A j \in Ordinals \ {i} : decisions'[j] = decisions[j]
    BY <1>8, CapacityDecides
  <2>2. Held' = Held /\ \A j : Stance(j)' = Stance(j)
    BY <2>1 DEF Held, Stance
  <2>3. Passed' \subseteq Passed
    BY <2>1 DEF Passed, Grants, Outcome
  <2>4. \A j \in (Held \cup Passed)' : j \in Held \cup Passed /\ Stance(j)' = Stance(j)
    BY <2>2, <2>3
  <2> QED BY <1>0, <2>1, <2>4, StancesStay
<1>9. ASSUME NEW i \in Ordinals, Apply(i) PROVE NoOpposition'
  <2>1. /\ positions' = [positions EXCEPT ![i] = Opened(i)] /\ i \in Grants /\ positions[i] = Flat
        /\ positions'[i] # Flat
    BY <1>9, ApplyOpens
  <2>2. UNCHANGED <<pinned, intents, decisions>>
    BY <1>9 DEF Apply
  <2>3. positions'[i] = Opened(i) /\ \A j \in Ordinals \ {i} : positions'[j] = positions[j]
    BY <1>0, <2>1 DEF TypeOKPortfolio
  <2>4. Passed' = Passed /\ i \in Passed /\ Held' \subseteq Held \cup {i} /\ Held' \cup Passed' \subseteq Ordinals
    BY <2>1, <2>2, <2>3 DEF Passed, Grants, Outcome, Held
  <2>5. Stance(i)' = Stance(i)
    BY <2>1, <2>2, <2>3 DEF Stance, Opened
  <2>6. \A j \in Ordinals \ {i} : Stance(j)' = Stance(j)
    BY <2>2, <2>3 DEF Stance
  <2>7. \A j \in (Held \cup Passed)' : j \in Held \cup Passed /\ Stance(j)' = Stance(j)
    BY <2>4, <2>5, <2>6
  <2> QED BY <1>0, <2>2, <2>7, StancesStay
<1> QED BY <1>2, <1>3, <1>4, <1>5, <1>6, <1>7, <1>8, <1>9 DEF NextPortfolio

\* Whoever gave way still does so for the same reason.
LEMMA ReasonsStay ==
  ASSUME GaveWay, TypeOKPortfolio,
         \A i \in Outcome("blocked")' : i \in Outcome("blocked") /\ decisions'[i].by = decisions[i].by,
         \A j \in Passed : j \in Passed',
         \A j \in Held : decisions[j].outcome = "none" => decisions'[j].outcome = "none" /\ j \in Held'
  PROVE  GaveWay'
BY DEF GaveWay

\* Every step keeps a reason for whoever gave way.
LEMMA GaveWayStep ==
  ASSUME PortfolioInv, NextPortfolio
  PROVE  GaveWay'
<1>0. TypeOKPortfolio /\ TickRecords /\ TickOrder /\ GaveWay
  BY DEF PortfolioInv
<1>1. ASSUME UNCHANGED <<positions, decisions>> PROVE GaveWay'
  BY <1>0, <1>1 DEF GaveWay, Held, Passed, Grants, Outcome
<1>2. CASE \/ StartTick \/ StartExits \/ PublishSnapshot \/ StartConflicts \/ StartCapacity
           \/ BeginApply \/ Cancel \/ StartFinalize \/ Finish \/ Stop
  BY <1>1, <1>2 DEF StartTick, StartExits, PublishSnapshot, StartConflicts, StartCapacity,
              BeginApply, Cancel, StartFinalize, Finish, Stop, ledger, portfolioVars
<1>3. ASSUME NEW i \in Ordinals, Carry(i) \/ NoExit(i) \/ FormIntent(i) \/ NoEntry(i) PROVE GaveWay'
  BY <1>1, <1>3 DEF Carry, NoExit, FormIntent, NoEntry, ledger
<1>4. ASSUME NEW i \in Ordinals, MandatoryExit(i) \/ FinalClose(i) PROVE GaveWay'
  <2>1. decisions' = decisions /\ phase \in {"P3", "P10"}
    BY <1>4 DEF MandatoryExit, FinalClose, Turn
  <2>2. \A j \in Ordinals : decisions'[j].outcome = "none"
    BY <1>0, <2>1 DEF TickRecords, Ticking, Undecided
  <2>3. Outcome("blocked")' = {}
    BY <2>2 DEF Outcome
  <2> QED BY <2>3 DEF GaveWay
<1>5. CASE CommitTick
  <2>1. \A j \in Ordinals : decisions'[j].outcome = "none"
    BY <1>5 DEF CommitTick, Undecided
  <2>2. Outcome("blocked")' = {}
    BY <2>1 DEF Outcome
  <2> QED BY <2>2 DEF GaveWay
<1>6. ASSUME NEW i \in Ordinals, ResolveConflict(i) PROVE GaveWay'
  <2>1. phase = "P5" /\ i \in todo /\ UNCHANGED <<pinned, positions, intents>>
    BY <1>0, <1>6, TurnIs DEF ResolveConflict, Turn, ledger
  <2>2. /\ \A j \in Ordinals \ {i} : decisions'[j] = decisions[j]
        /\ Counterparty(i) = 0 => decisions'[i].outcome = "survived"
        /\ Counterparty(i) # 0 => decisions'[i].outcome = "blocked" /\ decisions'[i].by = Counterparty(i)
    BY <1>0, <1>6 DEF ResolveConflict, TypeOKPortfolio
  <2>3. decisions[i].outcome = "none" /\ i \in Intending /\ positions[i] = Flat
    <3>1. i \in Intending /\ decisions[i].outcome = "none"
      BY <1>0, <2>1 DEF TickOrder
    <3> QED BY <1>0, <2>1, <3>1 DEF TickRecords, Ticking
  <2>4. Held' = Held /\ i \notin Held /\ i \notin Passed /\ Passed \subseteq Passed'
    BY <2>1, <2>2, <2>3 DEF Held, Passed, Grants, Outcome
  <2>5. ASSUME NEW k \in Outcome("blocked")', k # i
        PROVE  LET j == decisions'[k].by
               IN  j \in Ordinals \ {k} /\ (j \in Passed' \/ (decisions'[j].outcome = "none" /\ j \in Held'))
    <3>1. k \in Outcome("blocked") /\ decisions'[k] = decisions[k]
      BY <2>2, <2>5 DEF Outcome
    <3>2. LET j == decisions[k].by
          IN  j \in Ordinals \ {k} /\ (j \in Passed \/ (decisions[j].outcome = "none" /\ j \in Held))
      BY <1>0, <3>1 DEF GaveWay
    <3> QED BY <2>2, <2>4, <3>1, <3>2
  <2>6. ASSUME i \in Outcome("blocked")'
        PROVE  LET j == decisions'[i].by
               IN  j \in Ordinals \ {i} /\ (j \in Passed' \/ (decisions'[j].outcome = "none" /\ j \in Held'))
    <3> DEFINE j == Counterparty(i)
    <3>1. decisions'[i].by = j /\ j # 0
      BY <2>2, <2>6 DEF Outcome
    <3>2. /\ OpposingHolders(i) \subseteq Ordinals /\ OpposingSurvivors(i) \subseteq Ordinals
          /\ Ordinals \subseteq Nat
      BY PlanNumbers DEF OpposingHolders, OpposingSurvivors, Held, Outcome
    <3>3. CASE OpposingHolders(i) # {}
      <4>1. j = Min(OpposingHolders(i))
        BY <3>1, <3>3 DEF Counterparty
      <4>2. Min(OpposingHolders(i)) \in OpposingHolders(i)
        BY <3>2, <3>3, MinIsLeast
      <4> HIDE DEF j
      <4>3. j \in Held /\ j # i /\ j \in Ordinals
        BY <4>1, <4>2 DEF OpposingHolders, Held
      <4>4. j \notin Intending
        BY <1>0, <2>1, <4>3 DEF TickRecords, Ticking, Held
      <4>5. decisions[j].outcome = "none"
        BY <1>0, <2>1, <4>3, <4>4 DEF TickOrder, Ticking
      <4> QED BY <2>2, <2>4, <3>1, <4>3, <4>5
    <3>4. CASE OpposingHolders(i) = {}
      <4>1. OpposingSurvivors(i) # {} /\ j = Min(OpposingSurvivors(i))
        BY <3>1, <3>4 DEF Counterparty
      <4>2. Min(OpposingSurvivors(i)) \in OpposingSurvivors(i)
        BY <3>2, <4>1, MinIsLeast
      <4> HIDE DEF j
      <4>3. j \in Ordinals /\ decisions[j].outcome = "survived"
        BY <4>1, <4>2 DEF OpposingSurvivors, Outcome
      <4>4. j # i /\ j \in Passed
        BY <2>3, <4>3 DEF Passed, Outcome
      <4> QED BY <2>4, <3>1, <4>3, <4>4
    <3> QED BY <3>3, <3>4
  <2> QED BY <2>5, <2>6 DEF GaveWay
<1>7. ASSUME NEW i \in Ordinals, ResolveCapacity(i) PROVE GaveWay'
  <2>1. /\ positions' = positions /\ decisions[i].outcome = "survived"
        /\ decisions'[i].outcome \in {"rejected", "capped", "admitted"}
        /\ \A j \in Ordinals \ {i} : decisions'[j] = decisions[j]
    BY <1>7, CapacityDecides
  <2>2. \A j \in Outcome("blocked")' : j \in Outcome("blocked") /\ decisions'[j].by = decisions[j].by
    BY <2>1 DEF Outcome
  <2>3. \A j \in Passed : j \in Passed'
    BY <2>1 DEF Passed, Grants, Outcome
  <2>4. \A j \in Held : decisions[j].outcome = "none" => decisions'[j].outcome = "none" /\ j \in Held'
    BY <2>1 DEF Held
  <2> QED BY <1>0, <2>2, <2>3, <2>4, ReasonsStay
<1>8. ASSUME NEW i \in Ordinals, Apply(i) PROVE GaveWay'
  <2>1. positions' = [positions EXCEPT ![i] = Opened(i)] /\ positions'[i] # Flat /\ decisions' = decisions
    BY <1>8, ApplyOpens DEF Apply
  <2>2. Held \subseteq Held'
    BY <1>0, <2>1 DEF Held, TypeOKPortfolio
  <2>3. Outcome("blocked")' = Outcome("blocked") /\ Passed' = Passed
    BY <2>1 DEF Outcome, Passed, Grants
  <2> QED BY <1>0, <2>1, <2>2, <2>3, ReasonsStay
<1> QED BY <1>2, <1>3, <1>4, <1>5, <1>6, <1>7, <1>8 DEF NextPortfolio
-----------------------------------------------------------------------------
(* The rows and the curve *)

\* Every step keeps the rows and the lots with the ledger.
LEMMA RowsStep ==
  ASSUME PortfolioInv, NextPortfolio
  PROVE  RowsFollow'
<1>0. TypeOKPortfolio /\ RowsFollow /\ TickOrder
  BY DEF PortfolioInv
<1>1. /\ equity \in Int /\ rows \in [n : Nat, net : Int, final : Int] /\ bucket.funding \in Int
      /\ Pool \in Int /\ Fee \in Int /\ now \in Nat
  BY <1>0, PlanNumbers DEF TypeOKPortfolio, Buckets
<1>2. ASSUME now' >= now, now' \in Nat, NEW i \in Ordinals, LastClosed(i) # {} PROVE LastClosed(i)' # {}
  <2>1. PICK t \in Streams[i] : t <= now
    BY <1>2 DEF LastClosed
  <2>2. t \in Nat
    BY PlanNumbers
  <2> QED BY <1>1, <1>2, <2>1, <2>2 DEF LastClosed
<1>3. ASSUME UNCHANGED <<equity, bucket, positions, rows, lots>>, now' >= now, now' \in Nat,
             phase \in {"P10", "done"} => phase' \in {"P10", "done"}
      PROVE  RowsFollow'
  BY <1>0, <1>2, <1>3 DEF RowsFollow, Held
<1>4. CASE StartTick
  <2>1. Later \subseteq Nat /\ Later # {} /\ now' = Min(Later)
    BY <1>4, PlanNumbers DEF Later, StartTick
  <2>2. now' \in Later
    BY <2>1, MinIsLeast
  <2>3. now' \in Nat /\ now' >= now
    BY <1>1, <2>1, <2>2 DEF Later
  <2> QED BY <1>3, <1>4, <2>3 DEF StartTick, Enter, ledger
<1>5. CASE \/ StartExits \/ PublishSnapshot \/ StartConflicts \/ StartCapacity
           \/ BeginApply \/ CommitTick \/ Cancel \/ StartFinalize \/ Finish \/ Stop
  <2>1. UNCHANGED <<equity, bucket, positions, rows, lots, now>>
    BY <1>5 DEF StartExits, PublishSnapshot, StartConflicts, StartCapacity,
                BeginApply, CommitTick, Cancel, StartFinalize, Finish, Stop, ledger, portfolioVars
  <2>2. phase \in {"P10", "done"} => phase' \in {"P10", "done"}
    BY <1>5 DEF StartExits, PublishSnapshot, StartConflicts, StartCapacity,
                BeginApply, CommitTick, Cancel, StartFinalize, Finish, Stop, Enter, portfolioVars
  <2> QED BY <1>1, <1>3, <2>1, <2>2
<1>6. ASSUME NEW i \in Ordinals, \/ NoExit(i) \/ FormIntent(i) \/ NoEntry(i)
                                 \/ ResolveConflict(i) \/ ResolveCapacity(i)
      PROVE  RowsFollow'
  <2>1. UNCHANGED <<equity, bucket, positions, rows, lots, now, phase>>
    BY <1>6 DEF NoExit, FormIntent, NoEntry, ResolveConflict, ResolveCapacity, ledger, Turn
  <2> QED BY <1>1, <1>3, <2>1
<1>7. ASSUME NEW i \in Ordinals, Carry(i) PROVE RowsFollow'
  <2>1. PICK amount \in Fundings : BookFunding(i, amount)
    BY <1>7 DEF Carry
  <2>2. amount \in Int
    BY PlanAssumption
  <2>3. equity' = equity + 0 - 0 - amount /\ bucket'.funding = bucket.funding + amount
    BY <2>1 DEF BookFunding, Book
  <2>4. UNCHANGED <<positions, rows, lots, now>> /\ phase = "P1" /\ phase' = "P1"
    BY <1>7 DEF Carry, Turn
  <2>5. equity' = Pool + rows'.net + rows'.final - bucket'.funding
    BY <1>0, <1>1, <2>2, <2>3, <2>4 DEF RowsFollow
  <2> QED BY <1>0, <2>4, <2>5 DEF RowsFollow, Held, LastClosed
<1>8. ASSUME NEW i \in Ordinals, NEW gross \in Gains, ClosePosition(i), BookTrade(i, gross), now' = now,
             NEW d \in Int, d = gross - Fee
      PROVE  /\ equity' = equity + d /\ bucket'.funding = bucket.funding /\ Held' = Held \ {i}
             /\ \A j \in Held' : LastClosed(j)' # {}
  <2>1. gross \in Int
    BY PlanAssumption
  <2>2. equity' = equity + gross - Fee - 0 /\ bucket'.funding = bucket.funding + 0
    BY <1>8 DEF BookTrade, Book
  <2>3. positions'[i] = Flat /\ \A j \in Ordinals \ {i} : positions'[j] = positions[j]
    BY <1>0, <1>8 DEF ClosePosition, TypeOKPortfolio
  <2>4. Held' = Held \ {i}
    BY <2>3 DEF Held
  <2>5. \A j \in Held' : LastClosed(j)' # {}
    BY <1>0, <1>8, <2>4 DEF RowsFollow, LastClosed
  <2> QED BY <1>1, <1>8, <2>1, <2>2, <2>4, <2>5
<1>9. ASSUME NEW i \in Ordinals, MandatoryExit(i) PROVE RowsFollow'
  <2>1. PICK gross \in Gains : ClosePosition(i) /\ BookTrade(i, gross) /\ CloseLot(i, gross - Fee)
    BY <1>9 DEF MandatoryExit
  <2> DEFINE d == gross - Fee
  <2>2. now' = now /\ phase = "P3" /\ phase' = "P3" /\ d \in Int
    BY <1>1, <1>9, PlanAssumption DEF MandatoryExit, Turn
  <2>3. /\ equity' = equity + d /\ bucket'.funding = bucket.funding /\ Held' = Held \ {i}
        /\ \A j \in Held' : LastClosed(j)' # {}
    BY <1>8, <2>1, <2>2
  <2>4. rows'.net = rows.net + d /\ rows'.final = rows.final /\ lots' = lots \ {i}
    BY <1>1, <2>1 DEF CloseLot
  <2> HIDE DEF d
  <2>5. equity' = Pool + rows'.net + rows'.final - bucket'.funding
    BY <1>0, <1>1, <2>2, <2>3, <2>4 DEF RowsFollow
  <2>6. lots' = Held' /\ rows'.final = 0
    BY <1>0, <2>2, <2>3, <2>4 DEF RowsFollow
  <2> QED BY <2>3, <2>5, <2>6 DEF RowsFollow
<1>10. ASSUME NEW i \in Ordinals, FinalClose(i) PROVE RowsFollow'
  <2>1. PICK gross \in Gains : ClosePosition(i) /\ BookTrade(i, gross) /\ rows' = [rows EXCEPT !.final = @ + gross - Fee]
    BY <1>10 DEF FinalClose
  <2> DEFINE d == gross - Fee
  <2>2. now' = now /\ phase' = "P10" /\ gross \in Int /\ d \in Int
    BY <1>1, <1>10, PlanAssumption DEF FinalClose, Turn
  <2>3. /\ equity' = equity + d /\ bucket'.funding = bucket.funding
        /\ \A j \in Held' : LastClosed(j)' # {}
    BY <1>8, <2>1, <2>2
  <2>4. rows'.net = rows.net /\ rows'.final = rows.final + gross - Fee
    BY <1>1, <2>1
  <2>7. rows'.final = rows.final + d
    BY <1>1, <2>2, <2>4
  <2> HIDE DEF d
  <2>5. equity' = Pool + rows'.net + rows'.final - bucket'.funding
    BY <1>0, <1>1, <2>2, <2>3, <2>4, <2>7 DEF RowsFollow
  <2> QED BY <2>2, <2>3, <2>5 DEF RowsFollow
<1>11. ASSUME NEW i \in Ordinals, Apply(i) PROVE RowsFollow'
  <2>1. /\ phase = "P7" /\ phase' = "P7" /\ positions' = [positions EXCEPT ![i] = Opened(i)] /\ OpenLot(i)
        /\ positions'[i] # Flat /\ Fresh(i)
    BY <1>11, ApplyOpens
  <2>2. UNCHANGED <<now, equity, bucket, rows>>
    BY <1>11 DEF Apply
  <2>3. \A j \in Ordinals \ {i} : positions'[j] = positions[j]
    BY <1>0, <2>1 DEF TypeOKPortfolio
  <2>4. Held' = Held \cup {i}
    BY <2>1, <2>3 DEF Held
  <2>5. LastClosed(i) # {}
    BY <1>1, <2>1 DEF Fresh, LastClosed
  <2>6. \A j \in Held' : LastClosed(j)' # {}
    BY <1>0, <2>2, <2>4, <2>5 DEF RowsFollow, LastClosed
  <2>7. lots' = Held' /\ rows'.final = 0
    BY <1>0, <2>1, <2>2, <2>4 DEF RowsFollow, OpenLot
  <2> QED BY <1>0, <2>2, <2>6, <2>7 DEF RowsFollow
<1> QED BY <1>4, <1>5, <1>6, <1>7, <1>9, <1>10, <1>11 DEF NextPortfolio

\* The curve as it is when nothing appends to it.
CurveHolds ==
  /\ Len(points) >= 1 /\ points[Len(points)].t <= now
  /\ \A k \in 1..Len(points) - 1 : points[k].t < points[k + 1].t
  /\ DrawdownCoversTheCurve
  /\ peak >= equity /\ \A k \in 1 .. Len(points) : peak >= points[k].equity

\* A point that states the equity and the fall from the peak can follow the curve, or
\* replace its last point.
LEMMA PointIsSound ==
  ASSUME TypeOKPortfolio, CurveHolds, NEW point, point = [t |-> now, equity |-> equity, drawdown |-> peak - equity],
         UNCHANGED <<now, equity, peak>>,
         \/ points' = Append(points, point) /\ points[Len(points)].t < now
         \/ points' = [points EXCEPT ![Len(points)] = point] /\ points[Len(points)].t = now
  PROVE  CurveHolds' /\ points'[Len(points')].equity = equity
<1> DEFINE n == Len(points)
<1>1. points \in Seq(Points) /\ n \in Nat /\ n >= 1 /\ equity \in Int /\ peak \in Int /\ now \in Nat
  BY PlanNumbers DEF TypeOKPortfolio, Points, CurveHolds
<1>2. \A k \in 1..n : points[k] \in Points
  BY <1>1
<1>3. \A k \in 1..n : points[k].equity \in Int /\ points[k].drawdown \in Int /\ points[k].t \in Int
  <2>1. Axis \cup {0} \subseteq Int
    BY PlanNumbers
  <2> QED BY <1>2, <2>1 DEF Points
<1>4. point.t = now /\ point.equity = equity /\ point.drawdown = peak - equity
  OBVIOUS
<1> HIDE DEF n
<1>5. point \in Points
  BY <1>1 DEF TypeOKPortfolio, Points
<1>6. CASE points' = Append(points, point) /\ points[n].t < now
  <2>1. Len(points') = n + 1 /\ points'[n + 1] = point /\ \A k \in 1..n : points'[k] = points[k]
    BY <1>1, <1>5, <1>6 DEF n
  <2>2. points'[Len(points')] = point
    BY <2>1
  <2>3. \A k \in 1..Len(points') - 1 : points'[k].t < points'[k + 1].t
    <3> TAKE k \in 1..Len(points') - 1
    <3>1. CASE k = n
      BY <1>1, <1>4, <1>6, <2>1, <3>1
    <3>2. CASE k # n
      <4>1. k \in 1..n - 1 /\ k \in 1..n /\ k + 1 \in 1..n
        BY <1>1, <2>1, <3>2
      <4> QED BY <2>1, <4>1 DEF CurveHolds, n
    <3> QED BY <3>1, <3>2
  <2>4. \A k \in 1 .. Len(points') : peak' >= points'[k].equity
    <3> TAKE k \in 1..Len(points')
    <3>1. CASE k = n + 1
      BY <1>4, <2>1, <3>1 DEF CurveHolds
    <3>2. CASE k # n + 1
      <4>1. k \in 1..n
        BY <1>1, <2>1, <3>2
      <4> QED BY <2>1, <4>1 DEF CurveHolds, n
    <3> QED BY <3>1, <3>2
  <2>5. DrawdownCoversTheCurve'
    <3> SUFFICES ASSUME NEW k \in 1..n + 1, NEW j \in 1..k
                 PROVE  points'[k].drawdown >= points'[j].equity - points'[k].equity
      BY <2>1 DEF DrawdownCoversTheCurve
    <3>1. CASE k = n + 1
      <4>1. points'[j].equity \in Int /\ peak >= points'[j].equity
        <5>1. j \in 1..Len(points')
          BY <1>1, <2>1, <3>1
        <5>2. j \in 1..n \/ j = n + 1
          BY <1>1, <3>1
        <5>3. points'[j].equity \in Int
          BY <1>1, <1>3, <1>4, <2>1, <5>2
        <5> QED BY <2>4, <5>1, <5>3
      <4> QED BY <1>1, <1>4, <2>1, <3>1, <4>1
    <3>2. CASE k # n + 1
      <4>1. k \in 1..n /\ j \in 1..n
        BY <1>1, <3>2
      <4> QED BY <2>1, <4>1 DEF CurveHolds, DrawdownCoversTheCurve, n
    <3> QED BY <3>1, <3>2
  <2> QED BY <1>1, <1>4, <2>1, <2>2, <2>3, <2>4, <2>5 DEF CurveHolds
<1>7. CASE points' = [points EXCEPT ![n] = point] /\ points[n].t = now
  <2>1. Len(points') = n /\ points'[n] = point /\ \A k \in 1..n - 1 : points'[k] = points[k]
    BY <1>1, <1>5, <1>7 DEF n
  <2>3. \A k \in 1..Len(points') - 1 : points'[k].t < points'[k + 1].t
    <3> TAKE k \in 1..Len(points') - 1
    <3>1. k \in 1..n - 1 /\ points[k].t < points[k + 1].t
      BY <1>1, <2>1 DEF CurveHolds, n
    <3>2. CASE k + 1 = n
      BY <1>1, <1>4, <1>7, <2>1, <3>1, <3>2
    <3>3. CASE k + 1 # n
      <4>1. k + 1 \in 1..n - 1
        BY <1>1, <3>1, <3>3
      <4> QED BY <2>1, <3>1, <4>1
    <3> QED BY <3>2, <3>3
  <2>4. \A k \in 1 .. Len(points') : peak' >= points'[k].equity
    <3> TAKE k \in 1..Len(points')
    <3>1. CASE k = n
      BY <1>4, <2>1, <3>1 DEF CurveHolds
    <3>2. CASE k # n
      <4>1. k \in 1..n - 1 /\ k \in 1..n
        BY <1>1, <2>1, <3>2
      <4> QED BY <2>1, <4>1 DEF CurveHolds, n
    <3> QED BY <3>1, <3>2
  <2>5. DrawdownCoversTheCurve'
    <3> SUFFICES ASSUME NEW k \in 1..n, NEW j \in 1..k
                 PROVE  points'[k].drawdown >= points'[j].equity - points'[k].equity
      BY <2>1 DEF DrawdownCoversTheCurve
    <3>1. CASE k = n
      <4>1. points'[j].equity \in Int /\ peak >= points'[j].equity
        <5>1. j \in 1..Len(points')
          BY <1>1, <2>1, <3>1
        <5>2. j \in 1..n - 1 \/ j = n
          BY <1>1, <3>1
        <5>4. j \in 1..n
          BY <1>1, <3>1
        <5>3. points'[j].equity \in Int
          BY <1>1, <1>3, <1>4, <2>1, <5>2, <5>4
        <5> QED BY <2>4, <5>1, <5>3
      <4> QED BY <1>1, <1>4, <2>1, <3>1, <4>1
    <3>2. CASE k # n
      <4>1. k \in 1..n - 1 /\ j \in 1..n - 1 /\ k \in 1..n
        BY <1>1, <3>2
      <4> QED BY <2>1, <4>1 DEF CurveHolds, DrawdownCoversTheCurve, n
    <3> QED BY <3>1, <3>2
  <2> QED BY <1>1, <1>4, <2>1, <2>3, <2>4, <2>5 DEF CurveHolds
<1> QED BY <1>6, <1>7 DEF n

\* While nothing is appended the curve stays sound: the peak only rises.
LEMMA CurveStays ==
  ASSUME TypeOKPortfolio, CurveHolds, points' = points, now' >= now, now' \in Nat,
         peak' >= peak, peak' >= equity', peak' \in Int
  PROVE  CurveHolds'
<1>1. points \in Seq(Points) /\ peak \in Int /\ now \in Nat
  BY PlanNumbers DEF TypeOKPortfolio, Points
<1>2. \A k \in 1..Len(points) : points[k] \in Points
  BY <1>1
<1>3. \A k \in 1..Len(points) : points[k].equity \in Int /\ points[k].t \in Nat
  <2>1. Axis \cup {0} \subseteq Nat
    BY PlanNumbers
  <2> QED BY <1>2, <2>1 DEF Points
<1>4. \A k \in 1..Len(points) : peak' >= points[k].equity
  BY <1>1, <1>3 DEF CurveHolds
<1>5. points[Len(points)].t <= now'
  <2>1. Len(points) \in 1..Len(points)
    BY <1>1 DEF CurveHolds
  <2> QED BY <1>1, <1>3, <2>1 DEF CurveHolds
<1>6. DrawdownCoversTheCurve'
  BY DEF CurveHolds, DrawdownCoversTheCurve
<1> QED BY <1>4, <1>5, <1>6 DEF CurveHolds

\* Every step keeps the curve with the ledger.
LEMMA CurveStep ==
  ASSUME PortfolioInv, NextPortfolio
  PROVE  CurveFollows'
<1>0. TypeOKPortfolio /\ CurveFollows /\ TickRecords
  BY DEF PortfolioInv
<1>1. CurveHolds /\ equity \in Int /\ peak \in Int /\ now \in Nat
  BY <1>0, PlanNumbers DEF CurveHolds, CurveFollows, CurveIsTheLedger, TypeOKPortfolio
<1>2. points \in Seq(Points) /\ Len(points) \in 1..Len(points) /\ points[Len(points)].t \in Nat
  <2>1. points \in Seq(Points) /\ Len(points) \in 1..Len(points) /\ Axis \cup {0} \subseteq Nat
    BY <1>0, <1>1, PlanNumbers DEF TypeOKPortfolio, Points, CurveHolds
  <2>2. points[Len(points)] \in Points
    BY <2>1
  <2> QED BY <2>1, <2>2 DEF Points
<1> USE DEF AtRest, Ticking
<1>3. ASSUME UNCHANGED <<now, equity, peak, points>>,
             AtRest' => AtRest,
             phase' \in {"P1", "P3"} \cup Ticking => phase \in {"P1", "P3"} \cup Ticking
      PROVE  CurveFollows'
  <2>1. CurveHolds'
    BY <1>0, <1>1, <1>3, CurveStays DEF CurveHolds
  <2> QED BY <1>0, <1>3, <2>1 DEF CurveFollows, CurveHolds, CurveIsTheLedger
<1>4. CASE \/ StartExits \/ PublishSnapshot \/ StartConflicts \/ StartCapacity
           \/ BeginApply \/ Cancel \/ StartFinalize \/ Stop
  <2>1. UNCHANGED <<now, equity, peak, points>>
    BY <1>4 DEF StartExits, PublishSnapshot, StartConflicts, StartCapacity,
                BeginApply, Cancel, StartFinalize, Stop, ledger, portfolioVars
  <2>2. /\ AtRest' => AtRest
        /\ phase' \in {"P1", "P3"} \cup Ticking => phase \in {"P1", "P3"} \cup Ticking
    BY <1>4 DEF StartExits, PublishSnapshot, StartConflicts, StartCapacity,
                BeginApply, Cancel, StartFinalize, Stop, Enter, portfolioVars
  <2> QED BY <1>3, <2>1, <2>2
<1>5. ASSUME NEW i \in Ordinals, \/ NoExit(i) \/ FormIntent(i) \/ NoEntry(i)
                                 \/ ResolveConflict(i) \/ ResolveCapacity(i)
      PROVE  CurveFollows'
  <2>1. UNCHANGED <<now, equity, peak, points, phase>>
    BY <1>5 DEF NoExit, FormIntent, NoEntry, ResolveConflict, ResolveCapacity, ledger, Turn
  <2> QED BY <1>3, <2>1
<1>6. ASSUME NEW i \in Ordinals, Apply(i) PROVE CurveFollows'
  <2>1. UNCHANGED <<now, equity, peak, points>> /\ phase = "P7" /\ phase' = "P7"
    BY <1>6, ApplyOpens DEF Apply
  <2> QED BY <1>3, <2>1
<1>7. CASE StartTick
  <2>1. Later \subseteq Nat /\ Later # {} /\ now' = Min(Later)
    BY <1>7, PlanNumbers DEF Later, StartTick
  <2>2. now' \in Later
    BY <2>1, MinIsLeast
  <2>3. now' \in Nat /\ now' > now
    BY <1>1, <2>1, <2>2 DEF Later
  <2>4. UNCHANGED <<equity, peak, points>> /\ phase' = "P1"
    BY <1>7 DEF StartTick, Enter, ledger
  <2>5. CurveHolds'
    BY <1>0, <1>1, <2>3, <2>4, CurveStays DEF CurveHolds
  <2>6. points'[Len(points')].t < now'
    BY <1>1, <1>2, <2>3, <2>4 DEF CurveHolds
  <2> QED BY <2>4, <2>5, <2>6 DEF CurveFollows, CurveHolds, CurveIsTheLedger
<1>8. ASSUME NEW i \in Ordinals, Carry(i) \/ MandatoryExit(i) \/ FinalClose(i) PROVE CurveFollows'
  <2>1. UNCHANGED <<now, points>> /\ phase' = phase /\ phase \in {"P1", "P3", "P10"}
    BY <1>8 DEF Carry, MandatoryExit, FinalClose, Turn
  <2>2. peak' = Most(peak, equity')
    BY <1>8 DEF Carry, MandatoryExit, FinalClose, BookFunding, BookTrade, Book
  <2>3. TypeOKPortfolio'
    BY <1>8, TypesStep DEF NextPortfolio
  <2>4. peak' >= peak /\ peak' >= equity' /\ peak' \in Int
    BY <1>1, <2>2, <2>3, MostLeast DEF TypeOKPortfolio
  <2>5. CurveHolds'
    BY <1>0, <1>1, <2>1, <2>4, CurveStays
  <2> QED BY <1>0, <2>1, <2>5 DEF CurveFollows, CurveHolds, CurveIsTheLedger
<1> DEFINE point == [t |-> now, equity |-> equity, drawdown |-> peak - equity]
<1>9. CASE CommitTick
  <2>1. /\ phase = "P7" /\ phase' = "idle" /\ UNCHANGED <<now, equity, peak>>
        /\ points' = Committed(now)
    BY <1>9 DEF CommitTick, Enter, ledger
  <2>2. points[Len(points)].t < now
    BY <1>0, <2>1 DEF CurveFollows
  <2>3. CASE equity = points[Len(points)].equity
    <3>1. points' = points
      BY <2>1, <2>3 DEF Committed
    <3>2. CurveHolds'
      BY <1>0, <1>1, <2>1, <3>1, CurveStays DEF CurveHolds
    <3> QED BY <2>1, <2>3, <3>1, <3>2 DEF CurveFollows, CurveHolds, CurveIsTheLedger
  <2>4. CASE equity # points[Len(points)].equity
    <3>1. points' = Append(points, point)
      BY <2>1, <2>4 DEF Committed
    <3>2. CurveHolds' /\ points'[Len(points')].equity = equity
      BY <1>0, <1>1, <2>1, <2>2, <3>1, PointIsSound
    <3> QED BY <2>1, <3>2 DEF CurveFollows, CurveHolds, CurveIsTheLedger
  <2> QED BY <2>3, <2>4
<1>10. CASE Finish
  <2>1. /\ phase' = "done" /\ UNCHANGED <<now, equity, peak>> /\ points' = Folded
    BY <1>10 DEF Finish, Enter, ledger
  <2>2. CASE equity = points[Len(points)].equity
    <3>1. points' = points
      BY <2>1, <2>2 DEF Folded, Committed
    <3>2. CurveHolds'
      BY <1>0, <1>1, <2>1, <3>1, CurveStays DEF CurveHolds
    <3> QED BY <2>1, <2>2, <3>1, <3>2 DEF CurveFollows, CurveHolds, CurveIsTheLedger
  <2>3. CASE equity # points[Len(points)].equity
    <3>1. \/ points' = Append(points, point) /\ points[Len(points)].t < now
          \/ points' = [points EXCEPT ![Len(points)] = point] /\ points[Len(points)].t = now
      <4>1. points[Len(points)].t <= now
        BY <1>1 DEF CurveHolds
      <4>2. CASE points[Len(points)].t = now
        BY <2>1, <2>3, <4>2 DEF Folded
      <4>3. CASE points[Len(points)].t # now
        <5>1. points' = Append(points, point)
          BY <2>1, <2>3, <4>3 DEF Folded, Committed
        <5>2. points[Len(points)].t < now
          BY <1>1, <1>2, <4>1, <4>3
        <5> QED BY <5>1, <5>2
      <4> QED BY <4>2, <4>3
    <3>2. CurveHolds' /\ points'[Len(points')].equity = equity
      BY <1>0, <1>1, <2>1, <3>1, PointIsSound
    <3> QED BY <2>1, <3>2 DEF CurveFollows, CurveHolds, CurveIsTheLedger
  <2> QED BY <2>2, <2>3
<1> QED BY <1>3, <1>4, <1>5, <1>6, <1>7, <1>8, <1>9, <1>10 DEF NextPortfolio
-----------------------------------------------------------------------------
(* The invariant and what follows from it *)

\* The invariant holds at the start,
LEMMA PortfolioInit ==
  ASSUME InitPortfolio
  PROVE  PortfolioInv
<1> USE DEF InitPortfolio
<1>0. Pool \in Nat /\ IsFiniteSet(Ordinals) /\ Flat \in Positions /\ 0 \in Axis \cup {0}
  BY PlanNumbers DEF Flat, Positions
<1>1. \A i \in Ordinals : /\ attribution[i] = Nothing /\ positions[i] = Flat /\ intents[i] = NoIntent
                          /\ decisions[i] = Undecided
                          /\ own[i] = [net |-> 0, fills |-> 0, pos |-> Flat]
  OBVIOUS
<1>2. Len(points) = 1 /\ points[1] = [t |-> 0, equity |-> Pool, drawdown |-> 0]
  OBVIOUS
<1>3. Held = {} /\ Intending = {}
  BY <1>1 DEF Held, Intending
<1>4. Passed = {} /\ Outcome("blocked") = {}
  BY <1>1, NobodyPassed
<1>5. TypeOKPortfolio
  <2>1. points \in Seq([t : Axis \cup {0}, equity : Int, drawdown : Int])
    <3>1. [t |-> 0, equity |-> Pool, drawdown |-> 0] \in [t : Axis \cup {0}, equity : Int, drawdown : Int]
      BY <1>0
    <3> QED BY <3>1
  <2>2. bucket \in Buckets /\ attribution \in [Ordinals -> Buckets]
    BY DEF Nothing, Buckets
  <2>3. positions \in [Ordinals -> Positions] /\ own \in [Ordinals -> [net : Int, fills : Nat, pos : Positions]]
    BY <1>0
  <2>4. /\ snap \in [equity : Int, unmarked : SUBSET Ordinals, stale : SUBSET Ordinals]
        /\ intents \in [Ordinals -> [dir : {-1, 0, 1}, size : Nat]]
    BY DEF NoSnap, NoIntent
  <2>5. decisions \in [Ordinals -> [outcome : Outcomes, units : Nat, by : Ordinals \cup {0}]]
    BY DEF Undecided, Outcomes
  <2>6. rows \in [n : Nat, net : Int, final : Int] /\ lots \subseteq Ordinals /\ todo \subseteq Ordinals
    OBVIOUS
  <2> QED BY <1>0, <2>1, <2>2, <2>3, <2>4, <2>5, <2>6 DEF TypeOKPortfolio
<1>6. BooksBalance
  <2> DEFINE f == [i \in Ordinals |-> attribution[i].realized]
             g == [i \in Ordinals |-> attribution[i].fees]
             h == [i \in Ordinals |-> attribution[i].funding]
  <2>1. /\ Summable(f, Ordinals) /\ Summable(g, Ordinals) /\ Summable(h, Ordinals)
        /\ \A i \in Ordinals : f[i] = 0 /\ g[i] = 0 /\ h[i] = 0
    BY <1>0, <1>1 DEF Nothing, Summable
  <2> HIDE DEF f, g, h
  <2>2. SumFunction(f) = 0 /\ SumFunction(g) = 0 /\ SumFunction(h) = 0
    BY <2>1, SumZero
  <2>3. bucket.realized = 0 /\ bucket.fees = 0 /\ bucket.funding = 0 /\ equity = Pool
    BY DEF Nothing
  <2> QED BY <1>0, <2>2, <2>3 DEF BooksBalance, f, g, h
<1>7. BooksPartByTheEntryFees
  <2>1. Fee * 0 = 0
    BY PlanNumbers
  <2> QED BY <1>1, <2>1 DEF BooksPartByTheEntryFees, Nothing
<1>8. TickRecords /\ TickOrder
  BY <1>1, <1>3, <1>4 DEF TickRecords, TickOrder, Ticking
<1>9. GrantsFit
  <2>1. Waiting = {}
    BY DEF Waiting
  <2> QED BY <2>1 DEF GrantsFit
<1>10. NoOpposition /\ GaveWay
  BY <1>3, <1>4 DEF NoOpposition, GaveWay
<1>11. RowsFollow
  BY <1>0, <1>3 DEF RowsFollow, Nothing
<1>12. CurveFollows
  <2>1. \A k \in 1..Len(points) : k = 1
    BY <1>2
  <2>2. DrawdownCoversTheCurve
    BY <1>0, <1>2, <2>1 DEF DrawdownCoversTheCurve
  <2>3. CurveIsTheLedger
    BY <1>2 DEF CurveIsTheLedger
  <2> QED BY <1>0, <1>2, <2>1, <2>2, <2>3 DEF CurveFollows, Ticking
<1>13. UnmarkedOnlyByAge /\ GrantsAreApplicable
  BY DEF UnmarkedOnlyByAge, GrantsAreApplicable, NoSnap
<1> QED BY <1>5, <1>6, <1>7, <1>8, <1>9, <1>10, <1>11, <1>12, <1>13 DEF PortfolioInv

\* after every step,
LEMMA PortfolioNext ==
  ASSUME PortfolioInv, NextPortfolio
  PROVE  PortfolioInv'
<1>1. TypeOKPortfolio'
  BY TypesStep
<1> QED BY <1>1, BalanceStep, PartStep, RecordsStep, OrderStep, FitStep, OppositionStep, GaveWayStep,
           RowsStep, CurveStep, AgeStep, ApplicableStep
        DEF PortfolioInv

\* and when nothing happens,
LEMMA PortfolioStutters ==
  ASSUME PortfolioInv, UNCHANGED portfolioVars
  PROVE  PortfolioInv'
<1> USE DEF portfolioVars, ledger
<1>1. /\ TypeOKPortfolio /\ BooksBalance /\ BooksPartByTheEntryFees /\ TickRecords /\ TickOrder /\ GrantsFit
      /\ NoOpposition /\ GaveWay /\ RowsFollow /\ CurveFollows /\ UnmarkedOnlyByAge /\ GrantsAreApplicable
  BY DEF PortfolioInv
<1>2. TypeOKPortfolio' /\ BooksBalance' /\ BooksPartByTheEntryFees'
  BY <1>1 DEF TypeOKPortfolio, BooksBalance, BooksPartByTheEntryFees
<1>3. Held' = Held /\ Passed' = Passed /\ Grants' = Grants /\ Intending' = Intending
      /\ Outcome("survived")' = Outcome("survived") /\ Outcome("blocked")' = Outcome("blocked")
  BY DEF Held, Passed, Grants, Outcome, Intending
<1>4. \A i : Fresh(i)' = Fresh(i) /\ Stance(i)' = Stance(i) /\ LastClosed(i)' = LastClosed(i)
  BY DEF Fresh, Stance, LastClosed
<1>5. TickRecords' /\ TickOrder'
  BY <1>1, <1>3, <1>4 DEF TickRecords, TickOrder
<1>6. GrantsFit'
  <2>1. Waiting' = Waiting
    BY <1>3 DEF Waiting
  <2> QED BY <1>1, <1>3, <2>1, SumsStay DEF GrantsFit, Allocatable
<1>7. NoOpposition' /\ GaveWay' /\ RowsFollow'
  BY <1>1, <1>3, <1>4 DEF NoOpposition, GaveWay, RowsFollow, MayBeSame, Opposes
<1>8. CurveFollows' /\ UnmarkedOnlyByAge' /\ GrantsAreApplicable'
  BY <1>1 DEF CurveFollows, CurveIsTheLedger, DrawdownCoversTheCurve, AtRest, UnmarkedOnlyByAge, GrantsAreApplicable
<1> QED BY <1>2, <1>5, <1>6, <1>7, <1>8 DEF PortfolioInv

\* so it always holds.
LEMMA PortfolioAlways ==
  SpecPortfolio => []PortfolioInv
<1>1. InitPortfolio => PortfolioInv
  BY PortfolioInit
<1>2. PortfolioInv /\ [NextPortfolio]_portfolioVars => PortfolioInv'
  BY PortfolioNext, PortfolioStutters
<1> QED BY <1>1, <1>2, PTL DEF SpecPortfolio

\* LedgersAgree: the pool's ledger and the items' own ledgers hold the same positions, part by
\* exactly the commissions of the entry fills, explain E(t) line by line, and the trade rows
\* follow them; whatever arbitration grants can be applied, so that no run fails on it.
THEOREM TheLedgersAgree == SpecPortfolio => []LedgersAgree
<1>1. PortfolioInv => LedgersAgree
  <2> SUFFICES ASSUME PortfolioInv PROVE LedgersAgree
    OBVIOUS
  <2>1. RowsAndFinalClosesAreTheEquity
    BY DEF PortfolioInv, RowsFollow, TickOrder, RowsAndFinalClosesAreTheEquity
  <2> QED BY <2>1 DEF PortfolioInv, LedgersAgree
<1> QED BY <1>1, PortfolioAlways, PTL

\* ConflictsLeaveOneSide: under BLOCK_OPPOSITE no two items ever hold opposing positions on what
\* may be one instrument, and what blocked an intent is a held position or an intent that
\* itself passed.
THEOREM OneSideIsLeft == SpecPortfolio => []ConflictsLeaveOneSide
<1>1. PortfolioInv => ConflictsLeaveOneSide
  <2> SUFFICES ASSUME PortfolioInv PROVE ConflictsLeaveOneSide
    OBVIOUS
  <2>1. NoOpposingBooks
    BY StanceOfHolder DEF PortfolioInv, NoOpposition, NoOpposingBooks
  <2>2. OneSideGivesWay
    BY DEF PortfolioInv, GaveWay, OneSideGivesWay, Passed, Grants, Outcome, Held
  <2> QED BY <2>1, <2>2 DEF ConflictsLeaveOneSide
<1> QED BY <1>1, PortfolioAlways, PTL

\* CurveIsSound: between ticks and at the end the equity curve ends at the settled equity, its
\* instants ascend, no point understates its drawdown, and a held position goes unmarked only
\* for the age of its last bar.
THEOREM TheCurveIsSound == SpecPortfolio => []CurveIsSound
<1>1. PortfolioInv => CurveIsSound
  BY DEF PortfolioInv, CurveFollows, CurveIsSound
<1> QED BY <1>1, PortfolioAlways, PTL

-----------------------------------------------------------------------------
(* The portfolio implements the pool its items share *)

\* Only holders are asked to pay or to close, and an intent has a side.
Turns ==
  /\ phase \in {"P1", "P3", "P10"} => todo \subseteq Held
  /\ \A i \in Ordinals : intents[i] # NoIntent => intents[i].dir \in {1, -1}

\* An item that keeps its position is a holder still.
LEMMA HeldStays ==
  ASSUME NEW i \in Ordinals, positions'[i] = positions[i]
  PROVE  i \in Held <=> i \in Held'
BY DEF Held

\* The closing of one position leaves those of the others.
LEMMA OthersHold ==
  ASSUME TypeOKPortfolio, NEW i \in Ordinals, ClosePosition(i), NEW j \in Ordinals \ {i}
  PROVE  j \in Held <=> j \in Held'
<1>1. positions'[j] = positions[j]
  BY DEF ClosePosition, TypeOKPortfolio
<1> QED BY <1>1, HeldStays

\* Every step keeps the turns.
LEMMA TurnsStep ==
  ASSUME PortfolioInv, Turns, NextPortfolio
  PROVE  Turns'
<1>0. TypeOKPortfolio
  BY DEF PortfolioInv
<1>1. ASSUME positions' = positions, intents' = intents,
             phase' \in {"P1", "P3", "P10"} => todo' \subseteq Held
      PROVE  Turns'
  BY <1>1 DEF Turns, Held
<1>2. CASE \/ StartTick \/ StartExits \/ PublishSnapshot \/ StartConflicts \/ StartCapacity
           \/ BeginApply \/ Cancel \/ StartFinalize \/ Finish
  BY <1>1, <1>2
  DEF StartTick, StartExits, PublishSnapshot, StartConflicts, StartCapacity, BeginApply, Cancel,
      StartFinalize, Finish, Enter, ledger
<1>3. CASE CommitTick
  BY <1>3 DEF CommitTick, Enter, Turns
<1>4. CASE Stop
  BY <1>1, <1>4 DEF Stop, Ended, portfolioVars, ledger
<1>5. ASSUME NEW i \in Ordinals, \/ Carry(i) \/ NoExit(i) \/ NoEntry(i) \/ ResolveConflict(i)
                                 \/ ResolveCapacity(i)
      PROVE  Turns'
  BY <1>1, <1>5
  DEF Carry, NoExit, NoEntry, ResolveConflict, ResolveCapacity, Turn, ledger, Turns
<1>6. ASSUME NEW i \in Ordinals, FormIntent(i) PROVE Turns'
  BY <1>0, <1>6 DEF FormIntent, Turn, Turns, TypeOKPortfolio
<1>7. ASSUME NEW i \in Ordinals, Apply(i) PROVE Turns'
  BY <1>7 DEF Apply, Turns
<1>8. ASSUME NEW i \in Ordinals, MandatoryExit(i) \/ FinalClose(i) PROVE Turns'
  <2>1. /\ todo' = todo \ {i} /\ phase' = phase /\ phase \in {"P3", "P10"} /\ todo \subseteq Ordinals
        /\ ClosePosition(i) /\ intents' = intents
    BY <1>0, <1>8 DEF MandatoryExit, FinalClose, Turn, TypeOKPortfolio
  <2>2. \A j \in todo' : j \in Held'
    BY <1>0, <2>1, OthersHold DEF Turns
  <2> QED BY <2>1, <2>2 DEF Turns
<1> QED BY <1>2, <1>3, <1>4, <1>5, <1>6, <1>7, <1>8 DEF NextPortfolio

\* Two items that may be on one instrument are so for the pool.
LEMMA MeetingIsSame ==
  ASSUME NEW i \in Ordinals, NEW j \in Ordinals
  PROVE  Capital!MayMeet(i, j) <=> MayBeSame(i, j)
BY DEF Capital!MayMeet, MayBeSame

\* A grant applied is an opening of the pool's.
LEMMA ApplyMaps ==
  ASSUME PortfolioInv, Turns, NEW i \in Ordinals, Apply(i), PortfolioInv'
  PROVE  Capital!Open(i)
<1> DEFINE p == Opened(i)
<1>0. TypeOKPortfolio /\ TypeOKPortfolio' /\ TickRecords /\ GrantsFit
  BY DEF PortfolioInv
<1>1. /\ positions' = [positions EXCEPT ![i] = p] /\ positions[i] = Flat /\ positions'[i] # Flat
      /\ i \in Grants /\ phase = "P7" /\ i \in Intending
  BY ApplyOpens
<1>2. UNCHANGED <<pinned, equity>>
  BY DEF Apply
<1>3. positions'[i] = p /\ \A j \in Ordinals \ {i} : positions'[j] = positions[j]
  BY <1>0, <1>1 DEF TypeOKPortfolio
<1>4. GrossExposure' = GrossExposure + Notional(p)
  <2>1. GrossExposure' = GrossExposure + Notional(p) - Notional(Flat)
    BY <1>0, <1>1, <1>3, ExposureMoves
  <2>2. GrossExposure \in Nat /\ Notional(p) \in Nat
    <3>1. p \in Positions
      BY <1>0, <1>3 DEF TypeOKPortfolio
    <3>2. p.price \in Nat /\ p.size \in Nat
      BY <3>1 DEF Positions
    <3> HIDE DEF p
    <3> QED BY <1>0, <3>2, ExposureIsNatural, Products DEF Notional
  <2> QED BY <2>1, <2>2, NothingFlat
<1>5. snap.equity = equity /\ equity \in Int /\ Pool \in Int /\ Reserve \in Int
  BY <1>0, <1>1, PlanNumbers DEF TickRecords, Ticking, TypeOKPortfolio
<1>6. /\ Capital!Allocatable(equity) = Most(0, equity - Reserve)
      /\ Capital!Allocatable(Pool) = Most(0, Pool - Reserve)
  BY <1>5 DEF Capital!Allocatable, Most
<1>7. /\ GrossExposure' <= Most(0, equity - Reserve)
      /\ 2 * Whole * Notional(p)
           <= 2 * (IF pinned.compound THEN Most(0, equity - Reserve)
                   ELSE Most(0, Pool - Reserve)) * Share[i] + Whole * Price[i]
      /\ pinned.cap # NoCap => 2 * GrossExposure' <= 2 * pinned.cap + Price[i]
  BY <1>0, <1>3, <1>5, OpeningFits
<1>8. Notional(p) = Capital!Cost(p)
  BY DEF Notional, Capital!Cost
<1>9. Capital!Fits(i, p)
  <2> DEFINE base == IF pinned.compound THEN Most(0, equity - Reserve) ELSE Most(0, Pool - Reserve)
  <2>1. Capital!Allocatable(IF pinned.compound THEN equity ELSE Pool) = base
    BY <1>6
  <2>2. base \in Nat /\ Share[i] \in Nat /\ Whole \in Nat /\ Notional(p) \in Nat
    <3>1. base \in Nat
      BY <1>5 DEF Most
    <3>2. p \in Positions
      BY <1>0, <1>3 DEF TypeOKPortfolio
    <3>3. p.price \in Nat /\ p.size \in Nat
      BY <3>2 DEF Positions
    <3> HIDE DEF base, p
    <3> QED BY <3>1, <3>3, PlanNumbers, Products DEF Notional
  <2>3. 2 * Whole * Notional(p) <= 2 * base * Share[i] + Whole * Price[i]
    BY <1>7
  <2> HIDE DEF base, p
  <2>4. 2 * Whole * Notional(p) = 2 * (Whole * Notional(p)) /\ 2 * base * Share[i] = 2 * (base * Share[i])
    BY <2>2
  <2>5. 2 * (Whole * Notional(p)) <= 2 * (base * Share[i]) + Whole * Price[i]
    BY <2>3, <2>4
  <2> QED BY <1>4, <1>6, <1>7, <1>8, <2>1, <2>5 DEF Capital!Fits
<1>10. Capital!Unopposed(i, p)
  <2> SUFFICES ASSUME pinned.block, NEW j \in Ordinals \ {i}, positions[j] # Flat, MayBeSame(i, j)
               PROVE  positions[j].dir * p.dir # -1
    BY MeetingIsSame DEF Capital!Unopposed, Capital!Closed, Flat
  <2>1. i \in Held' /\ j \in Held' /\ pinned'.block
    BY <1>1, <1>2, <1>3 DEF Held
  <2>2. NoOpposition'
    BY DEF PortfolioInv
  <2>3. ~Opposes(Stance(j)', Stance(i)')
    BY <2>1, <2>2, MayBeSameBothWays DEF NoOpposition, MayBeSame
  <2>4. Stance(j)' = positions[j].dir /\ Stance(i)' = p.dir
    BY <1>1, <1>3 DEF Stance
  <2> QED BY <2>3, <2>4 DEF Opposes
<1>11. p.dir \in {1, -1} /\ p.size \in 1 .. Capital!Allocatable(equity)
  <2>1. p.dir \in {1, -1}
    BY <1>1 DEF Turns, Opened, Intending
  <2>2. p.size \in Nat \ {0} /\ p.price \in Nat \ {0}
    <3>1. decisions[i].units \in 1 .. intents[i].size /\ intents[i].size \in Nat
      BY <1>0, <1>1, PositionTypes DEF GrantsFit
    <3>2. p.size = decisions[i].units /\ p.price = Price[i]
      BY DEF Opened
    <3> QED BY <3>1, <3>2, PlanNumbers
  <2>3. GrossExposure \in Nat /\ GrossExposure + Notional(p) <= Most(0, equity - Reserve)
    BY <1>0, <1>4, <1>7, ExposureIsNatural
  <2>4. Most(0, equity - Reserve) \in Nat
    BY <1>5 DEF Most
  <2> HIDE DEF p
  <2>5. p.size <= Notional(p) /\ Notional(p) \in Nat
    BY <2>2, Products, ProductGrows DEF Notional
  <2>6. p.size <= Most(0, equity - Reserve)
    BY <2>2, <2>3, <2>4, <2>5
  <2> QED BY <1>6, <2>1, <2>2, <2>4, <2>6
<1>12. p = [dir |-> p.dir, size |-> p.size, price |-> Price[i]]
  BY DEF Opened
<1> HIDE DEF p
<1> QED BY <1>1, <1>2, <1>4, <1>8, <1>9, <1>10, <1>11, <1>12 DEF Capital!Open, Capital!Closed, Flat

\* An exit, forced or chosen, is a closing of the pool's.
LEMMA CloseMaps ==
  ASSUME PortfolioInv, PortfolioInv', Turns, NEW i \in Ordinals, MandatoryExit(i) \/ FinalClose(i)
  PROVE  Capital!Close(i)
<1>0. TypeOKPortfolio /\ TypeOKPortfolio'
  BY DEF PortfolioInv
<1>1. /\ phase \in {"P3", "P10"} /\ i \in todo /\ UNCHANGED pinned
      /\ positions' = [positions EXCEPT ![i] = Flat]
  <2>1. /\ Turn("P3", i) \/ Turn("P10", i)
        /\ UNCHANGED pinned /\ positions' = [positions EXCEPT ![i] = Flat]
    BY DEF MandatoryExit, FinalClose, ClosePosition
  <2>2. i \in todo
    BY <1>0, <2>1, TurnIs
  <2> QED BY <2>1, <2>2 DEF Turn
<1>2. positions[i] # Flat
  BY <1>1 DEF Turns, Held
<1>3. positions'[i] = Flat /\ \A j \in Ordinals \ {i} : positions'[j] = positions[j]
  BY <1>0, <1>1 DEF TypeOKPortfolio
<1>4. GrossExposure' = GrossExposure + Notional(Flat) - Notional(positions[i])
  BY <1>0, <1>3, ExposureMoves
<1>5. GrossExposure \in Nat /\ Notional(positions[i]) \in Nat
  BY <1>0, ExposureIsNatural, PositionTypes
<1>6. GrossExposure' = GrossExposure - Capital!Cost(positions[i])
  BY <1>4, <1>5, NothingFlat DEF Notional, Capital!Cost
<1>7. equity' \in Int
  BY <1>0 DEF TypeOKPortfolio
<1> QED BY <1>1, <1>2, <1>6, <1>7 DEF Capital!Close, Capital!Closed, Flat

\* Funding is charged to a holder.
LEMMA CarryMaps ==
  ASSUME PortfolioInv, PortfolioInv', Turns, NEW i \in Ordinals, Carry(i)
  PROVE  Capital!Charge(i)
<1>1. phase = "P1" /\ i \in todo /\ positions' = positions /\ pinned' = pinned
  <2>1. Turn("P1", i) /\ UNCHANGED <<pinned, positions>>
    BY DEF Carry
  <2>2. i \in todo
    BY <2>1, TurnIs DEF PortfolioInv
  <2> QED BY <2>1, <2>2 DEF Turn
<1>2. positions[i] # Flat
  BY <1>1 DEF Turns, Held
<1>3. equity' \in Int
  BY DEF PortfolioInv, TypeOKPortfolio
<1> QED BY <1>1, <1>2, <1>3 DEF Capital!Charge, Capital!Closed, Flat, GrossExposure

\* ImplementsPool: for any number of items, instants, plans and amounts.
THEOREM ThePoolIsImplemented == SpecPortfolio => ImplementsPool
<1>1. InitPortfolio => Turns /\ Capital!PoolInit
  <2> SUFFICES ASSUME InitPortfolio PROVE Turns /\ Capital!PoolInit
    OBVIOUS
  <2>1. Turns
    BY DEF InitPortfolio, Turns
  <2>2. TypeOKPortfolio
    BY PortfolioInit DEF PortfolioInv
  <2>3. GrossExposure = 0
    <3>1. \A i \in Ordinals : Notionals[i] = 0
      BY NothingFlat DEF InitPortfolio, Notionals
    <3> QED BY <2>2, <3>1, ExposureIsNatural, SumZero
  <2> QED BY <2>1, <2>3 DEF InitPortfolio, Capital!PoolInit, Capital!Closed, Flat
<1>2. PortfolioInv /\ Turns /\ [NextPortfolio]_portfolioVars => Turns'
  <2>1. Turns /\ UNCHANGED portfolioVars => Turns'
    BY DEF Turns, portfolioVars, ledger, Held
  <2> QED BY <2>1, TurnsStep
<1>3. PortfolioInv /\ PortfolioInv' /\ Turns /\ [NextPortfolio]_portfolioVars
        => [Capital!PoolNext]_(Capital!poolVars)
  <2> SUFFICES ASSUME PortfolioInv, PortfolioInv', Turns, [NextPortfolio]_portfolioVars
               PROVE  [Capital!PoolNext]_(Capital!poolVars)
    OBVIOUS
  <2>1. ASSUME UNCHANGED <<pinned, equity, positions>> PROVE UNCHANGED Capital!poolVars
    BY <2>1 DEF Capital!poolVars, GrossExposure
  <2>2. ASSUME NEW i \in Ordinals, Carry(i) \/ MandatoryExit(i) \/ FinalClose(i) \/ Apply(i)
        PROVE  Capital!PoolNext
    BY <2>2, CarryMaps, CloseMaps, ApplyMaps DEF Capital!PoolNext
  <2>3. ASSUME NEW i \in Ordinals, \/ NoExit(i) \/ FormIntent(i) \/ NoEntry(i)
                                   \/ ResolveConflict(i) \/ ResolveCapacity(i)
        PROVE  UNCHANGED <<pinned, equity, positions>>
    BY <2>3 DEF NoExit, FormIntent, NoEntry, ResolveConflict, ResolveCapacity, ledger
  <2>4. ASSUME \/ StartTick \/ StartExits \/ PublishSnapshot \/ StartConflicts \/ StartCapacity
               \/ BeginApply \/ CommitTick \/ Cancel \/ StartFinalize \/ Finish \/ Stop
               \/ UNCHANGED portfolioVars
        PROVE  UNCHANGED <<pinned, equity, positions>>
    BY <2>4 DEF StartTick, StartExits, PublishSnapshot, StartConflicts, StartCapacity,
                BeginApply, CommitTick, Cancel, StartFinalize, Finish, Stop, ledger, portfolioVars
  <2> QED BY <2>1, <2>2, <2>3, <2>4 DEF NextPortfolio
<1> QED BY <1>1, <1>2, <1>3, PortfolioAlways, PTL DEF SpecPortfolio, ImplementsPool, Capital!PoolSpec

-----------------------------------------------------------------------------
(* One item: the state of the replay *)

Side == Directions \cup {0}

Position ==
  [id : Nat, born : Nat, live : Nat, dir : Side, entry : Int, size : Nat, stop : Int,
   anchor : Int, layers : Nat, ref : Int]
Deferral ==
  {p \in [kind : {"none", "entry", "exit"}, atOpen : BOOLEAN, at : Nat, dir : Side] : p.kind = "none" => p.at = 0}
RestingOrder ==
  [dir : Side, price : Int, live : Nat, expires : Nat, rest : Nat, of : Nat, placed : Nat,
   got : Nat, plan : Nat]
EntryStop == [dir : Side, price : Int, live : Nat, limit : Int]
TouchExit == [price : Nat, placed : Nat, of : Nat]

Replay ==
  [seq : Nat, opens : Nat, pos : Position, pending : Deferral, limit : RestingOrder,
   trigger : EntryStop, touch : TouchExit, signal : Side, prev : Side, cut : BOOLEAN,
   shut : BOOLEAN, due : Int, units : Int, fair : BOOLEAN, excess : Int]

\* The position is none, or it has a side, a size, and orders that came before it.
PositionHolds(s) ==
  /\ ~Holding(s) => s.pos = NoPosition
  /\ Holding(s) => /\ s.pos.dir \in Directions /\ s.pos.size >= 1 /\ s.pos.id <= s.opens
                   /\ s.pos.born >= s.pos.live /\ s.pos.layers <= cfg.maxLayers

\* What was filled, and what grew.
FillsHold(s) ==
  /\ s.units = s.pos.size /\ s.fair /\ s.excess >= 0
  /\ cfg.partial = "not_allowed" => s.excess = 0 /\ s.limit.rest = 0

\* A remainder is what its plan has left, and on the side of its position.
RemainderHolds(s) ==
  s.limit.rest # 0 =>
    /\ Working(s) /\ s.limit.of \in 1 .. s.opens /\ s.limit.got + s.limit.rest <= s.limit.plan
    /\ s.pos.id = s.limit.of => s.pos.dir = s.limit.dir

\* The entries a replay may wait for.
Deferring(s) == s.pending.kind = "entry"
Resting(s) == Working(s) /\ s.limit.rest = 0
Triggered(s) == s.trigger.dir # 0

\* They exclude each other, and a position; exits exclude each other, and need one.
CommitmentsHold(s) ==
  /\ ~(Deferring(s) /\ Working(s)) /\ ~(Deferring(s) /\ Triggered(s)) /\ ~(Working(s) /\ Triggered(s))
  /\ Deferring(s) \/ Resting(s) \/ Triggered(s) => ~Holding(s)
  /\ s.pending.kind = "exit" => Holding(s)
  /\ Deferring(s) => s.pending.dir \in Directions
  /\ s.pending.kind # "none" => s.pending.at <= s.seq + 1

TouchHolds(s) ==
  s.touch.placed # 0 =>
    /\ s.pending.kind = "none" /\ s.touch.price > 0 /\ s.touch.placed <= s.seq
    /\ Holding(s) => s.touch.of = s.pos.id \/ cfg.stacking = "replace"

Waits(b) == IF b THEN 1 ELSE 0
SignalsHold(s) == s.due = Waits(Deferring(s)) + Waits(Resting(s)) + Waits(Triggered(s))

\* What holds of the replay between any two of its operations.
Coherent(s) ==
  /\ s \in Replay /\ PositionHolds(s) /\ FillsHold(s) /\ RemainderHolds(s)
  /\ CommitmentsHold(s) /\ TouchHolds(s) /\ SignalsHold(s)

\* No order that waits could have filled before a bar.
LiveBy(s, n) == (Working(s) => s.limit.live <= n) /\ (Triggered(s) => s.trigger.live <= n)

\* While earlier commitments are filled: this bar has opened no position but the one held.
Filling(s) ==
  /\ s.opens < s.seq \/ (s.opens = s.seq /\ Holding(s) /\ s.pos.born = s.seq)
  /\ s.touch.placed # 0 => Holding(s)
  /\ ~s.shut

\* A bar that was shut is flat and without a new order.
EndsFlat(s) == s.shut => ~Holding(s) /\ s.pending.kind = "none" /\ ~Resting(s) /\ ~Triggered(s)

\* In the tail: this bar may also have closed what it opened.
Tailing(s) ==
  /\ \/ s.opens < s.seq
     \/ s.opens = s.seq /\ ~Deferring(s) /\ (Holding(s) => s.pos.born = s.seq)
  /\ EndsFlat(s)

\* Between two bars.
BetweenBars(s) ==
  /\ Coherent(s) /\ LiveBy(s, s.seq + 1) /\ s.opens <= s.seq /\ s.seq <= MaxBars
  /\ s.touch.placed # 0 => Holding(s)
  /\ s.signal = 0 /\ EndsFlat(s)

\* After the last.
Finished(s) ==
  /\ s \in Replay /\ s.pos = NoPosition /\ s.limit = NoLimit /\ s.trigger = NoTrigger /\ s.units = 0
  /\ s.due = Waits(Deferring(s)) /\ (cfg.partial = "not_allowed" => s.excess = 0) /\ s.fair
  /\ s.opens <= s.seq /\ s.seq <= MaxBars /\ s.signal = 0
  /\ s.pending.at <= s.seq + 1 /\ s.touch.placed <= s.seq

-----------------------------------------------------------------------------
(* One item: strategies and bars *)

\* A strategy of the model has the fields of a validated configuration.
LEMMA StrategyType ==
  ASSUME cfg \in Configs
  PROVE  /\ cfg \in Strategy /\ MaxBars \in Nat
         /\ cfg.offset \in Int /\ cfg.activation \in Int /\ cfg.validity \in Nat
         /\ cfg.pct \in Nat /\ cfg.abs \in Nat /\ cfg.gap \in Nat /\ cfg.lock \in Nat
         /\ cfg.distance \in Nat /\ cfg.layer \in Nat /\ cfg.maxLayers \in Nat /\ cfg.maxSize \in Nat
         /\ cfg.dirs \subseteq Directions /\ cfg.half \in BOOLEAN /\ cfg.requireAll \in BOOLEAN
         /\ cfg.aftermath \in {"entry", "lock", "trail"}
<1>1. cfg \in Strategy /\ MaxBars \in Nat
  BY ReplayBoundsAssumption
<1> QED BY <1>1 DEF Strategy

\* A bar of the model has its prices in order.
LEMMA BarType ==
  ASSUME NEW b \in Bars
  PROVE  /\ b.open \in Nat /\ b.high \in Nat /\ b.low \in Nat /\ b.close \in Nat
         /\ b.open > 0 /\ b.high > 0 /\ b.low > 0 /\ b.close > 0
         /\ b.low <= b.open /\ b.open <= b.high /\ b.low <= b.close /\ b.close <= b.high
         /\ b.plan \in Nat /\ b.room \in Nat /\ b.signal \in Side
         /\ b.exitHit \in BOOLEAN /\ b.blocked \in BOOLEAN
         /\ b.prints \in Seq((Nat \ {0}) \X Nat)
<1>1. b \in Bar
  BY ReplayBoundsAssumption
<1>2. b.low <= b.open /\ b.open <= b.high /\ b.low <= b.close /\ b.close <= b.high
  BY ReplayBoundsAssumption
<1> QED BY <1>1, <1>2 DEF Bar, Side

\* The prints are prices and sizes.
LEMMA PrintType ==
  ASSUME NEW b \in Bars, NEW i \in DOMAIN b.prints
  PROVE  b.prints[i][1] \in Nat /\ b.prints[i][2] \in Nat
<1>1. b.prints \in Seq((Nat \ {0}) \X Nat)
  BY BarType
<1>2. b.prints[i] \in (Nat \ {0}) \X Nat
  BY <1>1
<1> QED BY <1>2

\* The open and the close of a bar are traded at; so is a level its candle touches.
LEMMA AtOpenOrClose ==
  ASSUME NEW b \in Bars, NEW d \in Directions
  PROVE  /\ Attainable(d, b.open, b) /\ Attainable(d, b.close, b)
         /\ Dip(d, b) \in Nat /\ Dip(-d, b) \in Nat /\ Peak(d, b) \in Nat
BY BarType DEF Attainable, Touching, Dip, Peak, Directions

-----------------------------------------------------------------------------
(* One item: opening, growing and closing *)

\* What only the phases write.
SamePhase(s, t) ==
  /\ t.seq = s.seq /\ t.pending = s.pending /\ t.limit = s.limit /\ t.trigger = s.trigger
  /\ t.touch = s.touch /\ t.signal = s.signal /\ t.prev = s.prev /\ t.shut = s.shut

Opens(s, t, b, d, price, cap, live) ==
  /\ t \in Replay /\ SamePhase(s, t) /\ t.cut = s.cut /\ t.excess = s.excess /\ t.due = s.due - 1
  /\ \/ t.pos = NoPosition /\ t.opens = s.opens /\ t.units = s.units /\ t.fair = s.fair
     \/ /\ t.opens = s.opens + 1 /\ t.units = s.units + t.pos.size
        /\ t.fair = (s.fair /\ Attainable(d, price, b))
        /\ t.pos.id = s.opens + 1 /\ t.pos.born = s.seq /\ t.pos.live = live /\ t.pos.dir = d
        /\ t.pos.size >= 1 /\ t.pos.layers = 0 /\ (cap # 0 => t.pos.size <= cap)

Grows(s, t, b, price, add) ==
  /\ t \in Replay /\ SamePhase(s, t) /\ t.cut = s.cut /\ t.opens = s.opens /\ t.due = s.due
  /\ t.units = s.units + add /\ t.fair = (s.fair /\ Attainable(s.pos.dir, price, b))
  /\ t.pos.id = s.pos.id /\ t.pos.born = s.pos.born /\ t.pos.live = s.pos.live
  /\ t.pos.dir = s.pos.dir /\ t.pos.size = s.pos.size + add /\ t.pos.stop = s.pos.stop
  /\ t.pos.anchor = s.pos.anchor /\ t.pos.layers = s.pos.layers
  /\ t.excess = Greater(s.excess, s.pos.size + add - b.room)

Closes(s, t, b, price) ==
  /\ t \in Replay /\ SamePhase(s, t) /\ t.cut /\ t.opens = s.opens /\ t.due = s.due
  /\ t.excess = s.excess /\ t.units = s.units - s.pos.size
  /\ t.fair = (s.fair /\ Attainable(-s.pos.dir, price, b)) /\ t.pos = NoPosition

Halves(s, t, b, price) ==
  /\ t \in Replay /\ SamePhase(s, t) /\ t.cut /\ t.opens = s.opens /\ t.due = s.due
  /\ t.excess = s.excess /\ t.units - t.pos.size = s.units - s.pos.size
  /\ t.fair = (s.fair /\ Attainable(-s.pos.dir, price, b))
  /\ t.pos.size \in 1 .. s.pos.size
  /\ t.pos.id = s.pos.id /\ t.pos.born = s.pos.born /\ t.pos.live = s.pos.live
  /\ t.pos.dir = s.pos.dir /\ t.pos.layers = s.pos.layers /\ t.pos.entry = s.pos.entry
  /\ t.pos = Aftermath([s.pos EXCEPT !.size = t.pos.size], price)

\* The empty commitments are commitments.
LEMMA NoneTypes ==
  NoPosition \in Position /\ NoPending \in Deferral /\ NoLimit \in RestingOrder
    /\ NoTrigger \in EntryStop /\ NoTouch \in TouchExit
BY DEF NoPosition, NoPending, NoLimit, NoTrigger, NoTouch, Position, Deferral, RestingOrder,
       EntryStop, TouchExit, Side, Directions

\* What opening writes: a position of the size booked, or none when nothing may be booked.
LEMMA OpenMoves ==
  ASSUME cfg \in Configs, NEW s \in Replay, NEW b \in Bars, NEW d \in Directions,
         NEW price \in Int, NEW cap \in Nat, NEW live \in Nat
  PROVE  Opens(s, DoOpen(s, b, d, price, cap, live), b, d, price, cap, live)
<1> DEFINE n == BookedSize(b, cap)
           t == DoOpen(s, b, d, price, cap, live)
           new == [id |-> s.opens + 1, born |-> s.seq, live |-> live, dir |-> d,
                   entry |-> price, size |-> n, stop |-> PctStop(d, price),
                   anchor |-> price, layers |-> 0, ref |-> price]
           fair == s.fair /\ Attainable(d, price, b)
<1>1. n \in Nat
  BY BarType DEF BookedSize, Lesser
<1>2. PctStop(d, price) \in Int
  BY StrategyType DEF PctStop, Directions
<1>3. s.opens \in Nat /\ s.seq \in Nat /\ s.due \in Int /\ s.units \in Int /\ s.fair \in BOOLEAN
  BY DEF Replay
<1>4. CASE n = 0
  <2>1. t = [[s EXCEPT !.due = s.due - 1] EXCEPT !.pos = NoPosition]
    BY <1>4 DEF DoOpen
  <2>2. s.due - 1 \in Int /\ NoPosition \in Position
    BY <1>3, NoneTypes
  <2> HIDE DEF t
  <2>3. t \in Replay
    BY <2>1, <2>2 DEF Replay
  <2>4. SamePhase(s, t) /\ t.cut = s.cut /\ t.excess = s.excess /\ t.due = s.due - 1
    BY <2>1 DEF SamePhase, Replay
  <2>5. t.pos = NoPosition /\ t.opens = s.opens /\ t.units = s.units /\ t.fair = s.fair
    BY <2>1 DEF Replay
  <2> QED BY <2>3, <2>4, <2>5 DEF Opens, t
<1>5. CASE n # 0
  <2>1. new \in Position
    BY <1>1, <1>2, <1>3 DEF Position, Side
  <2>2. new.size >= 1 /\ new.size = n /\ new.id = s.opens + 1 /\ new.born = s.seq /\ new.live = live /\ new.dir = d /\ new.layers = 0
    BY <1>1, <1>5
  <2>9. cap # 0 => new.size <= cap
    BY BarType DEF BookedSize, Lesser
  <2>3. fair \in BOOLEAN
    BY <1>3 DEF Attainable, Touching
  <2>4. t = [[[s EXCEPT !.due = s.due - 1] EXCEPT !.units = s.units + n, !.fair = fair]
               EXCEPT !.opens = s.opens + 1, !.pos = new]
    BY <1>5 DEF DoOpen, Trade, Replay
  <2> HIDE DEF new, fair, n, t
  <2>7. n \in Int /\ s.units + n \in Int /\ s.due - 1 \in Int /\ s.opens + 1 \in Nat
    BY <1>1, <1>3
  <2>8. t \in Replay
    BY <2>1, <2>3, <2>4, <2>7 DEF Replay
  <2>5. SamePhase(s, t) /\ t.cut = s.cut /\ t.excess = s.excess /\ t.due = s.due - 1
    BY <2>4 DEF SamePhase, Replay
  <2>6. t.opens = s.opens + 1 /\ t.units = s.units + n /\ t.fair = fair /\ t.pos = new
    BY <2>4 DEF Replay
  <2> QED BY <2>2, <2>5, <2>6, <2>8, <2>9 DEF Opens, fair, t
<1> QED BY <1>4, <1>5

\* What a lot writes: the size and the average entry, and nothing of the protection.
LEMMA GrowMoves ==
  ASSUME cfg \in Configs, NEW s \in Replay, NEW b \in Bars, NEW price \in Int, NEW add \in Nat,
         s.pos.size >= 1
  PROVE  Grows(s, Grow(s, b, price, add), b, price, add)
<1> DEFINE size == s.pos.size + add
           sum == s.pos.entry * s.pos.size + price * add
           average == sum \div size
           fair == s.fair /\ Attainable(s.pos.dir, price, b)
           excess == Greater(s.excess, size - b.room)
           pos == [[s.pos EXCEPT !.entry = average] EXCEPT !.size = size]
           t == Grow(s, b, price, add)
<1>1. s.pos \in Position /\ s.units \in Int /\ s.excess \in Int /\ s.fair \in BOOLEAN
  BY DEF Replay
<1>2. s.pos.entry \in Int /\ s.pos.size \in Nat
  BY <1>1 DEF Position
<1>3. size \in Nat /\ size > 0 /\ s.units + add \in Int
  BY <1>1, <1>2
<1>4. sum \in Int
  BY <1>2
<1>5. average \in Int
  <2> HIDE DEF sum, size
  <2> QED BY <1>3, <1>4
<1>6. fair \in BOOLEAN /\ excess \in Int
  BY <1>1, <1>2, BarType DEF Attainable, Touching, Greater
<1>7. t = [[s EXCEPT !.units = s.units + add, !.fair = fair] EXCEPT !.pos = pos, !.excess = excess]
  BY DEF Grow, Trade, Replay
<1> HIDE DEF t, fair, excess, average, size
<1>8. pos \in Position
  BY <1>1, <1>3, <1>5 DEF Position
<1>9. /\ pos.id = s.pos.id /\ pos.born = s.pos.born /\ pos.live = s.pos.live /\ pos.dir = s.pos.dir
      /\ pos.size = size /\ pos.stop = s.pos.stop /\ pos.anchor = s.pos.anchor /\ pos.layers = s.pos.layers
  BY <1>1 DEF Position
<1> HIDE DEF pos
<1>10. t \in Replay
  BY <1>3, <1>6, <1>7, <1>8 DEF Replay
<1>11. SamePhase(s, t) /\ t.cut = s.cut /\ t.opens = s.opens /\ t.due = s.due
  BY <1>7 DEF SamePhase, Replay
<1>12. t.units = s.units + add /\ t.fair = fair /\ t.pos = pos /\ t.excess = excess
  BY <1>7 DEF Replay
<1>13. t.fair = (s.fair /\ Attainable(s.pos.dir, price, b))
  BY <1>12 DEF fair
<1>14. t.excess = Greater(s.excess, s.pos.size + add - b.room)
  BY <1>2, <1>12, BarType DEF excess, size
<1>15. /\ t.pos.id = s.pos.id /\ t.pos.born = s.pos.born /\ t.pos.live = s.pos.live
       /\ t.pos.dir = s.pos.dir /\ t.pos.size = s.pos.size + add /\ t.pos.stop = s.pos.stop
       /\ t.pos.anchor = s.pos.anchor /\ t.pos.layers = s.pos.layers
  BY <1>9, <1>12 DEF size
<1>16. Grows(s, t, b, price, add)
  BY <1>10, <1>11, <1>12, <1>13, <1>14, <1>15 DEF Grows
<1> QED BY <1>16 DEF t

\* A position without size: what is taken off it, and what is left.
LEMMA CloseMoves ==
  ASSUME NEW s \in Replay, NEW b \in Bars, NEW price \in Int
  PROVE  Closes(s, Close(s, b, price), b, price)
<1> DEFINE fair == s.fair /\ Attainable(-s.pos.dir, price, b)
           t == Close(s, b, price)
<1>1. s.units \in Int /\ s.fair \in BOOLEAN /\ s.pos.size \in Nat
  BY DEF Replay, Position
<1>2. fair \in BOOLEAN
  BY <1>1 DEF Attainable, Touching
<1>3. t = [[s EXCEPT !.units = s.units - s.pos.size, !.fair = fair] EXCEPT !.pos = NoPosition, !.cut = TRUE]
  <2>1. s.units + (-s.pos.size) = s.units - s.pos.size
    BY <1>1
  <2> QED BY <2>1 DEF Close, Trade, Replay
<1>4. s.units - s.pos.size \in Int
  BY <1>1
<1> HIDE DEF t, fair
<1>5. t \in Replay
  BY <1>2, <1>3, <1>4, NoneTypes DEF Replay
<1>6. SamePhase(s, t) /\ t.opens = s.opens /\ t.due = s.due /\ t.excess = s.excess
  BY <1>3 DEF SamePhase, Replay
<1>7. t.units = s.units - s.pos.size /\ t.fair = fair /\ t.pos = NoPosition /\ t.cut
  BY <1>3 DEF Replay
<1> QED BY <1>5, <1>6, <1>7 DEF Closes, t, fair

\* What a partial close does to what is left keeps its identity.
LEMMA AftermathMoves ==
  ASSUME cfg \in Configs, NEW p \in Position, NEW price \in Int
  PROVE  LET q == Aftermath(p, price) IN
         /\ q \in Position /\ q.id = p.id /\ q.born = p.born /\ q.live = p.live /\ q.dir = p.dir
         /\ q.size = p.size /\ q.layers = p.layers /\ q.entry = p.entry
<1> DEFINE best == Better(p.dir, p.anchor, p.entry + p.dir * cfg.lock)
           lock == IF p.stop = 0 THEN price ELSE Better(p.dir, p.stop, price)
<1>1. p.stop \in Int /\ p.anchor \in Int /\ p.entry \in Int /\ p.dir \in Side
  BY DEF Position
<1>2. best \in Int
  BY <1>1, StrategyType DEF Better, Worse, Side, Directions
<1>3. lock \in Int
  BY <1>1 DEF Better, Worse
<1> HIDE DEF best, lock
<1>4. CASE cfg.aftermath = "entry"
  BY <1>1, <1>4 DEF Aftermath, Position
<1>5. CASE cfg.aftermath = "lock"
  <2>1. Aftermath(p, price) = [p EXCEPT !.stop = lock]
    BY <1>5 DEF Aftermath, lock, Position
  <2> QED BY <1>3, <2>1 DEF Position
<1>6. CASE cfg.aftermath = "trail"
  <2>1. Aftermath(p, price) = [p EXCEPT !.anchor = best]
    BY <1>6 DEF Aftermath, best, Position
  <2> QED BY <1>2, <2>1 DEF Position
<1> QED BY <1>4, <1>5, <1>6, StrategyType

\* An exit signal closes all of a position or half of it.
LEMMA ShareMoves ==
  ASSUME cfg \in Configs, NEW s \in Replay, NEW b \in Bars, NEW price \in Int, s.pos.size >= 1
  PROVE  \/ Closes(s, CloseShare(s, b, price), b, price)
         \/ Halves(s, CloseShare(s, b, price), b, price)
<1>1. CASE ~cfg.half
  BY <1>1, CloseMoves DEF CloseShare
<1>2. CASE cfg.half
  <2> DEFINE n == s.pos.size \div 2
             left == [s.pos EXCEPT !.size = s.pos.size - n]
             pos == Aftermath(left, price)
             fair == s.fair /\ Attainable(-s.pos.dir, price, b)
             t == CloseShare(s, b, price)
  <2>1. s.units \in Int /\ s.fair \in BOOLEAN /\ s.pos \in Position /\ s.pos.size \in Nat
    BY DEF Replay, Position
  <2>2. n \in Nat /\ s.pos.size - n \in 1 .. s.pos.size
    BY <2>1
  <2>3. fair \in BOOLEAN
    BY <2>1 DEF Attainable, Touching
  <2>4. t = [[s EXCEPT !.units = s.units - n, !.fair = fair] EXCEPT !.pos = pos, !.cut = TRUE]
    <3>1. s.units + (-n) = s.units - n
      BY <2>1, <2>2
    <3> QED BY <1>2, <3>1 DEF CloseShare, Trade, Replay
  <2>5. s.units - n \in Int
    BY <2>1, <2>2
  <2>6. left \in Position /\ left.id = s.pos.id /\ left.born = s.pos.born /\ left.live = s.pos.live
        /\ left.dir = s.pos.dir /\ left.layers = s.pos.layers /\ left.entry = s.pos.entry
        /\ left.size = s.pos.size - n
    <3> HIDE DEF n
    <3> QED BY <2>1, <2>2 DEF Position
  <2> HIDE DEF t, fair, left
  <2>7. /\ pos \in Position /\ pos.id = s.pos.id /\ pos.born = s.pos.born /\ pos.live = s.pos.live
        /\ pos.dir = s.pos.dir /\ pos.layers = s.pos.layers /\ pos.entry = s.pos.entry
        /\ pos.size = s.pos.size - n
    BY <2>6, AftermathMoves
  <2>8. left = [s.pos EXCEPT !.size = pos.size]
    BY <2>7 DEF left
  <2>9. pos = Aftermath([s.pos EXCEPT !.size = pos.size], price)
    BY <2>8 DEF pos
  <2> HIDE DEF pos, n
  <2>10. t \in Replay
    BY <2>3, <2>4, <2>5, <2>7 DEF Replay
  <2>11. SamePhase(s, t) /\ t.opens = s.opens /\ t.due = s.due /\ t.excess = s.excess
    BY <2>4 DEF SamePhase, Replay
  <2>12. t.units = s.units - n /\ t.fair = fair /\ t.pos = pos /\ t.cut
    BY <2>4 DEF Replay
  <2>13. t.units - t.pos.size = s.units - s.pos.size
    BY <2>1, <2>2, <2>7, <2>12
  <2>14. Halves(s, t, b, price)
    BY <2>2, <2>7, <2>9, <2>10, <2>11, <2>12, <2>13 DEF Halves, fair
  <2> QED BY <2>14 DEF t
<1> QED BY <1>1, <1>2

-----------------------------------------------------------------------------
(* One item: the books through a move *)

Booked(s) == s \in Replay /\ PositionHolds(s) /\ FillsHold(s)

SameBooks(s, t) ==
  /\ t \in Replay /\ t.seq = s.seq /\ t.opens = s.opens /\ t.pos = s.pos /\ t.signal = s.signal
  /\ t.prev = s.prev /\ t.cut = s.cut /\ t.shut = s.shut /\ t.units = s.units /\ t.fair = s.fair
  /\ t.excess = s.excess

\* No operation opens more than one position, nor one in a bar that has had one.
Advances(s, t) ==
  /\ t.seq = s.seq /\ t.shut = s.shut /\ t.signal = s.signal /\ t.prev = s.prev
  /\ \/ /\ t.opens = s.opens
        /\ Holding(t) => Holding(s) /\ t.pos.born = s.pos.born /\ t.pos.id = s.pos.id
     \/ /\ s.opens < s.seq /\ t.opens = s.opens + 1
        /\ Holding(t) /\ t.pos.born = s.seq /\ t.pos.id = t.opens

\* Writing the deferred fill writes nothing else.
LEMMA PendingSet ==
  ASSUME NEW s \in Replay, NEW x \in Deferral
  PROVE  LET t == [s EXCEPT !.pending = x] IN
         SameBooks(s, t) /\ t.pending = x /\ t.limit = s.limit /\ t.trigger = s.trigger
           /\ t.touch = s.touch /\ t.due = s.due
BY DEF SameBooks, Replay

\* Writing the resting order writes nothing else.
LEMMA LimitSet ==
  ASSUME NEW s \in Replay, NEW x \in RestingOrder
  PROVE  LET t == [s EXCEPT !.limit = x] IN
         SameBooks(s, t) /\ t.pending = s.pending /\ t.limit = x /\ t.trigger = s.trigger
           /\ t.touch = s.touch /\ t.due = s.due
BY DEF SameBooks, Replay

\* Writing the entry stop writes nothing else.
LEMMA TriggerSet ==
  ASSUME NEW s \in Replay, NEW x \in EntryStop
  PROVE  LET t == [s EXCEPT !.trigger = x] IN
         SameBooks(s, t) /\ t.pending = s.pending /\ t.limit = s.limit /\ t.trigger = x
           /\ t.touch = s.touch /\ t.due = s.due
BY DEF SameBooks, Replay

\* Writing the resting exit writes nothing else.
LEMMA TouchSet ==
  ASSUME NEW s \in Replay, NEW x \in TouchExit
  PROVE  LET t == [s EXCEPT !.touch = x] IN
         SameBooks(s, t) /\ t.pending = s.pending /\ t.limit = s.limit /\ t.trigger = s.trigger
           /\ t.touch = x /\ t.due = s.due
BY DEF SameBooks, Replay

\* Writing the count of signals writes nothing else.
LEMMA DueSet ==
  ASSUME NEW s \in Replay, NEW x \in Int
  PROVE  LET t == [s EXCEPT !.due = x] IN
         SameBooks(s, t) /\ t.pending = s.pending /\ t.limit = s.limit /\ t.trigger = s.trigger
           /\ t.touch = s.touch /\ t.due = x
BY DEF SameBooks, Replay

\* What tells the empty commitments from the others.
LEMMA NoneIsNone ==
  /\ NoPosition.id = 0 /\ NoPosition.size = 0 /\ NoPending.kind = "none" /\ NoTrigger.dir = 0
  /\ NoLimit.dir = 0 /\ NoLimit.rest = 0 /\ NoTouch.placed = 0
BY DEF NoPosition, NoPending, NoTrigger, NoLimit, NoTouch

\* The books hold when they are left alone.
LEMMA SameBooked ==
  ASSUME NEW s, NEW t, Booked(s), SameBooks(s, t), cfg.partial = "not_allowed" => t.limit.rest = 0
  PROVE  Booked(t) /\ Advances(s, t) /\ (Holding(t) <=> Holding(s))
BY DEF Booked, SameBooks, PositionHolds, FillsHold, Holding, Advances

\* The books hold through an opening at a price the bar traded at.
LEMMA OpenBooked ==
  ASSUME cfg \in Configs, NEW s, Booked(s), ~Holding(s), NEW t, NEW b \in Bars, NEW d \in Directions, NEW price, NEW cap, NEW live,
         Opens(s, t, b, d, price, cap, live), Attainable(d, price, b), live <= s.seq, s.opens < s.seq
  PROVE  Booked(t) /\ Advances(s, t)
<1>1. s.pos = NoPosition /\ s.opens \in Nat /\ s.units = 0 /\ s.fair
  BY NoneIsNone DEF Booked, PositionHolds, FillsHold, Replay
<1>2. t \in Replay /\ t.excess = s.excess /\ t.limit = s.limit
  BY DEF Opens, SamePhase
<1>3. CASE t.pos = NoPosition /\ t.opens = s.opens /\ t.units = s.units /\ t.fair = s.fair
  <2>1. ~Holding(t)
    BY <1>3, NoneIsNone DEF Holding
  <2> QED BY <1>1, <1>2, <1>3, <2>1, NoneIsNone DEF Booked, PositionHolds, FillsHold, Advances, Opens, SamePhase
<1>4. CASE /\ t.opens = s.opens + 1 /\ t.units = s.units + t.pos.size
           /\ t.fair = (s.fair /\ Attainable(d, price, b))
           /\ t.pos.id = s.opens + 1 /\ t.pos.born = s.seq /\ t.pos.live = live /\ t.pos.dir = d
           /\ t.pos.size >= 1 /\ t.pos.layers = 0 /\ (cap # 0 => t.pos.size <= cap)
  <2>1. t.pos.size \in Nat /\ cfg.maxLayers \in Nat
    BY <1>2, StrategyType DEF Replay, Position
  <2>2. Holding(t) /\ t.pos.id = s.opens + 1 /\ t.opens = s.opens + 1
    BY <1>1, <1>4 DEF Holding
  <2>3. PositionHolds(t)
    BY <1>1, <1>4, <2>1, <2>2 DEF PositionHolds
  <2>4. t.fair
    BY <1>1, <1>4
  <2>5. t.units = t.pos.size
    BY <1>1, <1>4, <2>1
  <2>6. FillsHold(t)
    BY <1>2, <2>4, <2>5 DEF Booked, FillsHold
  <2> QED BY <1>2, <1>4, <2>2, <2>3, <2>6 DEF Booked, Advances, Opens, SamePhase
<1> QED BY <1>3, <1>4 DEF Opens

\* The books hold through a lot under the cap of the bar.
LEMMA GrowBooked ==
  ASSUME cfg \in Configs, NEW s, Booked(s), Holding(s), NEW t, NEW b \in Bars, NEW price, NEW add \in Nat,
         Grows(s, t, b, price, add), Attainable(s.pos.dir, price, b),
         cfg.partial = "not_allowed" => s.pos.size + add <= b.room
  PROVE  Booked(t) /\ Advances(s, t) /\ Holding(t)
<1>1. s \in Replay /\ s.pos.size \in Nat /\ s.units \in Int /\ s.excess \in Int /\ s.pos.size >= 1 /\ b.room \in Nat
  BY BarType DEF Booked, Replay, Position, PositionHolds
<1>2. Holding(t)
  BY DEF Grows, Holding
<1>3. PositionHolds(t)
  BY <1>1, <1>2 DEF Booked, PositionHolds, Grows
<1>4. t.excess >= 0 /\ (cfg.partial = "not_allowed" => t.excess = 0)
  BY <1>1 DEF Booked, FillsHold, Grows, Greater
<1>5. FillsHold(t)
  BY <1>1, <1>4 DEF Booked, FillsHold, Grows, SamePhase
<1> QED BY <1>2, <1>3, <1>5 DEF Booked, Grows, SamePhase, Advances

\* The books hold through a close.
LEMMA CloseBooked ==
  ASSUME NEW s, Booked(s), NEW t, NEW b, NEW price,
         Closes(s, t, b, price), Attainable(-s.pos.dir, price, b)
  PROVE  Booked(t) /\ Advances(s, t) /\ ~Holding(t)
<1>1. s \in Replay /\ s.pos.size \in Nat /\ s.units \in Int
  BY DEF Booked, Replay, Position
<1>2. ~Holding(t)
  BY NoneIsNone DEF Closes, Holding
<1>4. s.fair /\ t.fair = (s.fair /\ Attainable(-s.pos.dir, price, b))
  BY DEF Booked, FillsHold, Closes
<1>5. t.fair
  BY <1>4
<1>6. t.units = 0 /\ t.pos.size = 0 /\ t.excess = s.excess /\ t.limit = s.limit
  BY <1>1, NoneIsNone DEF Booked, FillsHold, Closes, SamePhase
<1>3. FillsHold(t)
  BY <1>5, <1>6 DEF Booked, FillsHold
<1> QED BY <1>2, <1>3 DEF Booked, PositionHolds, Closes, SamePhase, Advances

\* The books hold through a close of all or of half.
LEMMA ShareBooked ==
  ASSUME NEW s, Booked(s), Holding(s), NEW t, NEW b, NEW price,
         Closes(s, t, b, price) \/ Halves(s, t, b, price), Attainable(-s.pos.dir, price, b)
  PROVE  Booked(t) /\ Advances(s, t) /\ SamePhase(s, t) /\ t.due = s.due /\ t.cut /\ t.opens = s.opens
<1>1. CASE Closes(s, t, b, price)
  BY <1>1, CloseBooked DEF Closes
<1>2. CASE Halves(s, t, b, price)
  <2>1. s \in Replay /\ s.pos.size \in Nat /\ s.units \in Int /\ t \in Replay /\ t.units \in Int /\ t.pos.size \in Nat
    BY <1>2 DEF Booked, Replay, Position, Halves
  <2>2. Holding(t)
    BY <1>2 DEF Halves, Holding
  <2>3. PositionHolds(t)
    BY <1>2, <2>1, <2>2 DEF Booked, PositionHolds, Halves
  <2>4. s.fair /\ t.fair = (s.fair /\ Attainable(-s.pos.dir, price, b))
    BY <1>2 DEF Booked, FillsHold, Halves
  <2>5. t.fair
    BY <2>4
  <2>6. t.units = t.pos.size /\ t.excess = s.excess /\ t.limit = s.limit
    BY <1>2, <2>1 DEF Booked, FillsHold, Halves, SamePhase
  <2>7. FillsHold(t)
    BY <2>5, <2>6 DEF Booked, FillsHold
  <2> QED BY <1>2, <2>1, <2>2, <2>3, <2>7 DEF Booked, Halves, SamePhase, Advances
<1> QED BY <1>1, <1>2

-----------------------------------------------------------------------------
(* One item: the protection through a move *)

\* A position that is not grown keeps its side and its basis, and its protection only
\* tightens; what is left after a partial close may be protected at its entry instead.
Kept(s, t) ==
  /\ s.cut => t.cut
  /\ Holding(s) /\ t.pos.id = s.pos.id =>
       /\ t.pos.dir = s.pos.dir /\ t.pos.entry = s.pos.entry
       /\ s.pos.dir * (t.pos.anchor - s.pos.anchor) >= 0
       /\ IF cfg.aftermath = "entry" THEN t.pos.stop = s.pos.stop \/ (t.cut /\ t.pos.stop = t.pos.entry)
          ELSE s.pos.stop # 0 => t.pos.stop # 0 /\ s.pos.dir * (t.pos.stop - s.pos.stop) >= 0

\* The same position, with the same protection.
SameProtection(s, t) ==
  /\ t.opens = s.opens /\ t.pos.id = s.pos.id /\ t.pos.dir = s.pos.dir
  /\ t.pos.stop = s.pos.stop /\ t.pos.anchor = s.pos.anchor

\* A position that is grown keeps its protection, and is one that this bar has not cut.
Grown(s, t) == ~s.cut /\ t.pos.dir = s.pos.dir /\ t.pos.stop = s.pos.stop /\ t.pos.anchor = s.pos.anchor

\* The position is gone, or another one, or the same one kept or grown.
Moves(s, t) ==
  /\ t.opens >= s.opens
  /\ \/ ~Holding(t)
     \/ t.pos.id > s.opens
     \/ Holding(s) /\ t.pos.id = s.pos.id /\ (Kept(s, t) \/ Grown(s, t))

\* A partial close leaves a position whose best price and stop are no worse than before.
LEMMA AftermathTightens ==
  ASSUME cfg \in Configs, NEW p \in Position, p.dir \in Directions, NEW price \in Int, price # 0
  PROVE  LET q == Aftermath(p, price) IN
         /\ p.dir * (q.anchor - p.anchor) >= 0
         /\ IF cfg.aftermath = "entry" THEN q.stop = q.entry
            ELSE p.stop # 0 => q.stop # 0 /\ p.dir * (q.stop - p.stop) >= 0
<1> DEFINE best == Better(p.dir, p.anchor, p.entry + p.dir * cfg.lock)
           lock == IF p.stop = 0 THEN price ELSE Better(p.dir, p.stop, price)
<1>1. p.stop \in Int /\ p.anchor \in Int /\ p.entry \in Int
  BY DEF Position
<1>2. best \in Int /\ p.dir * (best - p.anchor) >= 0
  BY <1>1, StrategyType DEF Better, Worse, Directions
<1>3. lock \in Int /\ (p.stop # 0 => lock # 0 /\ p.dir * (lock - p.stop) >= 0)
  BY <1>1 DEF Better, Worse, Directions
<1>7. p.dir * (p.stop - p.stop) >= 0 /\ p.dir * (p.anchor - p.anchor) >= 0
  BY <1>1 DEF Directions
<1> HIDE DEF best, lock
<1>4. CASE cfg.aftermath = "entry"
  <2>1. Aftermath(p, price) = [p EXCEPT !.stop = p.entry]
    BY <1>4 DEF Aftermath, Position
  <2> QED BY <1>4, <1>7, <2>1 DEF Position
<1>5. CASE cfg.aftermath = "lock"
  <2>1. Aftermath(p, price) = [p EXCEPT !.stop = lock]
    BY <1>5 DEF Aftermath, lock, Position
  <2> QED BY <1>3, <1>5, <1>7, <2>1 DEF Position
<1>6. CASE cfg.aftermath = "trail"
  <2>1. Aftermath(p, price) = [p EXCEPT !.anchor = best]
    BY <1>6 DEF Aftermath, best, Position
  <2> QED BY <1>2, <1>6, <1>7, <2>1 DEF Position
<1> QED BY <1>4, <1>5, <1>6, StrategyType

\* What no move of a position loosens.
LEMMA KeptSame ==
  ASSUME NEW s \in Replay, PositionHolds(s), NEW t, t.pos = s.pos, s.cut => t.cut
  PROVE  Kept(s, t)
<1>1. s.pos.anchor \in Int /\ s.pos.stop \in Int
  BY DEF Replay, Position
<1>2. Holding(s) => s.pos.dir * (s.pos.anchor - s.pos.anchor) >= 0 /\ s.pos.dir * (s.pos.stop - s.pos.stop) >= 0
  BY <1>1 DEF PositionHolds, Directions
<1> QED BY <1>2 DEF Kept

\* One move after another.
LEMMA KeptTwice ==
  ASSUME NEW s \in Replay, NEW t \in Replay, NEW u \in Replay, PositionHolds(s),
         Holding(t) => t.pos.id = s.pos.id, Kept(s, t), Kept(t, u), u.pos.id # 0 => Holding(t)
  PROVE  Kept(s, u)
<1> SUFFICES ASSUME Holding(s), u.pos.id = s.pos.id
             PROVE  Kept(s, u)
  BY DEF Kept
<1>1. Holding(t) /\ t.pos.id = s.pos.id /\ u.pos.id = t.pos.id
  BY DEF Holding
<1>2. /\ s.pos.anchor \in Int /\ s.pos.stop \in Int /\ t.pos.anchor \in Int /\ t.pos.stop \in Int
      /\ u.pos.anchor \in Int /\ u.pos.stop \in Int /\ s.pos.dir \in Directions
  BY DEF Replay, Position, PositionHolds
<1>3. t.pos.dir = s.pos.dir /\ u.pos.dir = s.pos.dir /\ u.pos.entry = s.pos.entry /\ t.pos.entry = s.pos.entry
  BY <1>1 DEF Kept
<1>4. s.pos.dir * (t.pos.anchor - s.pos.anchor) >= 0 /\ s.pos.dir * (u.pos.anchor - t.pos.anchor) >= 0
  BY <1>1, <1>3 DEF Kept
<1>5. s.pos.dir * (u.pos.anchor - s.pos.anchor) >= 0
  BY <1>2, <1>4 DEF Directions
<1>6. CASE cfg.aftermath = "entry"
  BY <1>1, <1>3, <1>5, <1>6 DEF Kept
<1>7. CASE cfg.aftermath # "entry"
  <2>1. s.pos.stop # 0 => /\ t.pos.stop # 0 /\ s.pos.dir * (t.pos.stop - s.pos.stop) >= 0
                          /\ u.pos.stop # 0 /\ s.pos.dir * (u.pos.stop - t.pos.stop) >= 0
    BY <1>1, <1>3, <1>7 DEF Kept
  <2>2. s.pos.stop # 0 => u.pos.stop # 0 /\ s.pos.dir * (u.pos.stop - s.pos.stop) >= 0
    BY <1>2, <2>1 DEF Directions
  <2> QED BY <1>1, <1>3, <1>5, <1>7, <2>2 DEF Kept
<1> QED BY <1>6, <1>7

\* A close, whole or in part, of a held position.
LEMMA ShareKept ==
  ASSUME cfg \in Configs, NEW s, Booked(s), Holding(s), NEW t, NEW b, NEW price \in Int, price # 0,
         Closes(s, t, b, price) \/ Halves(s, t, b, price)
  PROVE  Kept(s, t) /\ (Holding(t) => t.pos.id = s.pos.id /\ t.pos.dir = s.pos.dir /\ t.pos.born = s.pos.born)
<1>1. CASE Closes(s, t, b, price)
  BY <1>1, NoneIsNone DEF Closes, Kept, Holding
<1>2. CASE Halves(s, t, b, price)
  <2> DEFINE p == [s.pos EXCEPT !.size = t.pos.size]
  <2>1. s.pos \in Position /\ s.pos.dir \in Directions /\ t.pos.size \in Nat /\ t.pos = Aftermath(p, price)
    BY <1>2 DEF Booked, Replay, PositionHolds, Position, Halves
  <2>2. /\ p \in Position /\ p.dir = s.pos.dir /\ p.anchor = s.pos.anchor /\ p.stop = s.pos.stop
        /\ p.entry = s.pos.entry
    BY <2>1 DEF Position
  <2> HIDE DEF p
  <2>3. /\ s.pos.dir * (t.pos.anchor - s.pos.anchor) >= 0
        /\ IF cfg.aftermath = "entry" THEN t.pos.stop = t.pos.entry
           ELSE s.pos.stop # 0 => t.pos.stop # 0 /\ s.pos.dir * (t.pos.stop - s.pos.stop) >= 0
    BY <2>1, <2>2, AftermathTightens
  <2> QED BY <1>2, <2>3 DEF Halves, Kept
<1> QED BY <1>1, <1>2

\* A flat replay has no position to keep.
LEMMA AdvanceMoves ==
  ASSUME NEW s \in Replay, NEW t, Advances(s, t), ~Holding(s)
  PROVE  Moves(s, t)
BY DEF Advances, Moves, Holding, Replay

\* A position that is left alone is kept.
LEMMA SameMoves ==
  ASSUME NEW s \in Replay, PositionHolds(s), NEW t, t.pos = s.pos, t.opens = s.opens, s.cut => t.cut
  PROVE  Moves(s, t)
<1>1. Kept(s, t)
  BY KeptSame
<1> QED BY <1>1 DEF Moves, Holding, Replay

\* While the fills of earlier bars are made, what is left of the position a bar began with.
Begun(p, s) ==
  /\ s.opens >= p.id
  /\ s.pos.id = p.id =>
       /\ s.pos.dir = p.dir /\ p.dir * (s.pos.anchor - p.anchor) >= 0
       /\ IF cfg.aftermath = "entry" THEN s.pos.stop \in {p.stop, p.entry}
          ELSE p.stop # 0 => s.pos.stop # 0 /\ p.dir * (s.pos.stop - p.stop) >= 0

\* And to the end of that bar: a position cut since may be protected at its entry.
Guarded(p, s) ==
  /\ s.opens >= p.id
  /\ s.pos.id = p.id =>
       /\ s.pos.dir = p.dir /\ p.dir * (s.pos.anchor - p.anchor) >= 0
       /\ IF cfg.aftermath = "entry"
          THEN s.pos.stop \in {p.stop, p.entry} \/ (s.cut /\ s.pos.stop = s.pos.entry)
          ELSE p.stop # 0 => s.pos.stop # 0 /\ p.dir * (s.pos.stop - p.stop) >= 0

\* The first move of a bar.
LEMMA FirstMove ==
  ASSUME NEW s \in Replay, PositionHolds(s), Holding(s), NEW t \in Replay, Moves(s, t)
  PROVE  Begun(s.pos, t)
<1>1. /\ s.opens \in Nat /\ t.opens \in Nat /\ s.pos.id \in Nat /\ s.pos.id # 0 /\ s.pos.id <= s.opens
      /\ s.pos.dir \in Directions /\ s.pos.stop \in Int /\ s.pos.anchor \in Int
  BY DEF Replay, Position, PositionHolds, Holding
<1>2. s.pos.dir * (s.pos.stop - s.pos.stop) >= 0 /\ s.pos.dir * (s.pos.anchor - s.pos.anchor) >= 0
  BY <1>1 DEF Directions
<1>3. t.opens >= s.pos.id
  BY <1>1 DEF Moves
<1>4. CASE t.pos.id # s.pos.id
  BY <1>3, <1>4 DEF Begun
<1>5. CASE t.pos.id = s.pos.id
  <2>1. Kept(s, t) \/ Grown(s, t)
    BY <1>1, <1>5 DEF Moves, Holding
  <2>2. CASE Kept(s, t)
    BY <1>3, <1>5, <2>2 DEF Kept, Begun
  <2>3. CASE Grown(s, t)
    BY <1>2, <1>3, <1>5, <2>3 DEF Grown, Begun
  <2> QED BY <2>1, <2>2, <2>3
<1> QED BY <1>4, <1>5

\* The later moves of its fills.
LEMMA BegunAdvances ==
  ASSUME NEW p \in Position, p.id # 0, NEW s \in Replay, NEW t, Begun(p, s), Advances(s, t), Holding(s) => t = s
  PROVE  Begun(p, t)
<1>1. s.opens \in Nat /\ p.id \in Nat
  BY DEF Replay, Position
<1>2. CASE Holding(s)
  BY <1>2
<1>3. CASE ~Holding(s)
  BY <1>1, <1>3 DEF Advances, Begun, Holding
<1> QED BY <1>2, <1>3

\* A remainder that grows leaves the protection alone.
LEMMA BegunSame ==
  ASSUME NEW p, NEW s, NEW t, Begun(p, s), SameProtection(s, t)
  PROVE  Begun(p, t)
BY DEF Begun, SameProtection

\* And every move after them.
LEMMA GuardedMoves ==
  ASSUME NEW p \in Position, p.id # 0, p.dir \in Directions, NEW s \in Replay, NEW t \in Replay,
         Guarded(p, s), Moves(s, t)
  PROVE  Guarded(p, t)
<1>1. /\ s.opens \in Nat /\ t.opens \in Nat /\ p.id \in Nat /\ p.anchor \in Int /\ p.stop \in Int
      /\ s.pos.anchor \in Int /\ s.pos.stop \in Int /\ t.pos.anchor \in Int /\ t.pos.stop \in Int
  BY DEF Replay, Position
<1>2. t.opens >= p.id
  BY <1>1 DEF Moves, Guarded
<1>3. CASE t.pos.id # p.id
  BY <1>2, <1>3 DEF Guarded
<1>4. CASE t.pos.id = p.id
  <2>1. Holding(s) /\ s.pos.id = p.id /\ (Kept(s, t) \/ Grown(s, t))
    BY <1>1, <1>4 DEF Moves, Guarded, Holding
  <2>2. s.pos.dir = p.dir /\ t.pos.dir = p.dir
    BY <1>4, <2>1 DEF Guarded, Kept, Grown
  <2>3. p.dir * (s.pos.anchor - p.anchor) >= 0 /\ (t.pos.anchor = s.pos.anchor \/ p.dir * (t.pos.anchor - s.pos.anchor) >= 0)
    BY <1>4, <2>1, <2>2 DEF Guarded, Kept, Grown
  <2>4. p.dir * (t.pos.anchor - p.anchor) >= 0
    BY <1>1, <2>3 DEF Directions
  <2>5. CASE cfg.aftermath = "entry"
    <3>1. t.pos.stop \in {p.stop, p.entry} \/ (t.cut /\ t.pos.stop = t.pos.entry)
      BY <1>4, <2>1, <2>5 DEF Guarded, Kept, Grown
    <3> QED BY <1>2, <1>4, <2>2, <2>4, <2>5, <3>1 DEF Guarded
  <2>6. CASE cfg.aftermath # "entry"
    <3>1. p.stop # 0 => /\ s.pos.stop # 0 /\ p.dir * (s.pos.stop - p.stop) >= 0
                        /\ t.pos.stop = s.pos.stop \/ (t.pos.stop # 0 /\ p.dir * (t.pos.stop - s.pos.stop) >= 0)
      BY <1>4, <2>1, <2>2, <2>6 DEF Guarded, Kept, Grown
    <3>2. p.stop # 0 => t.pos.stop # 0 /\ p.dir * (t.pos.stop - p.stop) >= 0
      BY <1>1, <3>1 DEF Directions
    <3> QED BY <1>2, <1>4, <2>2, <2>4, <2>6, <3>2 DEF Guarded
  <2> QED BY <2>5, <2>6
<1> QED BY <1>3, <1>4

-----------------------------------------------------------------------------
(* One item: fills of what earlier bars committed *)

\* The fields of a sound state.
LEMMA SoundTypes ==
  ASSUME NEW s, Coherent(s)
  PROVE  /\ Booked(s) /\ s \in Replay /\ s.pos \in Position /\ s.pending \in Deferral /\ s.limit \in RestingOrder
         /\ s.trigger \in EntryStop /\ s.touch \in TouchExit /\ s.seq \in Nat /\ s.opens \in Nat
         /\ s.due \in Int /\ s.signal \in Side
         /\ s.limit.dir \in Side /\ s.limit.price \in Int /\ s.limit.live \in Nat /\ s.limit.rest \in Nat
         /\ s.limit.plan \in Nat /\ s.limit.got \in Nat /\ s.limit.of \in Nat
         /\ s.limit.placed \in Nat /\ s.limit.expires \in Nat
         /\ s.trigger.dir \in Side /\ s.trigger.price \in Int /\ s.trigger.live \in Nat /\ s.trigger.limit \in Int
         /\ s.touch.price \in Nat /\ s.touch.placed \in Nat /\ s.touch.of \in Nat
         /\ s.pending.at \in Nat /\ s.pending.kind \in {"none", "entry", "exit"} /\ s.pending.dir \in Side
<1>1. Booked(s) /\ s \in Replay
  BY DEF Coherent, Booked
<1>2. /\ s.pos \in Position /\ s.pending \in Deferral /\ s.limit \in RestingOrder
      /\ s.trigger \in EntryStop /\ s.touch \in TouchExit /\ s.seq \in Nat /\ s.opens \in Nat
      /\ s.due \in Int /\ s.signal \in Side
  BY <1>1 DEF Replay
<1> QED BY <1>1, <1>2 DEF Deferral, RestingOrder, EntryStop, TouchExit

\* A deferred fill is answered once, whether it opens, closes or is blocked.
LEMMA DeferredHolds ==
  ASSUME cfg \in Configs, NEW s, Coherent(s), NEW b \in Bars, NEW atOpen \in BOOLEAN,
         Deferring(s) => s.opens < s.seq
  PROVE  LET t == Deferred(s, b, atOpen) IN
         /\ Coherent(t) /\ Advances(s, t) /\ t.limit = s.limit /\ t.trigger = s.trigger /\ t.touch = s.touch
         /\ t.pending = s.pending \/ t.pending = NoPending
         /\ s.pending.kind = "none" \/ s.pending.at # s.seq => t = s
         /\ Moves(s, t)
<1> DEFINE price == IF atOpen THEN b.open ELSE b.close
           due == s.pending.kind # "none" /\ s.pending.at = s.seq /\ s.pending.atOpen = atOpen
           t == Deferred(s, b, atOpen)
<1>1. price \in Nat /\ \A d \in Directions : Attainable(d, price, b)
  BY BarType, AtOpenOrClose
<1>2. Booked(s) /\ s \in Replay /\ s.due \in Int
  BY SoundTypes
<1>3. CASE ~due
  <2>1. t = s
    BY <1>3 DEF Deferred
  <2> QED BY <1>2, <2>1, SameMoves DEF Advances, Booked
<1>4. CASE due /\ Deferring(s)
  <2> DEFINE u == DoOpen(s, b, s.pending.dir, price, 0, s.pending.at)
  <2>1. ~Holding(s) /\ s.pending.dir \in Directions /\ ~Working(s) /\ ~Resting(s) /\ ~Triggered(s)
    BY <1>4 DEF Coherent, CommitmentsHold, Resting
  <2>2. t = [u EXCEPT !.pending = NoPending]
    BY <1>1, <1>4, <2>1 DEF Deferred, Deferring
  <2>3. s.pending.at \in Nat /\ s.pending.at <= s.seq /\ s.seq \in Nat
    BY <1>4, SoundTypes
  <2>4. Opens(s, u, b, s.pending.dir, price, 0, s.pending.at)
    <3>1. price \in Int /\ 0 \in Nat
      BY <1>1
    <3> HIDE DEF price
    <3> QED BY <1>2, <2>1, <2>3, <3>1, OpenMoves
  <2> HIDE DEF t, u, price
  <2>5. Booked(u) /\ Advances(s, u)
    BY <1>1, <1>2, <1>4, <2>1, <2>3, <2>4, OpenBooked
  <2>6. u \in Replay /\ SamePhase(s, u) /\ u.due = s.due - 1
    BY <2>4 DEF Opens
  <2>7. SameBooks(u, t) /\ t.pending = NoPending /\ t.limit = s.limit /\ t.trigger = s.trigger
        /\ t.touch = s.touch /\ t.due = s.due - 1
    BY <2>2, <2>6, NoneTypes, PendingSet DEF SamePhase
  <2>8. Booked(t) /\ (Holding(t) <=> Holding(u))
    BY <1>2, <2>5, <2>7, SameBooked DEF Booked, FillsHold
  <2>9. Advances(s, t)
    BY <2>5, <2>7, <2>8 DEF Advances, SameBooks
  <2>10. t.pending.kind = "none" /\ ~Deferring(t) /\ ~Working(t) /\ ~Resting(t) /\ ~Triggered(t)
    BY <2>1, <2>7, NoneIsNone DEF Deferring, Resting, Triggered, Working
  <2>11. CommitmentsHold(t) /\ RemainderHolds(t)
    BY <2>1, <2>7, <2>10 DEF CommitmentsHold, RemainderHolds, Coherent, Working
  <2>12. s.touch.placed = 0
    BY <1>4 DEF Coherent, TouchHolds, Deferring
  <2>13. TouchHolds(t)
    BY <2>7, <2>12 DEF TouchHolds
  <2>14. s.due = 1
    BY <1>4, <2>1 DEF Coherent, SignalsHold, Waits
  <2>15. SignalsHold(t)
    BY <2>7, <2>10, <2>14 DEF SignalsHold, Waits
  <2>16. Coherent(t)
    BY <2>8, <2>11, <2>13, <2>15 DEF Coherent, Booked
  <2>18. Moves(s, t)
    BY <1>2, <2>1, <2>9, AdvanceMoves
  <2> QED BY <1>4, <2>7, <2>9, <2>16, <2>18 DEF t, Deferring
<1>5. CASE due /\ ~Deferring(s)
  <2> DEFINE u == CloseShare(s, b, price)
  <2>1. s.pending.kind = "exit" /\ Holding(s) /\ ~Resting(s) /\ ~Triggered(s)
    BY <1>5, SoundTypes DEF Coherent, CommitmentsHold, Deferring
  <2>2. t = [u EXCEPT !.pending = NoPending]
    BY <1>1, <1>5, <2>1 DEF Deferred
  <2>3. s.pos.size >= 1 /\ -s.pos.dir \in Directions
    BY <2>1 DEF Coherent, PositionHolds, Directions
  <2>4. Closes(s, u, b, price) \/ Halves(s, u, b, price)
    BY <1>1, <1>2, <2>3, ShareMoves
  <2> HIDE DEF t, u, price
  <2>5. Booked(u) /\ Advances(s, u) /\ SamePhase(s, u) /\ u.due = s.due
    BY <1>1, <1>2, <2>1, <2>3, <2>4, ShareBooked
  <2>7. SameBooks(u, t) /\ t.pending = NoPending /\ t.limit = s.limit /\ t.trigger = s.trigger
        /\ t.touch = s.touch /\ t.due = s.due
    BY <2>2, <2>5, NoneTypes, PendingSet DEF SamePhase, Booked
  <2>8. Booked(t) /\ (Holding(t) <=> Holding(u))
    BY <1>2, <2>5, <2>7, SameBooked DEF Booked, FillsHold
  <2>9. Advances(s, t)
    BY <2>5, <2>7, <2>8 DEF Advances, SameBooks
  <2>10. t.pending.kind = "none" /\ ~Deferring(t) /\ ~Resting(t) /\ ~Triggered(t) /\ (Working(t) <=> Working(s))
    BY <2>1, <2>7, NoneIsNone DEF Deferring, Resting, Triggered, Working
  <2>17. t.pos = u.pos /\ t.opens = s.opens /\ (u.pos.id = 0 \/ (u.pos.id = s.pos.id /\ u.pos.dir = s.pos.dir))
    BY <2>4, <2>7, NoneIsNone DEF SameBooks, Closes, Halves
  <2>11. CommitmentsHold(t) /\ RemainderHolds(t)
    BY <2>1, <2>7, <2>10, <2>17 DEF CommitmentsHold, RemainderHolds, Coherent, Working
  <2>12. s.touch.placed = 0
    BY <2>1 DEF Coherent, TouchHolds, Deferring
  <2>13. TouchHolds(t)
    BY <2>7, <2>12 DEF TouchHolds
  <2>14. s.due = 0
    BY <1>5, <2>1 DEF Coherent, SignalsHold, Waits
  <2>15. SignalsHold(t)
    BY <2>7, <2>10, <2>14 DEF SignalsHold, Waits
  <2>16. Coherent(t)
    BY <2>8, <2>11, <2>13, <2>15 DEF Coherent, Booked
  <2>18. Kept(s, u) /\ (Holding(u) => u.pos.id = s.pos.id)
    <3>1. price \in Int /\ price # 0
      BY BarType DEF price
    <3> QED BY <1>2, <2>1, <2>4, <3>1, ShareKept
  <2>19. Moves(s, t)
    <3>1. Kept(s, t) /\ t.opens = s.opens /\ s.opens \in Nat
      BY <1>2, <2>7, <2>17, <2>18 DEF Kept, SameBooks, Replay
    <3>2. Holding(t) => t.pos.id = s.pos.id
      BY <2>17, <2>18 DEF Holding
    <3> QED BY <2>1, <3>1, <3>2 DEF Moves
  <2> QED BY <1>5, <2>7, <2>9, <2>16, <2>19 DEF t
<1> QED BY <1>3, <1>4, <1>5

\* The sizes printed at some places add up.
LEMMA SizeType ==
  ASSUME NEW b \in Bars, NEW places \in SUBSET DOMAIN b.prints
  PROVE  TotalSize(b.prints, places) \in Nat
<1> DEFINE f == [i \in places |-> b.prints[i][2]]
<1>1. \A i \in places : b.prints[i][2] \in Nat
  BY PrintType
<1>2. IsFiniteSet(DOMAIN b.prints)
  <2>1. DOMAIN b.prints = 1 .. Len(b.prints) /\ Len(b.prints) \in Nat
    BY BarType
  <2> QED BY <2>1, FS_Interval
<1>3. IsFiniteSet(places)
  BY <1>2, FS_Subset
<1>4. Summable(f, places)
  BY <1>1, <1>3 DEF Summable
<1>5. \A i \in places : f[i] >= 0
  BY <1>1
<1> HIDE DEF f
<1>6. SumFunction(f) \in Nat
  BY <1>4, <1>5, SumNatural
<1> QED BY <1>6 DEF TotalSize, f

\* An order is touched only where the bar traded.
LEMMA TouchedIsAttainable ==
  ASSUME NEW b, NEW l, LimitTouched(l, b)
  PROVE  Attainable(l.dir, l.price, b)
BY DEF LimitTouched, Attainable

\* Part of a plan is filled only where the policy allows it, and never all of it.
LEMMA DecisionIs ==
  ASSUME NEW b \in Bars, NEW n \in Nat
  PROVE  /\ FillDecision(b, n) \in {"full", "partial", "rejected"}
         /\ FillDecision(b, n) # "full" => cfg.partial # "not_allowed" /\ n # 0 /\ n < b.plan
BY BarType DEF FillDecision

\* A bar that opens a position holds it.
LEMMA AdvanceFills ==
  ASSUME NEW s, NEW t, Coherent(s), Filling(s), Advances(s, t), Holding(s) => Holding(t), t.touch.placed = s.touch.placed
  PROVE  Filling(t)
<1>1. s.opens \in Nat /\ s.seq \in Nat
  BY SoundTypes
<1> QED BY <1>1 DEF Filling, Advances

\* Without an order and with every signal answered, the commitments are the exits'.
LEMMA NoneWaits ==
  ASSUME NEW s, Coherent(s), NEW t, Booked(t), t.pending = s.pending, t.pending.kind = "none",
         t.limit = NoLimit, ~Triggered(t), t.touch.placed = 0, t.due = 0
  PROVE  Coherent(t)
<1>1. ~Deferring(t) /\ ~Working(t) /\ ~Resting(t) /\ t.limit.rest = 0
  BY NoneIsNone DEF Deferring, Working, Resting
<1> QED BY <1>1 DEF Coherent, Booked, CommitmentsHold, RemainderHolds, TouchHolds, SignalsHold, Waits

\* A touched order fills, in part or not at all, and its plan is kept.
LEMMA FillHolds ==
  ASSUME cfg \in Configs, NEW s, Coherent(s), Filling(s), Resting(s), LiveBy(s, s.seq), NEW b \in Bars,
         NEW places \in SUBSET DOMAIN b.prints, Attainable(s.limit.dir, s.limit.price, b)
  PROVE  LET t == FillLimit(s, b, places) IN
         /\ Coherent(t) /\ Filling(t) /\ LiveBy(t, t.seq) /\ Advances(s, t) /\ ~Triggered(t)
         /\ t.pending = s.pending /\ (Working(t) /\ ~Holding(t) => t = s)
<1> DEFINE l == s.limit
           available == TotalSize(b.prints, places)
           decision == FillDecision(b, available)
           cap == IF decision = "full" THEN 0 ELSE available
           u == DoOpen(s, b, l.dir, l.price, cap, l.live)
           done == [u EXCEPT !.limit = NoLimit]
           resting == [l EXCEPT !.rest = b.plan - available, !.of = u.pos.id, !.placed = s.seq,
                                !.got = u.pos.size, !.plan = b.plan]
           t == FillLimit(s, b, places)
<1>1. available \in Nat /\ b.plan \in Nat
  BY SizeType, BarType
<1>2. /\ decision \in {"full", "partial", "rejected"}
      /\ decision # "full" => cfg.partial # "not_allowed" /\ available # 0 /\ available < b.plan
  BY <1>1, DecisionIs
<1>3. /\ Booked(s) /\ s \in Replay /\ l \in RestingOrder /\ l.price \in Int /\ l.live \in Nat /\ l.dir \in Directions
      /\ s.seq \in Nat /\ s.opens \in Nat
  BY SoundTypes DEF Resting, Working, Side
<1>4. ~Holding(s) /\ ~Deferring(s) /\ ~Triggered(s) /\ s.pending.kind = "none" /\ Working(s) /\ l.rest = 0
  BY SoundTypes DEF Coherent, CommitmentsHold, Resting, Deferring
<1>5. s.opens < s.seq /\ l.live <= s.seq /\ s.touch.placed = 0
  BY <1>4 DEF Filling, LiveBy
<1>6. s.due = 1
  BY <1>4 DEF Coherent, SignalsHold, Waits, Resting
<1>7. t = CASE decision = "rejected" -> s
            [] decision = "partial" /\ Holding(u) /\ cfg.partial = "market" ->
                 Grow(done, b, b.close, b.plan - available)
            [] decision = "partial" /\ Holding(u) /\ cfg.partial \in {"allowed", "minimum"} ->
                 [u EXCEPT !.limit = resting]
            [] OTHER -> done
  BY DEF FillLimit
<1>8. cap \in Nat
  BY <1>1
<1>9. Opens(s, u, b, l.dir, l.price, cap, l.live)
  BY <1>3, <1>8, OpenMoves
<1> HIDE DEF t, u, decision, available, cap
<1>10. Booked(u) /\ Advances(s, u)
  BY <1>3, <1>4, <1>5, <1>9, OpenBooked
<1>11. u \in Replay /\ SamePhase(s, u) /\ u.due = 0
  BY <1>6, <1>9 DEF Opens
<1>12. SameBooks(u, done) /\ done.pending = s.pending /\ done.limit = NoLimit /\ done.trigger = s.trigger
       /\ done.touch = s.touch /\ done.due = 0
  BY <1>11, NoneTypes, LimitSet DEF SamePhase
<1> HIDE DEF done
<1>13. Booked(done) /\ Advances(u, done) /\ (Holding(done) <=> Holding(u))
  BY <1>10, <1>12, NoneIsNone, SameBooked
<1>14. Advances(s, done)
  BY <1>10, <1>12, <1>13 DEF Advances, SameBooks
<1>15. CASE t = s
  BY <1>3, <1>4, <1>15 DEF Advances, t
<1>16. CASE t = done
  <2>1. ~Working(t) /\ ~Triggered(t)
    BY <1>4, <1>12, <1>16, NoneIsNone DEF Working, Triggered
  <2>2. Coherent(t)
    BY <1>4, <1>5, <1>12, <1>13, <1>16, <2>1, NoneWaits
  <2>3. Filling(t)
    BY <1>4, <1>12, <1>14, <1>16, AdvanceFills
  <2> QED BY <1>12, <1>14, <1>16, <2>1, <2>2, <2>3 DEF LiveBy, t
<1>17. CASE /\ decision = "partial" /\ Holding(u) /\ cfg.partial = "market"
            /\ t = Grow(done, b, b.close, b.plan - available)
  <2>1. b.plan - available \in Nat /\ b.close \in Int /\ Holding(done) /\ done \in Replay
    BY <1>1, <1>2, <1>13, <1>17, BarType DEF Booked
  <2>2. done.pos.dir \in Directions /\ done.pos.size >= 1
    BY <1>13, <2>1 DEF Booked, PositionHolds
  <2>3. Grows(done, t, b, b.close, b.plan - available)
    BY <1>17, <2>1, <2>2, GrowMoves
  <2>4. Attainable(done.pos.dir, b.close, b)
    BY <2>2, AtOpenOrClose
  <2>5. Booked(t) /\ Advances(done, t) /\ Holding(t)
    BY <1>13, <1>17, <2>1, <2>3, <2>4, GrowBooked
  <2>6. /\ t.pending = s.pending /\ t.limit = NoLimit /\ t.trigger = s.trigger /\ t.touch = s.touch
        /\ t.due = 0 /\ t.opens = done.opens /\ t.pos.id = done.pos.id /\ t.pos.born = done.pos.born
    BY <1>12, <2>3 DEF Grows, SamePhase
  <2>7. ~Working(t) /\ ~Triggered(t)
    BY <1>4, <2>6, NoneIsNone DEF Working, Triggered
  <2>8. Coherent(t)
    BY <1>4, <1>5, <2>5, <2>6, <2>7, NoneWaits
  <2>9. Advances(s, t)
    BY <1>4, <1>14, <2>1, <2>5, <2>6 DEF Advances
  <2>10. Filling(t)
    BY <1>4, <2>6, <2>9, AdvanceFills
  <2> QED BY <2>6, <2>7, <2>8, <2>9, <2>10 DEF LiveBy, t
<1>18. CASE /\ decision = "partial" /\ Holding(u) /\ cfg.partial \in {"allowed", "minimum"}
            /\ t = [u EXCEPT !.limit = resting]
  <2>1. u.pos \in Position /\ u.pos.id \in Nat /\ u.pos.size \in Nat /\ u.pos.id # 0
    BY <1>11, <1>18 DEF Replay, Position, Holding
  <2>2. u.pos.size <= available
    <3>1. u.pos # NoPosition
      BY <1>18, NoneIsNone DEF Holding
    <3>2. cap # 0 /\ cap = available
      BY <1>2, <1>18 DEF cap
    <3> QED BY <1>9, <3>1, <3>2 DEF Opens
  <2>3. b.plan - available \in Nat /\ b.plan - available # 0 /\ u.pos.size + (b.plan - available) <= b.plan
    BY <1>1, <1>2, <1>18, <2>1, <2>2
  <2>4. /\ resting \in RestingOrder /\ resting.dir = l.dir /\ resting.live = l.live
        /\ resting.rest = b.plan - available /\ resting.of = u.pos.id
        /\ resting.got = u.pos.size /\ resting.plan = b.plan /\ u.pos.dir = l.dir /\ u.pos.id = u.opens
    <3>1. u.pos # NoPosition
      BY <1>18, NoneIsNone DEF Holding
    <3>2. u.pos.dir = l.dir /\ u.pos.id = u.opens
      BY <1>9, <3>1 DEF Opens
    <3> HIDE DEF l
    <3> QED BY <1>1, <1>3, <2>1, <2>3, <3>2 DEF RestingOrder
  <2> HIDE DEF resting
  <2>5. /\ SameBooks(u, t) /\ t.pending = s.pending /\ t.limit = resting /\ t.trigger = s.trigger
        /\ t.touch = s.touch /\ t.due = 0
    BY <1>11, <1>18, <2>4, LimitSet DEF SamePhase
  <2>6. Booked(t) /\ Advances(u, t) /\ (Holding(t) <=> Holding(u))
    BY <1>2, <1>10, <1>18, <2>5, SameBooked
  <2>7. Advances(s, t)
    BY <1>10, <2>5, <2>6 DEF Advances, SameBooks
  <2>8. Working(t) /\ t.limit.rest # 0 /\ ~Resting(t) /\ ~Deferring(t) /\ ~Triggered(t) /\ Holding(t)
    BY <1>4, <1>18, <2>3, <2>4, <2>5, <2>6 DEF Working, Resting, Deferring, Triggered
  <2>9. RemainderHolds(t)
    BY <2>1, <2>3, <2>4, <2>5, <2>8 DEF RemainderHolds, SameBooks
  <2>10. CommitmentsHold(t) /\ TouchHolds(t) /\ SignalsHold(t)
    BY <1>4, <1>5, <2>5, <2>8 DEF CommitmentsHold, TouchHolds, SignalsHold, Waits
  <2>11. Coherent(t)
    BY <2>6, <2>9, <2>10 DEF Coherent, Booked
  <2>12. Filling(t)
    BY <1>4, <2>5, <2>7, AdvanceFills
  <2>13. LiveBy(t, t.seq)
    BY <1>5, <2>4, <2>5, <2>7, <2>8 DEF LiveBy, Advances
  <2> QED BY <2>5, <2>7, <2>8, <2>11, <2>12, <2>13 DEF t
<1>19. t = s \/ t = done
       \/ (decision = "partial" /\ Holding(u) /\ cfg.partial = "market" /\ t = Grow(done, b, b.close, b.plan - available))
       \/ (decision = "partial" /\ Holding(u) /\ cfg.partial \in {"allowed", "minimum"} /\ t = [u EXCEPT !.limit = resting])
  <2> HIDE DEF resting
  <2> QED BY <1>7
<1>20. /\ Coherent(t) /\ Filling(t) /\ LiveBy(t, t.seq) /\ Advances(s, t) /\ ~Triggered(t)
       /\ t.pending = s.pending /\ (Working(t) /\ ~Holding(t) => t = s)
  BY <1>15, <1>16, <1>17, <1>18, <1>19 DEF t
<1> QED BY <1>20 DEF t

\* An order that expires is cancelled or filled at the close.
LEMMA ExpireHolds ==
  ASSUME cfg \in Configs, NEW s, Coherent(s), Filling(s), Resting(s), LiveBy(s, s.seq), NEW b \in Bars
  PROVE  LET t == ExpireLimit(s, b) IN
         Coherent(t) /\ Filling(t) /\ LiveBy(t, t.seq) /\ Advances(s, t)
<1> DEFINE l == s.limit
           gone == [s EXCEPT !.limit = NoLimit]
           u == DoOpen(gone, b, l.dir, b.close, 0, l.live)
           t == ExpireLimit(s, b)
<1>1. /\ Booked(s) /\ s \in Replay /\ l.live \in Nat /\ l.dir \in Directions /\ s.seq \in Nat /\ s.opens \in Nat
  BY SoundTypes DEF Resting, Working, Side
<1>2. ~Holding(s) /\ ~Deferring(s) /\ ~Triggered(s) /\ s.pending.kind = "none"
  BY SoundTypes DEF Coherent, CommitmentsHold, Resting, Deferring
<1>3. s.opens < s.seq /\ l.live <= s.seq /\ s.touch.placed = 0 /\ s.due = 1
  BY <1>2 DEF Filling, LiveBy, Coherent, SignalsHold, Waits, Resting
<1>4. /\ SameBooks(s, gone) /\ gone.pending = s.pending /\ gone.limit = NoLimit /\ gone.trigger = s.trigger
      /\ gone.touch = s.touch /\ gone.due = 1
  BY <1>1, <1>3, NoneTypes, LimitSet
<1>5. t = IF cfg.unfilled = "convert" THEN u ELSE [gone EXCEPT !.due = gone.due - 1]
  BY <1>4 DEF ExpireLimit
<1> HIDE DEF gone, t
<1>6. Booked(gone) /\ Advances(s, gone) /\ ~Holding(gone)
  BY <1>1, <1>2, <1>4, NoneIsNone, SameBooked
<1>7. CASE cfg.unfilled = "convert"
  <2>1. gone \in Replay /\ b.close \in Int /\ gone.seq = s.seq /\ gone.opens = s.opens /\ Attainable(l.dir, b.close, b)
    BY <1>1, <1>4, BarType, AtOpenOrClose DEF SameBooks
  <2>2. Opens(gone, u, b, l.dir, b.close, 0, l.live)
    BY <1>1, <2>1, OpenMoves
  <2> HIDE DEF u
  <2>3. Booked(u) /\ Advances(gone, u)
    BY <1>1, <1>3, <1>6, <2>1, <2>2, OpenBooked
  <2>4. /\ u.pending = s.pending /\ u.limit = NoLimit /\ u.trigger = s.trigger /\ u.touch = s.touch /\ u.due = 0
    BY <1>4, <2>2 DEF Opens, SamePhase
  <2>5. Advances(s, u)
    BY <1>4, <1>6, <2>3 DEF Advances, SameBooks
  <2>6. ~Working(u) /\ ~Triggered(u)
    BY <1>2, <2>4, NoneIsNone DEF Working, Triggered
  <2>7. Coherent(u)
    BY <1>2, <1>3, <2>3, <2>4, <2>6, NoneWaits
  <2>8. Filling(u)
    BY <1>2, <2>4, <2>5, AdvanceFills
  <2> QED BY <1>5, <1>7, <2>5, <2>6, <2>7, <2>8 DEF LiveBy, t
<1>8. CASE cfg.unfilled # "convert"
  <2>1. t = [gone EXCEPT !.due = 0]
    BY <1>4, <1>5, <1>8
  <2>2. SameBooks(gone, t) /\ t.pending = s.pending /\ t.limit = NoLimit /\ t.trigger = s.trigger
        /\ t.touch = s.touch /\ t.due = 0
    BY <1>4, <2>1, DueSet DEF SameBooks
  <2>3. Booked(t) /\ Advances(gone, t) /\ ~Holding(t)
    BY <1>6, <2>2, NoneIsNone, SameBooked
  <2>4. Advances(s, t)
    BY <1>4, <1>6, <2>2, <2>3 DEF Advances, SameBooks
  <2>5. ~Working(t) /\ ~Triggered(t)
    BY <1>2, <2>2, NoneIsNone DEF Working, Triggered
  <2>6. Coherent(t)
    BY <1>2, <1>3, <2>2, <2>3, <2>5, NoneWaits
  <2>7. Filling(t)
    BY <1>2, <2>2, <2>4, AdvanceFills
  <2> QED BY <2>4, <2>5, <2>6, <2>7 DEF LiveBy, t
<1> QED BY <1>7, <1>8

\* A new price changes nothing else.
LEMMA RepriceHolds ==
  ASSUME cfg \in Configs, NEW s, Coherent(s), Filling(s), LiveBy(s, s.seq), NEW b \in Bars
  PROVE  LET t == Reprice(s, b) IN
         /\ Coherent(t) /\ Filling(t) /\ LiveBy(t, t.seq) /\ Advances(s, t) /\ (Holding(t) <=> Holding(s))
         /\ t.pos = s.pos /\ t.opens = s.opens
<1> DEFINE x == [s.limit EXCEPT !.price = LimitPrice(b.close, cfg.offset)]
           t == Reprice(s, b)
<1>1. Booked(s) /\ s \in Replay /\ s.limit \in RestingOrder
  BY SoundTypes
<1>2. CASE t = s
  BY <1>1, <1>2, SameBooked DEF Advances
<1>3. CASE t = [s EXCEPT !.limit = x]
  <2>1. LimitPrice(b.close, cfg.offset) \in Int
    BY BarType, StrategyType DEF LimitPrice
  <2>2. /\ x \in RestingOrder /\ x.dir = s.limit.dir /\ x.live = s.limit.live /\ x.rest = s.limit.rest
        /\ x.of = s.limit.of /\ x.got = s.limit.got /\ x.plan = s.limit.plan
    BY <1>1, <2>1 DEF RestingOrder
  <2> HIDE DEF x, t
  <2>3. SameBooks(s, t) /\ t.pending = s.pending /\ t.limit = x /\ t.trigger = s.trigger
        /\ t.touch = s.touch /\ t.due = s.due
    BY <1>1, <1>3, <2>2, LimitSet
  <2>4. Booked(t) /\ Advances(s, t) /\ (Holding(t) <=> Holding(s))
    BY <1>1, <2>2, <2>3, SameBooked DEF Booked, FillsHold
  <2>5. (Working(t) <=> Working(s)) /\ (Resting(t) <=> Resting(s)) /\ (Deferring(t) <=> Deferring(s))
        /\ (Triggered(t) <=> Triggered(s)) /\ t.opens = s.opens /\ t.pos = s.pos /\ t.seq = s.seq
    BY <2>2, <2>3 DEF Working, Resting, Deferring, Triggered, SameBooks
  <2>6. CommitmentsHold(t) /\ RemainderHolds(t)
    BY <2>2, <2>3, <2>4, <2>5 DEF Coherent, CommitmentsHold, RemainderHolds
  <2>7. TouchHolds(t) /\ SignalsHold(t)
    <3>1. TouchHolds(t)
      BY <2>3, <2>4, <2>5 DEF Coherent, TouchHolds
    <3>2. SignalsHold(t)
      BY <2>3, <2>5 DEF Coherent, SignalsHold, Waits
    <3> QED BY <3>1, <3>2
  <2>8. Coherent(t)
    BY <2>4, <2>6, <2>7 DEF Coherent, Booked
  <2>9. Filling(t)
    BY <2>3, <2>4, AdvanceFills
  <2>10. LiveBy(t, t.seq)
    BY <2>2, <2>3, <2>5 DEF LiveBy
  <2> QED BY <2>4, <2>5, <2>8, <2>9, <2>10 DEF t
<1>4. t = s \/ t = [s EXCEPT !.limit = x]
  BY DEF Reprice
<1> QED BY <1>2, <1>3, <1>4

\* The resting order of a flat replay.
LEMMA RestingStep ==
  ASSUME cfg \in Configs, NEW s, Coherent(s), Filling(s), LiveBy(s, s.seq), NEW b \in Bars
  PROVE  LET t == RestingLimit(s, b) IN
         Coherent(t) /\ Filling(t) /\ LiveBy(t, t.seq) /\ Advances(s, t) /\ (Holding(s) => t = s)
<1> DEFINE u == IF LimitTouched(s.limit, b)
                THEN FillLimit(s, b, TouchingPrints(b.prints, s.limit.dir, s.limit.price)) ELSE s
           t == RestingLimit(s, b)
<1>1. Advances(s, s)
  BY DEF Advances
<1>2. CASE ~Resting(s) \/ Holding(s)
  <2>1. t = s
    BY <1>2 DEF RestingLimit, Resting
  <2> QED BY <1>1, <2>1
<1>3. CASE Resting(s) /\ ~Holding(s)
  <2>1. TouchingPrints(b.prints, s.limit.dir, s.limit.price) \in SUBSET DOMAIN b.prints
    BY DEF TouchingPrints
  <2>2. /\ Coherent(u) /\ Filling(u) /\ LiveBy(u, u.seq) /\ Advances(s, u) /\ (Working(u) /\ ~Holding(u) => u = s)
    BY <1>1, <1>3, <2>1, FillHolds, TouchedIsAttainable
  <2>3. \/ t = u
        \/ u = s /\ t = ExpireLimit(s, b)
        \/ u = s /\ t = Reprice(s, b)
    <3> HIDE DEF u
    <3>1. t = CASE ~Working(u) \/ Holding(u) -> u
                [] Working(u) /\ ~Holding(u) /\ Expired(u) -> ExpireLimit(u, b)
                [] OTHER -> Reprice(u, b)
      BY <1>3 DEF RestingLimit, Resting, u
    <3> HIDE DEF t
    <3> QED BY <2>2, <3>1
  <2> HIDE DEF u, t
  <2>4. CASE t = u
    BY <1>3, <2>2, <2>4 DEF t
  <2>5. CASE t = ExpireLimit(s, b)
    BY <1>3, <2>5, ExpireHolds DEF t
  <2>6. CASE t = Reprice(s, b)
    BY <1>3, <2>6, RepriceHolds DEF t
  <2> QED BY <2>3, <2>4, <2>5, <2>6
<1> QED BY <1>2, <1>3

\* What is left of a partly filled order tops up the position it belongs to, or goes.
LEMMA TopUpHolds ==
  ASSUME cfg \in Configs, NEW s, Coherent(s), Filling(s), LiveBy(s, s.seq), NEW b \in Bars,
         s.limit.rest # 0, s.pos.id = s.limit.of, Attainable(s.limit.dir, s.limit.price, b),
         NEW n \in Nat, n <= s.limit.rest
  PROVE  LET t == TopUp(s, b, s.limit.price, n) IN
         /\ Coherent(t) /\ Filling(t) /\ LiveBy(t, t.seq) /\ Advances(s, t) /\ Holding(t)
         /\ SameProtection(s, t) /\ (Working(t) => t.limit.rest # 0)
<1> DEFINE l == s.limit
           g == Grow(s, b, l.price, n)
           x == IF n = l.rest THEN NoLimit
                ELSE [l EXCEPT !.rest = l.rest - n, !.got = l.got + n, !.placed = s.seq]
           t == TopUp(s, b, l.price, n)
<1>1. /\ Booked(s) /\ s \in Replay /\ l \in RestingOrder /\ l.price \in Int /\ l.rest \in Nat /\ l.got \in Nat
      /\ l.plan \in Nat /\ l.of \in Nat /\ s.seq \in Nat /\ s.opens \in Nat
  BY SoundTypes
<1>2. Working(s) /\ l.of \in 1 .. s.opens /\ l.got + l.rest <= l.plan /\ s.pos.dir = l.dir
  BY DEF Coherent, RemainderHolds
<1>3. Holding(s) /\ s.pos.size >= 1 /\ cfg.partial # "not_allowed"
  BY <1>1, <1>2 DEF Holding, Booked, PositionHolds, FillsHold
<1>4. ~Deferring(s) /\ ~Resting(s) /\ ~Triggered(s)
  BY <1>3 DEF Coherent, CommitmentsHold
<1>5. Grows(s, g, b, l.price, n)
  BY <1>1, <1>3, GrowMoves
<1>6. t = [g EXCEPT !.limit = x]
  BY DEF TopUp
<1>7. x \in RestingOrder /\ (x = NoLimit \/ (/\ x.dir = l.dir /\ x.live = l.live /\ x.rest = l.rest - n
                                              /\ x.rest # 0 /\ x.got = l.got + n /\ x.of = l.of /\ x.plan = l.plan))
  <2>1. CASE n = l.rest
    BY <2>1, NoneTypes
  <2>2. CASE n # l.rest
    <3>1. l.rest - n \in Nat /\ l.rest - n # 0 /\ l.got + n \in Nat
      BY <1>1, <2>2
    <3> HIDE DEF l
    <3> QED BY <1>1, <2>2, <3>1 DEF RestingOrder
  <2> QED BY <2>1, <2>2
<1> HIDE DEF g, x, t
<1>8. Booked(g) /\ Advances(s, g) /\ Holding(g)
  BY <1>1, <1>2, <1>3, <1>5, GrowBooked
<1>9. /\ SameBooks(g, t) /\ t.pending = s.pending /\ t.limit = x /\ t.trigger = s.trigger /\ t.touch = s.touch
      /\ t.due = s.due
  BY <1>5, <1>6, <1>7, LimitSet DEF Grows, SamePhase
<1>10. Booked(t) /\ Advances(g, t) /\ Holding(t)
  BY <1>3, <1>8, <1>9, SameBooked
<1>11. t.opens = s.opens /\ t.pos.id = s.pos.id /\ t.pos.dir = s.pos.dir /\ t.seq = s.seq
  BY <1>5, <1>9 DEF Grows, SamePhase, SameBooks
<1>12. Advances(s, t)
  BY <1>5, <1>8, <1>9, <1>10 DEF Advances, SameBooks, Grows
<1>13. Working(t) => t.limit.rest # 0
  BY <1>7, <1>9, NoneIsNone DEF Working
<1>14. ~Deferring(t) /\ ~Resting(t) /\ ~Triggered(t)
  BY <1>4, <1>9, <1>13 DEF Deferring, Resting, Triggered
<1>15. RemainderHolds(t)
  <2>1. CASE x = NoLimit
    BY <1>9, <2>1, NoneIsNone DEF RemainderHolds
  <2>2. CASE /\ x.dir = l.dir /\ x.live = l.live /\ x.rest = l.rest - n
             /\ x.rest # 0 /\ x.got = l.got + n /\ x.of = l.of /\ x.plan = l.plan
    BY <1>1, <1>2, <1>9, <1>11, <2>2 DEF RemainderHolds, Working
  <2> QED BY <1>7, <2>1, <2>2
<1>16. CommitmentsHold(t)
  BY <1>3, <1>9, <1>10, <1>11, <1>14 DEF Coherent, CommitmentsHold
<1>17. TouchHolds(t)
  BY <1>3, <1>9, <1>11 DEF Coherent, TouchHolds
<1>18. SignalsHold(t)
  BY <1>4, <1>9, <1>14 DEF Coherent, SignalsHold, Waits
<1>19. Coherent(t)
  BY <1>10, <1>15, <1>16, <1>17, <1>18 DEF Coherent, Booked
<1>20. Filling(t)
  BY <1>9, <1>10, <1>12, AdvanceFills
<1>21. LiveBy(t, t.seq)
  BY <1>2, <1>7, <1>9, <1>11, <1>14, NoneIsNone DEF LiveBy, Working, Triggered
<1>22. SameProtection(s, t)
  BY <1>5, <1>9, <1>11 DEF Grows, SameBooks, SameProtection
<1> QED BY <1>10, <1>11, <1>12, <1>13, <1>19, <1>20, <1>21, <1>22 DEF t

\* A remainder that goes takes nothing with it.
LEMMA DropHolds ==
  ASSUME cfg \in Configs, NEW s, Coherent(s), Filling(s), LiveBy(s, s.seq), s.limit.rest # 0
  PROVE  LET t == [s EXCEPT !.limit = NoLimit] IN
         /\ Coherent(t) /\ Filling(t) /\ LiveBy(t, t.seq) /\ SameBooks(s, t) /\ t.limit = NoLimit
<1> DEFINE t == [s EXCEPT !.limit = NoLimit]
<1>1. Booked(s) /\ s \in Replay
  BY SoundTypes
<1>2. /\ SameBooks(s, t) /\ t.pending = s.pending /\ t.limit = NoLimit /\ t.trigger = s.trigger
      /\ t.touch = s.touch /\ t.due = s.due
  BY <1>1, NoneTypes, LimitSet
<1> HIDE DEF t
<1>3. Booked(t) /\ Advances(s, t) /\ (Holding(t) <=> Holding(s))
  BY <1>1, <1>2, NoneIsNone, SameBooked
<1>4. Working(s) /\ ~Resting(s) /\ ~Deferring(s) /\ ~Triggered(s)
  BY DEF Coherent, RemainderHolds, CommitmentsHold, Resting
<1>5. ~Working(t) /\ ~Resting(t) /\ ~Deferring(t) /\ ~Triggered(t)
  BY <1>2, <1>4, NoneIsNone DEF Working, Resting, Deferring, Triggered
<1>12. s.pending.kind = "exit" => Holding(t)
  BY <1>3 DEF Coherent, CommitmentsHold
<1>13. t.pending.kind # "none" => t.pending.at <= t.seq + 1
  BY <1>2 DEF Coherent, CommitmentsHold, SameBooks
<1>14. CommitmentsHold(t)
  BY <1>2, <1>5, <1>12, <1>13 DEF CommitmentsHold
<1>6. RemainderHolds(t) /\ CommitmentsHold(t)
  BY <1>2, <1>14, NoneIsNone DEF RemainderHolds
<1>7. TouchHolds(t)
  BY <1>2, <1>3 DEF Coherent, TouchHolds, SameBooks
<1>8. SignalsHold(t)
  BY <1>2, <1>4, <1>5 DEF Coherent, SignalsHold, Waits
<1>9. Filling(t)
  BY <1>2, <1>3, AdvanceFills
<1>10. Coherent(t)
  BY <1>3, <1>6, <1>7, <1>8 DEF Coherent, Booked
<1>11. LiveBy(t, t.seq)
  BY <1>5 DEF LiveBy
<1> QED BY <1>2, <1>9, <1>10, <1>11 DEF t

\* It may be bought at the close instead.
LEMMA BuyRestHolds ==
  ASSUME cfg \in Configs, NEW s, Coherent(s), Filling(s), NEW b \in Bars, Holding(s), s.limit = NoLimit,
         cfg.partial # "not_allowed", NEW n \in Nat
  PROVE  LET t == Grow(s, b, b.close, n) IN
         Coherent(t) /\ Filling(t) /\ LiveBy(t, t.seq) /\ Advances(s, t) /\ SameProtection(s, t)
<1> DEFINE t == Grow(s, b, b.close, n)
<1>1. Booked(s) /\ s \in Replay /\ b.close \in Int
  BY SoundTypes, BarType
<1>2. s.pos.dir \in Directions /\ s.pos.size >= 1
  BY DEF Coherent, PositionHolds
<1>3. Grows(s, t, b, b.close, n) /\ Attainable(s.pos.dir, b.close, b)
  BY <1>1, <1>2, GrowMoves, AtOpenOrClose
<1> HIDE DEF t
<1>4. Booked(t) /\ Advances(s, t) /\ Holding(t)
  BY <1>1, <1>3, GrowBooked
<1>5. /\ t.pending = s.pending /\ t.limit = NoLimit /\ t.trigger = s.trigger /\ t.touch = s.touch
      /\ t.due = s.due /\ t.pos.id = s.pos.id /\ t.seq = s.seq
  BY <1>3 DEF Grows, SamePhase
<1>6. ~Deferring(s) /\ ~Resting(s) /\ ~Triggered(s)
  BY DEF Coherent, CommitmentsHold
<1>7. ~Working(t) /\ ~Deferring(t) /\ ~Resting(t) /\ ~Triggered(t)
  BY <1>5, <1>6, NoneIsNone DEF Working, Deferring, Resting, Triggered
<1>8. RemainderHolds(t) /\ CommitmentsHold(t)
  BY <1>4, <1>5, <1>7, NoneIsNone DEF Coherent, RemainderHolds, CommitmentsHold
<1>9. TouchHolds(t)
  BY <1>5 DEF Coherent, TouchHolds
<1>10. SignalsHold(t)
  BY <1>5, <1>6, <1>7 DEF Coherent, SignalsHold, Waits
<1>11. Filling(t)
  BY <1>4, <1>5, AdvanceFills
<1>12. Coherent(t) /\ LiveBy(t, t.seq)
  BY <1>4, <1>7, <1>8, <1>9, <1>10 DEF Coherent, Booked, LiveBy
<1>13. SameProtection(s, t)
  BY <1>3 DEF Grows, SameProtection
<1> QED BY <1>4, <1>11, <1>12, <1>13 DEF t

\* The remainder of a held replay.
LEMMA RemainderStep ==
  ASSUME cfg \in Configs, NEW s, Coherent(s), Filling(s), LiveBy(s, s.seq), NEW b \in Bars
  PROVE  LET t == Remainder(s, b) IN Coherent(t) /\ Filling(t) /\ LiveBy(t, t.seq) /\ t.seq = s.seq /\ SameProtection(s, t)
<1> DEFINE l == s.limit
           size == TotalSize(b.prints, TouchingPrints(b.prints, l.dir, l.price))
           n == IF size = 0 THEN l.rest ELSE Lesser(size, l.rest)
           u == IF LimitTouched(l, b) THEN TopUp(s, b, l.price, n) ELSE s
           gone == [u EXCEPT !.limit = NoLimit]
           t == Remainder(s, b)
<1>1. CASE ~Working(s) \/ l.rest = 0 \/ (s.pos.id = l.of /\ l.placed = s.seq)
  BY <1>1 DEF Remainder, SameProtection
<1>2. CASE Working(s) /\ l.rest # 0 /\ s.pos.id # l.of
  <2>1. t = [s EXCEPT !.limit = NoLimit]
    BY <1>2 DEF Remainder
  <2> HIDE DEF t
  <2> QED BY <1>2, <2>1, DropHolds DEF t, SameBooks, SameProtection
<1>3. CASE Working(s) /\ l.rest # 0 /\ s.pos.id = l.of /\ l.placed # s.seq
  <2>1. t = CASE ~Working(u) -> u
              [] Working(u) /\ Expired(u) -> IF cfg.unfilled = "convert" THEN Grow(gone, b, b.close, u.limit.rest) ELSE gone
              [] OTHER -> Reprice(u, b)
    BY <1>3 DEF Remainder
  <2>2. TouchingPrints(b.prints, l.dir, l.price) \in SUBSET DOMAIN b.prints
    BY DEF TouchingPrints
  <2>3. size \in Nat /\ l.rest \in Nat
    BY <2>2, SizeType, SoundTypes
  <2>4. n \in Nat /\ n <= l.rest
    BY <2>3 DEF Lesser
  <2>5. Advances(s, s) /\ Holding(s) /\ cfg.partial # "not_allowed"
    BY <1>3, SoundTypes DEF Advances, Coherent, RemainderHolds, FillsHold, Holding
  <2>7. /\ Coherent(u) /\ Filling(u) /\ LiveBy(u, u.seq) /\ Advances(s, u) /\ Holding(u)
        /\ (Working(u) => u.limit.rest # 0) /\ SameProtection(s, u)
    <3>1. CASE LimitTouched(l, b)
      <4>1. u = TopUp(s, b, l.price, n)
        BY <3>1
      <4>2. Attainable(s.limit.dir, s.limit.price, b)
        BY <3>1, TouchedIsAttainable
      <4> HIDE DEF n, u
      <4> QED BY <1>3, <2>4, <4>1, <4>2, TopUpHolds
    <3>2. CASE ~LimitTouched(l, b)
      <4>1. u = s
        BY <3>2
      <4> HIDE DEF u
      <4> QED BY <1>3, <2>5, <4>1 DEF SameProtection
    <3> QED BY <3>1, <3>2
  <2> HIDE DEF u, t
  <2>8. u.seq = s.seq
    BY <2>7 DEF Advances
  <2>9. CASE t = u
    BY <2>7, <2>8, <2>9 DEF t
  <2>10. CASE t = Reprice(u, b)
    <3>1. Coherent(t) /\ Filling(t) /\ LiveBy(t, t.seq) /\ Advances(u, t) /\ t.pos = u.pos /\ t.opens = u.opens
      BY <2>7, <2>10, RepriceHolds
    <3> QED BY <2>7, <2>8, <3>1 DEF t, Advances, SameProtection
  <2>11. CASE Working(u) /\ (t = gone \/ t = Grow(gone, b, b.close, u.limit.rest))
    <3>1. Coherent(gone) /\ Filling(gone) /\ LiveBy(gone, gone.seq) /\ SameBooks(u, gone) /\ gone.limit = NoLimit
      BY <2>7, <2>11, DropHolds
    <3>2. Holding(gone) /\ u.limit.rest \in Nat
      BY <2>7, <3>1, SoundTypes DEF SameBooks, Holding
    <3> HIDE DEF gone
    <3>3. CASE t = gone
      BY <2>7, <2>8, <3>1, <3>3 DEF t, SameBooks, SameProtection
    <3>4. CASE t = Grow(gone, b, b.close, u.limit.rest)
      <4>1. Coherent(t) /\ Filling(t) /\ LiveBy(t, t.seq) /\ Advances(gone, t) /\ SameProtection(gone, t)
        BY <2>5, <3>1, <3>2, <3>4, BuyRestHolds
      <4> QED BY <2>7, <2>8, <3>1, <4>1 DEF t, SameBooks, Advances, SameProtection
    <3> QED BY <2>11, <3>3, <3>4
  <2>12. t = u \/ t = Reprice(u, b) \/ (Working(u) /\ (t = gone \/ t = Grow(gone, b, b.close, u.limit.rest)))
    <3> HIDE DEF gone
    <3> QED BY <2>1
  <2> QED BY <2>9, <2>10, <2>11, <2>12
<1> QED BY <1>1, <1>2, <1>3

\* What may fill in this bar may fill in the next.
LEMMA LiveByNext ==
  ASSUME NEW s, Coherent(s), LiveBy(s, s.seq)
  PROVE  LiveBy(s, s.seq + 1)
<1>1. s.seq \in Nat /\ s.limit.live \in Nat /\ s.trigger.live \in Nat
  BY SoundTypes
<1> QED BY <1>1 DEF LiveBy

\* The worse of a level and the open is traded at: no worse price needs to be.
LEMMA GappedFill ==
  ASSUME NEW b \in Bars, NEW d \in Directions, NEW level \in Int
  PROVE  Worse(d, level, b.open) \in Int /\ Attainable(d, Worse(d, level, b.open), b)
<1> DEFINE price == Worse(d, level, b.open)
<1>1. b.open \in Nat /\ b.low \in Nat /\ b.high \in Nat /\ b.low <= b.open /\ b.open <= b.high
  BY BarType
<1>2. CASE d = 1
  <2>1. price = IF level - b.open >= 0 THEN level ELSE b.open
    BY <1>1, <1>2 DEF Worse
  <2>2. price \in Int /\ price - b.low >= 0
    BY <1>1, <2>1
  <2> HIDE DEF price
  <2>3. Touching(d, price, Dip(d, b))
    BY <1>1, <1>2, <2>2 DEF Touching, Dip
  <2> QED BY <2>2, <2>3 DEF Attainable, price
<1>3. CASE d = -1
  <2>1. price = IF -(level - b.open) >= 0 THEN level ELSE b.open
    BY <1>1, <1>3 DEF Worse
  <2>2. price \in Int /\ b.high - price >= 0
    BY <1>1, <2>1
  <2> HIDE DEF price
  <2>3. Touching(d, price, Dip(d, b))
    BY <1>1, <1>3, <2>2 DEF Touching, Dip
  <2> QED BY <2>2, <2>3 DEF Attainable, price
<1> QED BY <1>2, <1>3 DEF Directions

\* A fired entry stop opens a position, or arms its limit, which the bar may fill.
LEMMA StopEntryStep ==
  ASSUME cfg \in Configs, NEW s, Coherent(s), Filling(s), LiveBy(s, s.seq), NEW b \in Bars
  PROVE  LET t == StopEntry(s, b) IN
         Coherent(t) /\ Filling(t) /\ LiveBy(t, t.seq + 1) /\ Advances(s, t) /\ (Holding(s) => t = s)
<1> DEFINE w == s.trigger
           gone == [s EXCEPT !.trigger = NoTrigger]
           x == [NoLimit EXCEPT !.dir = w.dir, !.price = w.limit, !.live = s.seq + 1,
                   !.expires = IF cfg.validity = 0 THEN 0 ELSE s.seq + cfg.validity]
           armed == [gone EXCEPT !.limit = x]
           early == [armed EXCEPT !.limit.live = s.seq]
           firing == TouchingPrints(b.prints, -w.dir, w.price)
           later == IF ~cfg.stopLimitSim \/ firing = {} THEN {}
                    ELSE {i \in TouchingPrints(b.prints, w.dir, w.limit) : i > Min(firing)}
           price == Worse(w.dir, w.price, b.open)
           u == DoOpen(gone, b, w.dir, price, 0, w.live)
           t == StopEntry(s, b)
<1>1. /\ Booked(s) /\ s \in Replay /\ w.price \in Int /\ w.limit \in Int /\ w.live \in Nat /\ w.dir \in Side
      /\ s.seq \in Nat /\ s.opens \in Nat
  BY SoundTypes
<1>2. CASE w.dir = 0 \/ Holding(s) \/ ~Touching(-w.dir, w.price, Peak(w.dir, b))
  <2>1. t = s
    BY <1>2 DEF StopEntry
  <2> QED BY <2>1, LiveByNext DEF Advances
<1>3. CASE Triggered(s) /\ ~Holding(s) /\ Touching(-w.dir, w.price, Peak(w.dir, b))
  <2>1. w.dir \in Directions /\ ~Deferring(s) /\ ~Working(s) /\ ~Resting(s) /\ s.limit.rest = 0
    BY <1>1, <1>3 DEF Side, Triggered, Coherent, CommitmentsHold, RemainderHolds, Resting
  <2>2. s.opens < s.seq /\ s.touch.placed = 0 /\ w.live <= s.seq /\ s.due = 1 /\ s.pending.kind = "none"
    BY <1>3, <2>1, SoundTypes DEF Filling, LiveBy, Coherent, SignalsHold, Waits, CommitmentsHold, Deferring
  <2>3. /\ SameBooks(s, gone) /\ gone.pending = s.pending /\ gone.limit = s.limit /\ gone.trigger = NoTrigger
        /\ gone.touch = s.touch /\ gone.due = 1
    BY <1>1, <2>2, NoneTypes, TriggerSet
  <2>4. t = CASE w.limit = 0 -> u
              [] w.limit # 0 /\ later = {} -> armed
              [] OTHER -> FillLimit(early, b, later)
    BY <1>3 DEF StopEntry, Triggered
  <2>5. later \in SUBSET DOMAIN b.prints /\ (later # {} => Attainable(w.dir, w.limit, b))
    BY DEF TouchingPrints, Attainable
  <2>6. price \in Int /\ Attainable(w.dir, price, b)
    BY <1>1, <2>1, GappedFill
  <2> HIDE DEF gone, later, price, firing
  <2>7. Booked(gone) /\ ~Holding(gone) /\ ~Triggered(gone) /\ gone.seq = s.seq /\ gone.opens = s.opens /\ gone \in Replay
    BY <1>1, <1>3, <2>1, <2>3, SameBooked, NoneIsNone DEF SameBooks, Triggered, Booked
  <2>8. CASE w.limit = 0 /\ t = u
    <3>9. gone \in Replay /\ w.dir \in Directions /\ price \in Int /\ 0 \in Nat /\ w.live \in Nat
      BY <1>1, <2>1, <2>6, <2>7
    <3> HIDE DEF w
    <3>1. Opens(gone, u, b, w.dir, price, 0, w.live)
      BY <3>9, OpenMoves
    <3> USE DEF w
    <3> HIDE DEF u, t
    <3>2. Booked(u) /\ Advances(gone, u)
      BY <2>1, <2>2, <2>6, <2>7, <3>1, OpenBooked
    <3>3. /\ u.pending = s.pending /\ u.limit = s.limit /\ u.trigger = NoTrigger /\ u.touch = s.touch /\ u.due = 0
      BY <2>3, <3>1 DEF Opens, SamePhase
    <3>4. Advances(s, u)
      BY <2>2, <2>3, <2>7, <3>2 DEF Advances, SameBooks
    <3>5. ~Working(u) /\ ~Resting(u) /\ ~Deferring(u) /\ ~Triggered(u) /\ u.limit.rest = 0
      BY <2>1, <3>3, NoneIsNone DEF Working, Resting, Deferring, Triggered
    <3>6. CommitmentsHold(u) /\ RemainderHolds(u) /\ TouchHolds(u) /\ SignalsHold(u)
      BY <2>2, <3>3, <3>5 DEF CommitmentsHold, RemainderHolds, TouchHolds, SignalsHold, Waits
    <3>7. Coherent(u)
      BY <3>2, <3>6 DEF Coherent, Booked
    <3>8. Filling(u)
      BY <1>3, <3>3, <3>4, AdvanceFills
    <3> QED BY <1>3, <2>8, <3>4, <3>5, <3>7, <3>8 DEF LiveBy, t
  <2>9. /\ x \in RestingOrder /\ x.dir = w.dir /\ x.live = s.seq + 1 /\ x.rest = 0 /\ x.price = w.limit
    <3> DEFINE expires == IF cfg.validity = 0 THEN 0 ELSE s.seq + cfg.validity
    <3>1. s.seq + 1 \in Nat /\ expires \in Nat
      BY <1>1, StrategyType
    <3>2. x = [NoLimit EXCEPT !.dir = w.dir, !.price = w.limit, !.live = s.seq + 1, !.expires = expires]
      OBVIOUS
    <3> HIDE DEF x, w, expires
    <3> QED BY <1>1, <3>1, <3>2 DEF RestingOrder, NoLimit
  <2>10. early.limit = [x EXCEPT !.live = s.seq] /\ early = [gone EXCEPT !.limit = [x EXCEPT !.live = s.seq]]
    <3> HIDE DEF x
    <3>1. armed.limit = x
      BY <2>7 DEF Replay
    <3> QED BY <2>7, <3>1 DEF Replay
  <2> DEFINE y == [x EXCEPT !.live = s.seq]
  <2>11. y \in RestingOrder /\ y.dir = w.dir /\ y.live = s.seq /\ y.rest = 0 /\ y.price = w.limit
    <3> HIDE DEF x
    <3> QED BY <1>1, <2>9 DEF RestingOrder
  <2>12. ASSUME NEW z \in RestingOrder, z.dir = w.dir, z.live <= s.seq + 1, z.rest = 0,
                NEW v, v = [gone EXCEPT !.limit = z]
         PROVE  /\ Coherent(v) /\ Filling(v) /\ Resting(v) /\ v.limit = z /\ v.seq = s.seq
                /\ LiveBy(v, z.live) /\ Advances(s, v)
    <3>1. /\ SameBooks(gone, v) /\ v.pending = s.pending /\ v.limit = z /\ v.trigger = NoTrigger
          /\ v.touch = s.touch /\ v.due = 1
      BY <2>3, <2>7, <2>12, LimitSet
    <3>2. Booked(v) /\ Advances(gone, v) /\ ~Holding(v)
      BY <2>7, <2>12, <3>1, SameBooked
    <3>3. Working(v) /\ Resting(v) /\ ~Deferring(v) /\ ~Triggered(v) /\ v.limit.rest = 0
      BY <2>1, <2>12, <3>1, NoneIsNone DEF Working, Resting, Deferring, Triggered, Directions
    <3>4. CommitmentsHold(v) /\ RemainderHolds(v) /\ TouchHolds(v) /\ SignalsHold(v)
      BY <2>2, <3>1, <3>2, <3>3 DEF CommitmentsHold, RemainderHolds, TouchHolds, SignalsHold, Waits
    <3>5. Coherent(v)
      BY <3>2, <3>4 DEF Coherent, Booked
    <3>6. v.opens = s.opens /\ v.seq = s.seq /\ v.shut = s.shut
      BY <2>3, <3>1 DEF SameBooks
    <3>7. Filling(v)
      BY <2>2, <3>1, <3>6 DEF Filling
    <3>8. z.live \in Nat
      BY DEF RestingOrder
    <3>9. Advances(s, v)
      BY <2>3, <3>1 DEF SameBooks, Advances, Holding
    <3> QED BY <3>1, <3>3, <3>5, <3>6, <3>7, <3>8, <3>9 DEF LiveBy
  <2>13. CASE t = armed
    <3> HIDE DEF x, t
    <3>1. s.seq + 1 <= s.seq + 1
      BY <1>1
    <3>2. /\ Coherent(armed) /\ Filling(armed) /\ armed.seq = s.seq /\ LiveBy(armed, s.seq + 1) /\ Advances(s, armed)
      BY <2>9, <2>12, <3>1
    <3> QED BY <1>3, <2>13, <3>2 DEF t
  <2>14. CASE later # {} /\ t = FillLimit(early, b, later)
    <3> HIDE DEF x, y, t
    <3>1. s.seq <= s.seq + 1 /\ early = [gone EXCEPT !.limit = y]
      BY <1>1, <2>10 DEF y
    <3> HIDE DEF early
    <3>2. Coherent(early) /\ Filling(early) /\ Resting(early) /\ early.limit = y /\ early.seq = s.seq /\ LiveBy(early, early.seq)
          /\ Advances(s, early)
      BY <2>11, <2>12, <3>1
    <3>3. Attainable(early.limit.dir, early.limit.price, b)
      BY <2>5, <2>11, <2>14, <3>2
    <3>4. Coherent(t) /\ Filling(t) /\ LiveBy(t, t.seq) /\ Advances(early, t)
      BY <2>5, <2>14, <3>2, <3>3, FillHolds
    <3>6. ~Holding(early)
      BY <3>2 DEF Coherent, CommitmentsHold
    <3>5. Advances(s, t)
      BY <1>3, <3>2, <3>4, <3>6, SoundTypes DEF Advances
    <3> QED BY <1>3, <3>2, <3>4, <3>5, LiveByNext DEF t, Advances
  <2>15. (w.limit = 0 /\ t = u) \/ t = armed \/ (later # {} /\ t = FillLimit(early, b, later))
    <3> HIDE DEF u, armed, early, t
    <3> QED BY <2>4
  <2> HIDE DEF u, armed, early
  <2> QED BY <2>8, <2>13, <2>14, <2>15
<1> QED BY <1>2, <1>3 DEF Triggered

\* What a bar begins with, and what the fills leave.
Beginning(s) ==
  /\ Coherent(s) /\ LiveBy(s, s.seq) /\ s.opens < s.seq
  /\ s.touch.placed # 0 => Holding(s) /\ s.touch.placed < s.seq
  /\ ~s.shut

\* All the fills of what earlier bars committed.
LEMMA OpenFillsStep ==
  ASSUME cfg \in Configs, NEW s, Beginning(s), NEW b \in Bars
  PROVE  LET t == OpenFills(s, b) IN
         /\ Coherent(t) /\ Filling(t) /\ LiveBy(t, t.seq + 1) /\ t.seq = s.seq
         /\ Holding(s) => Begun(s.pos, t)
<1> DEFINE u == Deferred(s, b, TRUE)
           v == RestingLimit(u, b)
           w == Remainder(v, b)
           t == StopEntry(w, b)
<1>1. Coherent(s) /\ (Deferring(s) => s.opens < s.seq) /\ s.opens \in Nat /\ s.seq \in Nat
  BY SoundTypes DEF Beginning
<1>2. /\ Coherent(u) /\ Advances(s, u) /\ u.limit = s.limit /\ u.trigger = s.trigger /\ u.touch = s.touch
      /\ (s.pending.kind = "none" => u = s) /\ Moves(s, u)
  BY <1>1, DeferredHolds
<1> HIDE DEF u
<1>3. u.touch.placed # 0 => Holding(u)
  BY <1>1, <1>2 DEF Coherent, TouchHolds, Beginning
<1>4. Filling(u) /\ LiveBy(u, u.seq) /\ u.seq = s.seq
  BY <1>1, <1>2, <1>3 DEF Beginning, Filling, Advances, LiveBy, Working, Triggered
<1>5. Coherent(v) /\ Filling(v) /\ LiveBy(v, v.seq) /\ Advances(u, v) /\ (Holding(u) => v = u)
  BY <1>2, <1>4, RestingStep
<1> HIDE DEF v
<1>6. Coherent(w) /\ Filling(w) /\ LiveBy(w, w.seq) /\ w.seq = v.seq /\ SameProtection(v, w)
  BY <1>5, RemainderStep
<1> HIDE DEF w
<1>7. Coherent(t) /\ Filling(t) /\ LiveBy(t, t.seq + 1) /\ Advances(w, t) /\ (Holding(w) => t = w)
  BY <1>6, StopEntryStep
<1> HIDE DEF t
<1>8. t.seq = s.seq
  BY <1>4, <1>5, <1>6, <1>7 DEF Advances
<1>9. ASSUME Holding(s) PROVE Begun(s.pos, t)
  <2>1. s \in Replay /\ u \in Replay /\ v \in Replay /\ w \in Replay /\ PositionHolds(s)
    BY <1>1, <1>2, <1>5, <1>6, SoundTypes DEF Coherent
  <2>2. s.pos \in Position /\ s.pos.id # 0
    BY <1>9, <2>1 DEF Replay, Holding
  <2>3. Begun(s.pos, u)
    BY <1>2, <1>9, <2>1, FirstMove
  <2>4. Begun(s.pos, v)
    BY <1>5, <2>1, <2>2, <2>3, BegunAdvances
  <2>5. Begun(s.pos, w)
    BY <1>6, <2>4, BegunSame
  <2> QED BY <1>7, <2>1, <2>2, <2>5, BegunAdvances
<1>10. OpenFills(s, b) = t
  BY DEF OpenFills, t, u, v, w
<1> QED BY <1>7, <1>8, <1>9, <1>10

-----------------------------------------------------------------------------
(* One item: protection and exit *)

\* What an arm of the held phase leaves.
HeldResult(s, t) ==
  /\ Booked(t) /\ t.seq = s.seq /\ t.limit = s.limit /\ t.trigger = s.trigger /\ t.due = s.due
  /\ t.opens = s.opens /\ t.signal = s.signal /\ t.prev = s.prev
  /\ Holding(t) => t.pos.id = s.pos.id /\ t.pos.dir = s.pos.dir /\ t.pos.born = s.pos.born
  /\ t.pending.kind \in {"none", "exit"}
  /\ t.pending.kind = "exit" => Holding(t) /\ t.pending.at <= t.seq + 1
  /\ TouchHolds(t) /\ Kept(s, t)

\* What an arm leaves is sound, and without entries.
LEMMA HeldSound ==
  ASSUME NEW s, Coherent(s), Holding(s), NEW t, HeldResult(s, t)
  PROVE  Coherent(t) /\ ~Deferring(t) /\ ~Resting(t) /\ ~Triggered(t) /\ (~Holding(t) => t.pending.kind = "none")
<1>1. ~Deferring(s) /\ ~Resting(s) /\ ~Triggered(s)
  BY DEF Coherent, CommitmentsHold
<1>2. ~Deferring(t) /\ ~Resting(t) /\ ~Triggered(t) /\ (Working(t) <=> Working(s))
  BY <1>1 DEF HeldResult, Deferring, Resting, Triggered, Working
<1>3. CommitmentsHold(t)
  BY <1>2 DEF HeldResult, CommitmentsHold
<1>4. RemainderHolds(t)
  <2>1. s.limit.rest # 0 => (t.pos.id = s.limit.of => t.pos.dir = s.limit.dir)
    BY SoundTypes DEF Coherent, RemainderHolds, HeldResult, Holding
  <2> QED BY <1>2, <2>1 DEF Coherent, RemainderHolds, HeldResult
<1>5. SignalsHold(t)
  BY <1>1, <1>2 DEF Coherent, SignalsHold, HeldResult, Waits
<1> QED BY <1>2, <1>3, <1>4, <1>5 DEF Coherent, HeldResult, Booked

\* A nonempty choice of rules has one that comes first.
LEMMA FirstRule ==
  ASSUME NEW fired \in SUBSET Protections, fired # {}, NEW f, \A k \in fired : f[k] \in Nat
  PROVE  \E j \in fired : \A k \in fired : f[j] <= f[k]
<1> DEFINE T == {f[k] : k \in fired}
<1>1. T \subseteq Nat /\ T # {}
  OBVIOUS
<1>2. PICK x \in T : \A y \in T : x <= y
  <2> HIDE DEF T
  <2> QED BY <1>1, LeastElement
<1> QED BY <1>2

\* The rule that wins has a level.
LEMMA NearestIsFired ==
  ASSUME NEW pos, pos.entry \in Int, NEW levels, NEW rank, NEW fired \in SUBSET Protections, fired # {},
         \A k \in fired : levels[k] \in Int /\ rank[k] \in Nat
  PROVE  NearestToEntry(pos, levels, fired, rank) \in (SUBSET fired) \ {{}}
<1> DEFINE distance(k) == IF levels[k] > pos.entry THEN levels[k] - pos.entry ELSE pos.entry - levels[k]
           f == [k \in fired |-> distance(k)]
           near == {j \in fired : \A k \in fired : distance(j) <= distance(k)}
<1>1. \A k \in fired : distance(k) \in Nat /\ rank[k] \in Nat
  OBVIOUS
<1>2. near # {}
  <2>1. \A k \in fired : f[k] \in Nat
    BY <1>1
  <2>2. PICK j \in fired : \A k \in fired : f[j] <= f[k]
    <3> HIDE DEF f
    <3> QED BY <2>1, FirstRule
  <2> QED BY <2>2
<1>3. PICK j \in near : \A k \in near : rank[j] <= rank[k]
  <2>1. near \in SUBSET Protections /\ \A k \in near : rank[k] \in Nat
    BY <1>1
  <2> HIDE DEF near
  <2> QED BY <1>2, <2>1, FirstRule
<1>4. \A k \in fired : distance(j) < distance(k) \/ (distance(j) = distance(k) /\ rank[j] <= rank[k])
  <2> SUFFICES ASSUME NEW k \in fired PROVE distance(j) < distance(k) \/ (distance(j) = distance(k) /\ rank[j] <= rank[k])
    OBVIOUS
  <2>1. distance(j) <= distance(k) /\ distance(j) \in Nat /\ distance(k) \in Nat
    BY <1>1
  <2>2. CASE distance(j) = distance(k)
    <3>1. k \in near
      BY <2>2
    <3> QED BY <1>3, <2>2, <3>1
  <2> HIDE DEF distance
  <2> QED BY <2>1, <2>2
<1>5. j \in NearestToEntry(pos, levels, fired, rank)
  BY <1>4 DEF NearestToEntry
<1>6. NearestToEntry(pos, levels, fired, rank) \subseteq fired
  BY DEF NearestToEntry
<1> QED BY <1>5, <1>6

\* The rule that the prints reach first is one that fired.
LEMMA TouchedAreFired ==
  ASSUME NEW pos, NEW levels, NEW fired, NEW prints, NEW rank
  PROVE  FirstTouched(pos, levels, fired, prints, rank) \subseteq fired
BY DEF FirstTouched

\* A protection that fires closes at a price the bar traded at.
LEMMA StopIsAttainable ==
  ASSUME cfg \in Configs, NEW p \in Position, p.dir \in Directions, NEW b \in Bars
  PROVE  StopOutcome(p, b) \in Int /\ (StopOutcome(p, b) # 0 => Attainable(-p.dir, StopOutcome(p, b), b))
<1> DEFINE levels == StopLevels(p)
           enabled == {k \in DOMAIN levels : levels[k] # 0}
           fired == {k \in enabled : Touching(p.dir, levels[k], Dip(p.dir, b))}
           seen == IF cfg.resolution = "first" THEN FirstTouched(p, levels, fired, b.prints, cfg.rank) ELSE {}
           winners == CASE seen # {} -> seen
                        [] cfg.resolution = "priority" -> {j \in fired : \A k \in fired : cfg.rank[j] <= cfg.rank[k]}
                        [] OTHER -> NearestToEntry(p, levels, fired, cfg.rank)
           level == levels[CHOOSE k \in winners : TRUE]
<1>1. p.entry \in Int /\ p.stop \in Int /\ p.anchor \in Int
  BY DEF Position
<1>2. DOMAIN levels = Protections /\ \A k \in Protections : levels[k] \in Int
  <2>1. TrailLevel(p) \in Int
    BY <1>1, StrategyType DEF TrailLevel, Directions
  <2> QED BY <1>1, <2>1, StrategyType DEF StopLevels, Protections
<1>3. \A k \in Protections : cfg.rank[k] \in Nat
  BY StrategyType DEF Strategy
<1>4. fired \in SUBSET Protections
  BY <1>2
<1> HIDE DEF levels
<1>5. StopOutcome(p, b) = IF fired = {} \/ (cfg.requireAll /\ fired # enabled) THEN 0
                          ELSE AttainableStopFill(p, level, b)
  BY DEF StopOutcome, levels
<1> HIDE DEF enabled
<1>6. CASE fired # {}
  <2>1. seen \subseteq fired
    BY TouchedAreFired
  <2>2. NearestToEntry(p, levels, fired, cfg.rank) \in (SUBSET fired) \ {{}}
    <3>1. \A k \in fired : levels[k] \in Int /\ cfg.rank[k] \in Nat
      BY <1>2, <1>3, <1>4
    <3> HIDE DEF fired
    <3> QED BY <1>1, <1>4, <1>6, <3>1, NearestIsFired
  <2>3. \E j \in fired : \A k \in fired : cfg.rank[j] <= cfg.rank[k]
    <3>1. \A k \in fired : cfg.rank[k] \in Nat
      BY <1>3, <1>4
    <3> HIDE DEF fired
    <3> QED BY <1>4, <1>6, <3>1, FirstRule
  <2>4. winners \subseteq fired /\ winners # {}
    <3> HIDE DEF seen, fired
    <3> QED BY <2>1, <2>2, <2>3
  <2>5. level \in Int
    <3> HIDE DEF winners, fired
    <3>1. (CHOOSE k \in winners : TRUE) \in winners
      BY <2>4
    <3> QED BY <1>2, <1>4, <2>4, <3>1
  <2>6. -p.dir \in Directions
    BY DEF Directions
  <2> HIDE DEF level, fired
  <2>7. AttainableStopFill(p, level, b) \in Int /\ Attainable(-p.dir, AttainableStopFill(p, level, b), b)
    BY <2>5, <2>6, GappedFill DEF AttainableStopFill
  <2> QED BY <1>5, <2>7
<1>7. CASE fired = {}
  BY <1>5, <1>7
<1> QED BY <1>6, <1>7

\* The best price seen moves first.
Watched(s, b) == [s EXCEPT !.pos.anchor = Better(s.pos.dir, @, Peak(s.pos.dir, b))]

\* Watching changes nothing but that price.
LEMMA WatchedHolds ==
  ASSUME cfg \in Configs, NEW s, Coherent(s), Filling(s), Holding(s), NEW b \in Bars
  PROVE  LET h == Watched(s, b) IN
         /\ Coherent(h) /\ Filling(h) /\ Holding(h) /\ Kept(s, h) /\ SamePhase(s, h) /\ h.opens = s.opens
         /\ h.due = s.due /\ h.pos.id = s.pos.id /\ h.pos.dir = s.pos.dir /\ h.pos.born = s.pos.born
<1> DEFINE best == Better(s.pos.dir, s.pos.anchor, Peak(s.pos.dir, b))
           pos == [s.pos EXCEPT !.anchor = best]
           h == Watched(s, b)
<1>1. s \in Replay /\ s.pos \in Position /\ s.pos.anchor \in Int /\ s.pos.stop \in Int /\ s.pos.dir \in Directions
  BY SoundTypes DEF Position, Coherent, PositionHolds
<1>2. best \in Int /\ s.pos.dir * (best - s.pos.anchor) >= 0 /\ s.pos.dir * (s.pos.stop - s.pos.stop) >= 0
  BY <1>1, AtOpenOrClose DEF Better, Worse, Directions
<1>3. h = [s EXCEPT !.pos = pos]
  BY <1>1 DEF Watched, Replay
<1> HIDE DEF best, h
<1>4. /\ pos \in Position /\ pos.id = s.pos.id /\ pos.dir = s.pos.dir /\ pos.born = s.pos.born /\ pos.live = s.pos.live
      /\ pos.size = s.pos.size /\ pos.layers = s.pos.layers /\ pos.entry = s.pos.entry /\ pos.stop = s.pos.stop
      /\ pos.anchor = best
  BY <1>1, <1>2 DEF Position
<1> HIDE DEF pos
<1>5. h \in Replay
  BY <1>1, <1>3, <1>4 DEF Replay
<1>6. SamePhase(s, h) /\ h.opens = s.opens /\ h.due = s.due /\ h.units = s.units /\ h.excess = s.excess /\ h.cut = s.cut
  BY <1>1, <1>3 DEF SamePhase, Replay
<1>7. h.fair = s.fair /\ h.pos = pos
  BY <1>1, <1>3 DEF Replay
<1>8. Holding(h)
  BY <1>4, <1>7 DEF Holding
<1>9. PositionHolds(h) /\ FillsHold(h)
  BY <1>4, <1>6, <1>7, <1>8 DEF Coherent, PositionHolds, FillsHold, SamePhase
<1>10. RemainderHolds(h) /\ CommitmentsHold(h) /\ TouchHolds(h) /\ SignalsHold(h)
  BY <1>4, <1>6, <1>7, <1>8 DEF Coherent, RemainderHolds, CommitmentsHold, TouchHolds, SignalsHold, SamePhase, Working,
     Deferring, Resting, Triggered
<1>11. Coherent(h)
  BY <1>5, <1>9, <1>10 DEF Coherent
<1>12. Filling(h)
  BY <1>4, <1>6, <1>7, <1>8 DEF Filling, SamePhase
<1>13. Kept(s, h)
  BY <1>2, <1>4, <1>6, <1>7 DEF Kept
<1> QED BY <1>4, <1>6, <1>7, <1>8, <1>11, <1>12, <1>13 DEF h

\* The position is closed at once, wholly or in part.
LEMMA HeldShare ==
  ASSUME cfg \in Configs, NEW h, Coherent(h), Holding(h), NEW b \in Bars, NEW price \in Int, price # 0,
         Attainable(-h.pos.dir, price, b), NEW t, Closes(h, t, b, price) \/ Halves(h, t, b, price),
         NEW x \in Deferral, NEW y \in TouchExit, x = h.pending \/ x = NoPending, y = h.touch \/ y = NoTouch,
         x.kind = "none"
  PROVE  HeldResult(h, [t EXCEPT !.pending = x, !.touch = y])
<1> DEFINE u == [t EXCEPT !.pending = x, !.touch = y]
<1>1. Booked(h) /\ h \in Replay /\ h.touch.placed \in Nat /\ h.touch.price \in Nat
  BY SoundTypes
<1>2. Booked(t) /\ SamePhase(h, t) /\ t.due = h.due /\ t.opens = h.opens /\ t \in Replay
  BY <1>1, ShareBooked DEF Booked
<1>3. Kept(h, t) /\ (Holding(t) => t.pos.id = h.pos.id /\ t.pos.dir = h.pos.dir /\ t.pos.born = h.pos.born)
  BY <1>1, ShareKept
<1>4. SameBooks(t, u) /\ u.pending = x /\ u.touch = y /\ u.limit = t.limit /\ u.trigger = t.trigger /\ u.due = t.due
  BY <1>2 DEF SameBooks, Replay
<1> HIDE DEF u
<1>5. Booked(u) /\ (Holding(u) <=> Holding(t))
  BY <1>2, <1>4, SameBooked DEF Booked, FillsHold
<1>6. Kept(h, u)
  BY <1>3, <1>4 DEF Kept, SameBooks
<1>7. TouchHolds(u)
  <2>1. y.placed # 0 => y = h.touch
    BY NoneIsNone
  <2>2. Holding(u) => u.pos.id = h.pos.id
    BY <1>3, <1>4, <1>5 DEF SameBooks
  <2> QED BY <1>2, <1>4, <2>1, <2>2 DEF Coherent, TouchHolds, SameBooks, SamePhase
<1>8. u.pending.kind = "none"
  BY <1>4
<1> QED BY <1>2, <1>3, <1>4, <1>5, <1>6, <1>7, <1>8 DEF HeldResult, SameBooks, SamePhase, u

\* Nothing happens.
LEMMA HeldNothing ==
  ASSUME NEW h, Coherent(h), Holding(h)
  PROVE  HeldResult(h, h)
<1>1. h \in Replay /\ Booked(h) /\ h.pending.kind \in {"none", "entry", "exit"} /\ h.pending.at \in Nat
  BY SoundTypes
<1>2. Kept(h, h)
  BY <1>1, KeptSame DEF Coherent
<1>3. h.pending.kind # "entry"
  BY DEF Coherent, CommitmentsHold, Deferring
<1> QED BY <1>1, <1>2, <1>3 DEF HeldResult, Coherent, CommitmentsHold

\* The exit signal of a held position is answered, rests at its price, or waits for a bar.
LEMMA PlaceExitHolds ==
  ASSUME cfg \in Configs, NEW h, Coherent(h), Holding(h), NEW b \in Bars, ExitWanted(h, b)
  PROVE  HeldResult(h, PlaceExit(h, b))
<1> DEFINE t == PlaceExit(h, b)
           x == [kind |-> "exit", atOpen |-> cfg.exit = "next_open", at |-> h.seq + 1, dir |-> 0]
           y == [price |-> b.close, placed |-> h.seq, of |-> h.pos.id]
           u == CloseShare(h, b, b.close)
<1>1. /\ Booked(h) /\ h \in Replay /\ h.seq \in Nat /\ h.pos \in Position /\ h.pos.id \in Nat /\ h.pos.size >= 1
      /\ h.pos.dir \in Directions /\ -h.pos.dir \in Directions
  BY SoundTypes DEF Position, Coherent, PositionHolds, Directions
<1>2. h.pending.kind = "none" /\ h.touch.placed = 0
  BY DEF ExitWanted
<1>3. b.close \in Nat /\ b.close > 0 /\ Attainable(-h.pos.dir, b.close, b)
  BY <1>1, BarType, AtOpenOrClose
<1>4. CASE cfg.exit = "immediate"
  <2>1. t = u
    BY <1>4 DEF PlaceExit
  <2>2. Closes(h, u, b, b.close) \/ Halves(h, u, b, b.close)
    BY <1>1, <1>3, ShareMoves
  <2>3. u \in Replay /\ u.pending = h.pending /\ u.touch = h.touch
    BY <2>2 DEF Closes, Halves, SamePhase
  <2> HIDE DEF u, t
  <2>4. u = [u EXCEPT !.pending = h.pending, !.touch = h.touch]
    BY <2>3 DEF Replay
  <2>5. h.pending \in Deferral /\ h.touch \in TouchExit /\ b.close # 0 /\ b.close \in Int
    BY <1>1, <1>3 DEF Replay
  <2>6. HeldResult(h, [u EXCEPT !.pending = h.pending, !.touch = h.touch])
    BY <1>2, <1>3, <2>2, <2>5, HeldShare
  <2> QED BY <2>1, <2>4, <2>6 DEF t
<1>5. CASE cfg.exit = "touch"
  <2>1. t = [h EXCEPT !.touch = y]
    BY <1>5 DEF PlaceExit
  <2>2. y \in TouchExit /\ y.price = b.close /\ y.placed = h.seq /\ y.of = h.pos.id
    BY <1>1, <1>3 DEF TouchExit
  <2> HIDE DEF y, t
  <2>3. /\ SameBooks(h, t) /\ t.pending = h.pending /\ t.limit = h.limit /\ t.trigger = h.trigger
        /\ t.touch = y /\ t.due = h.due
    BY <1>1, <2>1, <2>2, TouchSet
  <2>4. Booked(t) /\ (Holding(t) <=> Holding(h))
    BY <1>1, <2>3, SameBooked DEF Booked, FillsHold
  <2>5. TouchHolds(t)
    BY <1>1, <1>2, <1>3, <2>2, <2>3 DEF TouchHolds, SameBooks
  <2>6. Kept(h, t)
    BY <1>1, <2>3, KeptSame DEF SameBooks, Booked
  <2> QED BY <1>2, <2>3, <2>4, <2>5, <2>6 DEF HeldResult, SameBooks, t
<1>6. CASE cfg.exit # "immediate" /\ cfg.exit # "touch"
  <2>1. t = [h EXCEPT !.pending = x]
    BY <1>6 DEF PlaceExit
  <2>2. x \in Deferral /\ x.kind = "exit" /\ x.at = h.seq + 1
    BY <1>1 DEF Deferral, Side
  <2> HIDE DEF x, t
  <2>3. /\ SameBooks(h, t) /\ t.pending = x /\ t.limit = h.limit /\ t.trigger = h.trigger
        /\ t.touch = h.touch /\ t.due = h.due
    BY <1>1, <2>1, <2>2, PendingSet
  <2>4. Booked(t) /\ (Holding(t) <=> Holding(h))
    BY <1>1, <2>3, SameBooked DEF Booked, FillsHold
  <2>5. TouchHolds(t)
    BY <1>2, <2>3 DEF TouchHolds
  <2>6. Kept(h, t)
    BY <1>1, <2>3, KeptSame DEF SameBooks, Booked
  <2>7. t.pending.kind = "exit" /\ t.pending.at <= t.seq + 1
    BY <1>1, <2>2, <2>3 DEF SameBooks
  <2> QED BY <2>3, <2>4, <2>5, <2>6, <2>7 DEF HeldResult, SameBooks, t
<1> QED BY <1>4, <1>5, <1>6

\* A resting exit closes at its price, if the bar traded there.
LEMMA TouchExitAttainable ==
  ASSUME NEW h, NEW b, TouchExitReached(h, b)
  PROVE  Attainable(-h.pos.dir, h.touch.price, b)
BY DEF TouchExitReached, Attainable

\* Every arm of the held phase.
LEMMA HeldArm ==
  ASSUME cfg \in Configs, NEW h, Coherent(h), Holding(h), NEW b \in Bars
  PROVE  LET stop == StopOutcome(h.pos, b)
             preferred == cfg.stopExit = "exit_has_priority" /\ cfg.exit = "immediate" /\ ExitWanted(h, b)
             t == CASE stop # 0 /\ preferred -> Close(h, b, b.close)
                    [] stop # 0 /\ ~preferred -> [Close(h, b, stop) EXCEPT !.pending = NoPending]
                    [] stop = 0 /\ h.touch.placed # 0 /\ h.seq > h.touch.placed ->
                         IF TouchExitReached(h, b) THEN [CloseShare(h, b, h.touch.price) EXCEPT !.touch = NoTouch]
                         ELSE h
                    [] stop = 0 /\ ExitWanted(h, b) -> PlaceExit(h, b)
                    [] OTHER -> h
         IN  HeldResult(h, t)
<1> DEFINE stop == StopOutcome(h.pos, b)
           preferred == cfg.stopExit = "exit_has_priority" /\ cfg.exit = "immediate" /\ ExitWanted(h, b)
           u == Close(h, b, b.close)
           v == Close(h, b, stop)
           w == CloseShare(h, b, h.touch.price)
           t == CASE stop # 0 /\ preferred -> u
                  [] stop # 0 /\ ~preferred -> [v EXCEPT !.pending = NoPending]
                  [] stop = 0 /\ h.touch.placed # 0 /\ h.seq > h.touch.placed ->
                       IF TouchExitReached(h, b) THEN [w EXCEPT !.touch = NoTouch] ELSE h
                  [] stop = 0 /\ ExitWanted(h, b) -> PlaceExit(h, b)
                  [] OTHER -> h
<1>1. /\ Booked(h) /\ h \in Replay /\ h.seq \in Nat /\ h.pos \in Position /\ h.pos.size >= 1
      /\ h.pos.dir \in Directions /\ -h.pos.dir \in Directions /\ h.pending \in Deferral /\ h.touch \in TouchExit
      /\ h.touch.price \in Nat
  BY SoundTypes DEF Coherent, PositionHolds, Directions
<1>2. b.close \in Int /\ b.close # 0 /\ Attainable(-h.pos.dir, b.close, b)
  BY <1>1, BarType, AtOpenOrClose
<1>3. stop \in Int /\ (stop # 0 => Attainable(-h.pos.dir, stop, b))
  BY <1>1, StopIsAttainable
<1>4. NoPending \in Deferral /\ NoTouch \in TouchExit /\ NoPending.kind = "none"
  BY NoneTypes, NoneIsNone
<1> HIDE DEF stop
<1>5. Closes(h, u, b, b.close) /\ Closes(h, v, b, stop)
  BY <1>1, <1>2, <1>3, CloseMoves
<1>6. Closes(h, w, b, h.touch.price) \/ Halves(h, w, b, h.touch.price)
  BY <1>1, ShareMoves
<1> HIDE DEF u, v, w
<1>7. preferred => HeldResult(h, u)
  <2> SUFFICES ASSUME preferred PROVE HeldResult(h, u)
    OBVIOUS
  <2>1. h.pending.kind = "none"
    BY DEF ExitWanted
  <2>2. u = [u EXCEPT !.pending = h.pending, !.touch = h.touch]
    BY <1>5 DEF Closes, SamePhase, Replay
  <2>3. HeldResult(h, [u EXCEPT !.pending = h.pending, !.touch = h.touch])
    BY <1>1, <1>2, <1>5, <2>1, HeldShare
  <2> QED BY <2>2, <2>3
<1>8. stop # 0 => HeldResult(h, [v EXCEPT !.pending = NoPending])
  <2> SUFFICES ASSUME stop # 0 PROVE HeldResult(h, [v EXCEPT !.pending = NoPending])
    OBVIOUS
  <2>1. [v EXCEPT !.pending = NoPending] = [v EXCEPT !.pending = NoPending, !.touch = h.touch]
    BY <1>5 DEF Closes, SamePhase, Replay
  <2>2. HeldResult(h, [v EXCEPT !.pending = NoPending, !.touch = h.touch])
    BY <1>1, <1>3, <1>4, <1>5, HeldShare
  <2> QED BY <2>1, <2>2
<1>9. h.touch.placed # 0 /\ TouchExitReached(h, b) => HeldResult(h, [w EXCEPT !.touch = NoTouch])
  <2> SUFFICES ASSUME h.touch.placed # 0, TouchExitReached(h, b) PROVE HeldResult(h, [w EXCEPT !.touch = NoTouch])
    OBVIOUS
  <2>1. h.pending.kind = "none" /\ h.touch.price > 0
    BY DEF Coherent, TouchHolds
  <2>2. [w EXCEPT !.touch = NoTouch] = [w EXCEPT !.pending = h.pending, !.touch = NoTouch]
    BY <1>6 DEF Closes, Halves, SamePhase, Replay
  <2>3. Attainable(-h.pos.dir, h.touch.price, b) /\ h.touch.price # 0 /\ h.touch.price \in Int
    BY <1>1, <2>1, TouchExitAttainable
  <2>4. HeldResult(h, [w EXCEPT !.pending = h.pending, !.touch = NoTouch])
    BY <1>1, <1>4, <1>6, <2>1, <2>3, HeldShare
  <2> QED BY <2>2, <2>4
<1>10. ExitWanted(h, b) => HeldResult(h, PlaceExit(h, b))
  BY PlaceExitHolds
<1>11. HeldResult(h, h)
  BY HeldNothing
<1>12. HeldResult(h, t)
  <2>1. \/ stop # 0 /\ preferred /\ t = u
        \/ stop # 0 /\ t = [v EXCEPT !.pending = NoPending]
        \/ h.touch.placed # 0 /\ TouchExitReached(h, b) /\ t = [w EXCEPT !.touch = NoTouch]
        \/ ExitWanted(h, b) /\ t = PlaceExit(h, b)
        \/ t = h
    <3> HIDE DEF preferred
    <3> QED OBVIOUS
  <2> HIDE DEF t, preferred
  <2> QED BY <1>7, <1>8, <1>9, <1>10, <1>11, <2>1
<1> QED BY <1>12 DEF stop, u, v, w

\* The held phase, whichever arm it takes.
LEMMA HeldStep ==
  ASSUME cfg \in Configs, NEW s, Coherent(s), Filling(s), Holding(s), LiveBy(s, s.seq + 1), NEW b \in Bars
  PROVE  LET t == HeldPhase(s, b) IN
         Coherent(t) /\ Tailing(t) /\ LiveBy(t, t.seq + 1) /\ t.seq = s.seq /\ t.opens = s.opens /\ Kept(s, t)
           /\ (Holding(t) => t.pos.id = s.pos.id)
<1> DEFINE h == Watched(s, b)
           stop == StopOutcome(h.pos, b)
           preferred == cfg.stopExit = "exit_has_priority" /\ cfg.exit = "immediate" /\ ExitWanted(h, b)
           u == CASE stop # 0 /\ preferred -> Close(h, b, b.close)
                  [] stop # 0 /\ ~preferred -> [Close(h, b, stop) EXCEPT !.pending = NoPending]
                  [] stop = 0 /\ h.touch.placed # 0 /\ h.seq > h.touch.placed ->
                       IF TouchExitReached(h, b) THEN [CloseShare(h, b, h.touch.price) EXCEPT !.touch = NoTouch]
                       ELSE h
                  [] stop = 0 /\ ExitWanted(h, b) -> PlaceExit(h, b)
                  [] OTHER -> h
           t == HeldPhase(s, b)
<1>1. /\ Coherent(h) /\ Filling(h) /\ Holding(h) /\ Kept(s, h) /\ SamePhase(s, h) /\ h.opens = s.opens
      /\ h.due = s.due /\ h.pos.id = s.pos.id /\ h.pos.dir = s.pos.dir /\ h.pos.born = s.pos.born
  BY WatchedHolds
<1>2. t = [u EXCEPT !.shut = ~Holding(u)]
  BY DEF HeldPhase, Watched
<1> HIDE DEF h
<1>3. HeldResult(h, u)
  BY <1>1, HeldArm
<1> HIDE DEF u, t
<1>4. /\ Coherent(u) /\ ~Deferring(u) /\ ~Resting(u) /\ ~Triggered(u) /\ (~Holding(u) => u.pending.kind = "none")
  BY <1>1, <1>3, HeldSound
<1>5. u \in Replay /\ s \in Replay /\ h \in Replay
  BY <1>1, <1>4, SoundTypes
<1>6. /\ t \in Replay /\ t.seq = u.seq /\ t.opens = u.opens /\ t.pos = u.pos /\ t.pending = u.pending
      /\ t.limit = u.limit /\ t.trigger = u.trigger /\ t.touch = u.touch
      /\ t.due = u.due /\ t.cut = u.cut /\ t.units = u.units /\ t.excess = u.excess
  BY <1>2, <1>5 DEF Replay
<1>7. t.shut = ~Holding(u) /\ t.fair = u.fair
  BY <1>2, <1>5 DEF Replay
<1>8. (Holding(t) <=> Holding(u)) /\ ~Deferring(t) /\ ~Resting(t) /\ ~Triggered(t) /\ (Working(t) <=> Working(u))
  BY <1>4, <1>6 DEF Holding, Deferring, Resting, Triggered, Working
<1>9. PositionHolds(t) /\ FillsHold(t) /\ RemainderHolds(t)
  BY <1>4, <1>6, <1>7, <1>8 DEF Coherent, PositionHolds, FillsHold, RemainderHolds
<1>10. CommitmentsHold(t) /\ TouchHolds(t) /\ SignalsHold(t)
  BY <1>4, <1>6, <1>8 DEF Coherent, CommitmentsHold, TouchHolds, SignalsHold, Waits
<1>11. Coherent(t)
  BY <1>6, <1>9, <1>10 DEF Coherent
<1>12. t.seq = s.seq /\ t.opens = s.opens /\ t.limit = s.limit /\ t.trigger = s.trigger
  BY <1>1, <1>3, <1>6 DEF HeldResult, SamePhase
<1>13. Tailing(t)
  <2>1. EndsFlat(t)
    BY <1>4, <1>6, <1>7, <1>8 DEF EndsFlat
  <2>2. s.opens < s.seq \/ (s.opens = s.seq /\ s.pos.born = s.seq)
    BY DEF Filling
  <2>3. Holding(t) => t.pos.born = s.pos.born
    BY <1>1, <1>3, <1>6, <1>8 DEF HeldResult
  <2> QED BY <1>8, <1>12, <2>1, <2>2, <2>3 DEF Tailing
<1>14. LiveBy(t, t.seq + 1)
  BY <1>12 DEF LiveBy, Working, Triggered
<1>15. Kept(s, t)
  <2>1. Kept(s, u)
    <3>1. Kept(h, u) /\ (u.pos.id # 0 => Holding(h)) /\ (Holding(h) => h.pos.id = s.pos.id) /\ PositionHolds(s)
      BY <1>1, <1>3 DEF HeldResult, Coherent
    <3> QED BY <1>1, <1>5, <3>1, KeptTwice
  <2> QED BY <1>6, <2>1 DEF Kept
<1>16. Holding(t) => t.pos.id = s.pos.id
  BY <1>1, <1>3, <1>6, <1>8 DEF HeldResult
<1> QED BY <1>11, <1>12, <1>13, <1>14, <1>15, <1>16 DEF t

-----------------------------------------------------------------------------
(* One item: a fresh entry *)

\* An order placed on the signal of a bar may not fill before the next one.
LEMMA NewLimitIs ==
  ASSUME cfg \in Configs, NEW s \in Replay, NEW price \in Int
  PROVE  LET x == NewLimit(s, price) IN
         x \in RestingOrder /\ x.dir = s.signal /\ x.live = s.seq + 1 /\ x.rest = 0
<1> DEFINE expires == IF cfg.validity = 0 THEN 0 ELSE s.seq + cfg.validity
           x == NewLimit(s, price)
<1>1. s.seq + 1 \in Nat /\ expires \in Nat /\ s.signal \in Side
  BY StrategyType DEF Replay
<1>2. x = [NoLimit EXCEPT !.dir = s.signal, !.price = price, !.live = s.seq + 1, !.expires = expires]
  BY DEF NewLimit
<1> HIDE DEF x, expires
<1>3. x \in RestingOrder /\ x.dir = s.signal /\ x.live = s.seq + 1 /\ x.rest = 0
  BY <1>1, <1>2 DEF RestingOrder, NoLimit
<1> QED BY <1>3 DEF x

\* A flat and uncommitted replay commits itself once, or opens.
LEMMA PlaceEntryHolds ==
  ASSUME cfg \in Configs, NEW s, Coherent(s), Filling(s), ~Holding(s), NEW b \in Bars, EntryWanted(s, b)
  PROVE  LET t == PlaceEntry(s, b) IN Coherent(t) /\ Tailing(t) /\ LiveBy(t, t.seq + 1) /\ Advances(s, t)
<1> DEFINE u == [s EXCEPT !.due = s.due + 1]
           v == DoOpen(u, b, s.signal, b.close, 0, s.seq)
           w == [dir |-> s.signal, price |-> LimitPrice(b.close, cfg.activation), live |-> s.seq + 1,
                 limit |-> IF cfg.order = "stop" THEN 0 ELSE LimitPrice(b.close, cfg.offset)]
           x == [kind |-> "entry", atOpen |-> cfg.entry = "next_open", at |-> s.seq + 1, dir |-> s.signal]
           t == PlaceEntry(s, b)
<1>1. /\ Booked(s) /\ s \in Replay /\ s.seq \in Nat /\ s.opens \in Nat /\ s.signal \in Directions
      /\ b.close \in Int /\ cfg.offset \in Int /\ cfg.activation \in Int
  BY SoundTypes, StrategyType, BarType DEF EntryWanted
<1>2. /\ s.pending.kind = "none" /\ s.trigger.dir = 0 /\ s.limit.dir = 0 /\ s.limit.rest = 0 /\ ~s.shut
      /\ s.opens < s.seq /\ s.touch.placed = 0
  BY DEF EntryWanted, Uncommitted, Working, Filling, Coherent, RemainderHolds
<1>3. s.due = 0
  BY <1>2 DEF Coherent, SignalsHold, Waits, Deferring, Resting, Working, Triggered
<1>4. u = [s EXCEPT !.due = 1]
  BY <1>3
<1> HIDE DEF u
<1>5. /\ SameBooks(s, u) /\ u.pending = s.pending /\ u.limit = s.limit /\ u.trigger = s.trigger
      /\ u.touch = s.touch /\ u.due = 1
  BY <1>1, <1>4, DueSet
<1>6. Booked(u) /\ ~Holding(u) /\ u \in Replay /\ u.seq = s.seq /\ u.opens = s.opens /\ u.signal = s.signal
      /\ u.shut = s.shut /\ u.prev = s.prev
  BY <1>1, <1>2, <1>5, SameBooked DEF SameBooks
\* One of its three waiting forms.
<1>7. ASSUME NEW y, SameBooks(u, y), y.touch = u.touch, y.due = 1,
             \/ y.pending = s.pending /\ y.limit = s.limit /\ y.trigger.dir = s.signal /\ y.trigger.live = s.seq + 1
             \/ /\ y.pending = s.pending /\ y.limit.dir = s.signal /\ y.limit.live = s.seq + 1 /\ y.limit.rest = 0
                /\ y.trigger = s.trigger
             \/ y.pending = x /\ y.limit = s.limit /\ y.trigger = s.trigger
      PROVE  Coherent(y) /\ Tailing(y) /\ LiveBy(y, y.seq + 1) /\ Advances(s, y)
  <2>1. Booked(y) /\ ~Holding(y) /\ Advances(u, y) /\ y.seq = s.seq /\ y.opens = s.opens /\ y.shut = s.shut
        /\ y.limit.rest = 0
    BY <1>2, <1>6, <1>7, SameBooked DEF SameBooks
  <2>2. x.kind = "entry" /\ x.dir = s.signal /\ x.at = s.seq + 1
    OBVIOUS
  <2> HIDE DEF x
  <2>3. y.touch.placed = 0 /\ y.due = 1
    BY <1>2, <1>5, <1>7
  <2>4. CommitmentsHold(y)
    BY <1>1, <1>2, <1>7, <2>1, <2>2 DEF CommitmentsHold, Deferring, Resting, Working, Triggered, Directions
  <2>5. SignalsHold(y)
    BY <1>1, <1>2, <1>7, <2>1, <2>2, <2>3 DEF SignalsHold, Waits, Deferring, Resting, Working, Triggered, Directions
  <2>6. Coherent(y)
    BY <2>1, <2>3, <2>4, <2>5 DEF Coherent, Booked, RemainderHolds, TouchHolds
  <2>7. Tailing(y)
    BY <1>2, <2>1 DEF Tailing, EndsFlat
  <2>8. LiveBy(y, y.seq + 1)
    BY <1>1, <1>2, <1>7, <2>1 DEF LiveBy, Working, Triggered
  <2>9. Advances(s, y)
    BY <1>6, <2>1 DEF Advances
  <2> QED BY <2>6, <2>7, <2>8, <2>9
<1>8. ASSUME NEW price \in Int, t = [u EXCEPT !.limit = NewLimit(s, price)]
      PROVE  Coherent(t) /\ Tailing(t) /\ LiveBy(t, t.seq + 1) /\ Advances(s, t)
  <2> DEFINE y == NewLimit(s, price)
  <2>1. y \in RestingOrder /\ y.dir = s.signal /\ y.live = s.seq + 1 /\ y.rest = 0
    BY <1>1, NewLimitIs
  <2> HIDE DEF y, t
  <2>2. /\ SameBooks(u, t) /\ t.pending = u.pending /\ t.limit = y /\ t.trigger = u.trigger
        /\ t.touch = u.touch /\ t.due = u.due
    BY <1>6, <1>8, <2>1, LimitSet DEF y
  <2> QED BY <1>5, <1>7, <2>1, <2>2
<1>9. CASE cfg.order = "limit"
  <2>1. t = [u EXCEPT !.limit = NewLimit(s, LimitPrice(b.close, cfg.offset))]
    BY <1>9 DEF PlaceEntry, u
  <2>2. LimitPrice(b.close, cfg.offset) \in Int
    BY <1>1 DEF LimitPrice
  <2> QED BY <1>8, <2>1, <2>2
<1>10. CASE cfg.order \in {"stop", "stop_limit"}
  <2>1. t = [u EXCEPT !.trigger = w]
    BY <1>10 DEF PlaceEntry, u
  <2>2. w \in EntryStop /\ w.dir = s.signal /\ w.live = s.seq + 1
    BY <1>1 DEF EntryStop, LimitPrice, Side
  <2> HIDE DEF w, t
  <2>3. /\ SameBooks(u, t) /\ t.pending = u.pending /\ t.limit = u.limit /\ t.trigger = w
        /\ t.touch = u.touch /\ t.due = u.due
    BY <1>6, <2>1, <2>2, TriggerSet
  <2>4. Coherent(t) /\ Tailing(t) /\ LiveBy(t, t.seq + 1) /\ Advances(s, t)
    BY <1>5, <1>7, <2>2, <2>3
  <2> QED BY <2>4 DEF t
<1>11. CASE cfg.order = "market" /\ cfg.entry = "touch"
  <2>1. t = [u EXCEPT !.limit = NewLimit(s, b.close)]
    BY <1>11 DEF PlaceEntry, u
  <2> QED BY <1>1, <1>8, <2>1
<1>12. CASE cfg.order = "market" /\ cfg.entry = "immediate"
  <2>1. t = v
    BY <1>12 DEF PlaceEntry, u
  <2>2. Opens(u, v, b, s.signal, b.close, 0, s.seq) /\ Attainable(s.signal, b.close, b)
    BY <1>1, <1>6, OpenMoves, AtOpenOrClose
  <2> HIDE DEF v, t
  <2>3. Booked(v) /\ Advances(u, v)
    BY <1>1, <1>2, <1>6, <2>2, OpenBooked
  <2>4. /\ v.pending = s.pending /\ v.limit = s.limit /\ v.trigger = s.trigger /\ v.touch = s.touch /\ v.due = 0
        /\ v.shut = s.shut
    BY <1>5, <1>6, <2>2 DEF Opens, SamePhase
  <2>5. Advances(s, v)
    BY <1>5, <1>6, <2>3 DEF Advances, SameBooks, Holding
  <2>6. CommitmentsHold(v) /\ RemainderHolds(v) /\ TouchHolds(v) /\ SignalsHold(v)
    BY <1>2, <2>4 DEF CommitmentsHold, RemainderHolds, TouchHolds, SignalsHold, Waits, Deferring, Resting, Working,
       Triggered
  <2>7. Coherent(v)
    BY <2>3, <2>6 DEF Coherent, Booked
  <2>8. Tailing(v)
    BY <1>1, <1>2, <2>4, <2>5 DEF Tailing, EndsFlat, Advances, Deferring
  <2>9. LiveBy(v, v.seq + 1)
    BY <1>2, <2>4 DEF LiveBy, Working, Triggered
  <2> QED BY <2>1, <2>5, <2>7, <2>8, <2>9 DEF t
<1>13. CASE cfg.order = "market" /\ cfg.entry # "touch" /\ cfg.entry # "immediate"
  <2>1. t = [u EXCEPT !.pending = x]
    BY <1>13 DEF PlaceEntry, u
  <2>2. x \in Deferral
    BY <1>1 DEF Deferral, Side
  <2>3. /\ SameBooks(u, t) /\ t.pending = x /\ t.limit = u.limit /\ t.trigger = u.trigger
        /\ t.touch = u.touch /\ t.due = u.due
    <3> HIDE DEF x, t
    <3> QED BY <1>6, <2>1, <2>2, PendingSet
  <2> HIDE DEF t
  <2>4. Coherent(t) /\ Tailing(t) /\ LiveBy(t, t.seq + 1) /\ Advances(s, t)
    BY <1>5, <1>7, <2>3
  <2> QED BY <2>4 DEF t
<1>14. cfg.order \in {"market", "limit", "stop", "stop_limit"}
  BY StrategyType DEF Strategy
<1> QED BY <1>9, <1>10, <1>11, <1>12, <1>13, <1>14

\* The entry phase, whether or not it places an order.
LEMMA EntryStep ==
  ASSUME cfg \in Configs, NEW s, Coherent(s), Filling(s), ~Holding(s), LiveBy(s, s.seq + 1), NEW b \in Bars
  PROVE  LET t == EntryPhase(s, b) IN Coherent(t) /\ Tailing(t) /\ LiveBy(t, t.seq + 1) /\ Advances(s, t)
<1>1. CASE EntryWanted(s, b)
  BY <1>1, PlaceEntryHolds DEF EntryPhase
<1>2. CASE ~EntryWanted(s, b)
  BY <1>2 DEF EntryPhase, Filling, Tailing, EndsFlat, Advances
<1> QED BY <1>1, <1>2

-----------------------------------------------------------------------------
(* One item: the tail of a bar *)

\* What every operation of the tail leaves.
TailResult(s, t) ==
  Coherent(t) /\ Tailing(t) /\ LiveBy(t, t.seq + 1) /\ t.seq = s.seq /\ Moves(s, t)

\* A fill deferred to the close.
LEMMA DeferredTail ==
  ASSUME cfg \in Configs, NEW s, Coherent(s), Tailing(s), LiveBy(s, s.seq + 1), NEW b \in Bars
  PROVE  TailResult(s, Deferred(s, b, FALSE))
<1> DEFINE t == Deferred(s, b, FALSE)
<1>1. s.seq \in Nat /\ s.opens \in Nat /\ (Deferring(s) => s.opens < s.seq)
  BY SoundTypes DEF Tailing
<1>2. /\ Coherent(t) /\ Advances(s, t) /\ t.limit = s.limit /\ t.trigger = s.trigger /\ t.touch = s.touch
      /\ t.pending = s.pending \/ t.pending = NoPending
      /\ s.pending.kind = "none" \/ s.pending.at # s.seq => t = s
      /\ Moves(s, t)
  BY <1>1, DeferredHolds
<1> HIDE DEF t
<1>3. LiveBy(t, t.seq + 1)
  BY <1>2 DEF LiveBy, Advances, Working, Triggered
<1>4. EndsFlat(t)
  BY <1>2 DEF Tailing, EndsFlat, Advances
<1>5. Tailing(t)
  <2>1. Deferring(t) => Deferring(s) /\ ~Holding(t)
    BY <1>2, NoneIsNone DEF Deferring, Coherent, CommitmentsHold
  <2> QED BY <1>1, <1>2, <1>4, <2>1 DEF Tailing, Advances
<1> QED BY <1>2, <1>3, <1>5 DEF TailResult, Advances, t

\* Only the position is written: its reference, or the count of its layers.
LEMMA PositionSet ==
  ASSUME cfg \in Configs, NEW s, Coherent(s), Tailing(s), LiveBy(s, s.seq + 1), Holding(s),
         NEW p \in Position, p.id = s.pos.id, p.born = s.pos.born, p.live = s.pos.live, p.dir = s.pos.dir,
         p.size = s.pos.size, p.stop = s.pos.stop, p.anchor = s.pos.anchor, p.layers <= cfg.maxLayers
  PROVE  LET t == [s EXCEPT !.pos = p] IN
         /\ Coherent(t) /\ Tailing(t) /\ LiveBy(t, t.seq + 1) /\ Holding(t)
         /\ t.pos = p /\ t.seq = s.seq /\ t.opens = s.opens /\ t.cut = s.cut
<1> DEFINE t == [s EXCEPT !.pos = p]
<1>1. s \in Replay
  BY SoundTypes
<1>2. t \in Replay /\ t.pos = p
  BY <1>1 DEF Replay
<1>3. SamePhase(s, t) /\ t.opens = s.opens /\ t.due = s.due /\ t.units = s.units /\ t.excess = s.excess /\ t.cut = s.cut
  BY <1>1 DEF SamePhase, Replay
<1>4. t.fair = s.fair
  BY <1>1 DEF Replay
<1> HIDE DEF t
<1>5. Holding(t)
  BY <1>2 DEF Holding
<1>6. PositionHolds(t) /\ FillsHold(t)
  BY <1>2, <1>3, <1>4, <1>5 DEF Coherent, PositionHolds, FillsHold, SamePhase
<1>7. RemainderHolds(t) /\ CommitmentsHold(t) /\ TouchHolds(t) /\ SignalsHold(t)
  BY <1>2, <1>3, <1>5 DEF Coherent, RemainderHolds, CommitmentsHold, TouchHolds, SignalsHold, SamePhase, Working,
     Deferring, Resting, Triggered
<1>8. Coherent(t)
  BY <1>2, <1>6, <1>7 DEF Coherent
<1>9. Tailing(t) /\ LiveBy(t, t.seq + 1)
  BY <1>2, <1>3, <1>5 DEF Tailing, EndsFlat, LiveBy, SamePhase, Deferring, Working, Triggered
<1> QED BY <1>2, <1>3, <1>5, <1>8, <1>9 DEF SamePhase, t

\* A lot under the cap of the bar, on a position that the bar has not cut.
LEMMA GrowTail ==
  ASSUME cfg \in Configs, NEW s, Coherent(s), Tailing(s), LiveBy(s, s.seq + 1), Holding(s), ~s.cut, NEW b \in Bars,
         NEW add \in Nat, Accepted(s, b, add)
  PROVE  LET t == Grow(s, b, b.close, add) IN
         TailResult(s, t) /\ Holding(t) /\ t.pos.layers = s.pos.layers /\ t.pos.id = s.pos.id
           /\ t.opens = s.opens /\ Grown(s, t)
<1> DEFINE t == Grow(s, b, b.close, add)
<1>1. /\ Booked(s) /\ s \in Replay /\ s.pos.dir \in Directions /\ s.pos.size >= 1 /\ s.pos.size \in Int /\ b.close \in Int
      /\ Attainable(s.pos.dir, b.close, b) /\ b.room \in Int
  <2>1. Booked(s) /\ s \in Replay /\ s.pos.dir \in Directions /\ s.pos.size >= 1
    BY SoundTypes DEF Coherent, PositionHolds
  <2>2. s.pos.size \in Int
    BY <2>1 DEF Replay, Position
  <2> QED BY <2>1, <2>2, BarType, AtOpenOrClose
<1>2. Grows(s, t, b, b.close, add)
  BY <1>1, GrowMoves
<1> HIDE DEF t
<1>3. s.pos.size + add <= b.room
  BY <1>1 DEF Accepted
<1>4. Booked(t) /\ Advances(s, t) /\ Holding(t)
  BY <1>1, <1>2, <1>3, GrowBooked
<1>5. /\ SamePhase(s, t) /\ t.opens = s.opens /\ t.due = s.due /\ t.pos.id = s.pos.id /\ t.pos.dir = s.pos.dir
      /\ t.pos.born = s.pos.born /\ t.pos.layers = s.pos.layers
  BY <1>2 DEF Grows
<1>6. RemainderHolds(t) /\ CommitmentsHold(t) /\ TouchHolds(t) /\ SignalsHold(t)
  BY <1>4, <1>5 DEF Coherent, RemainderHolds, CommitmentsHold, TouchHolds, SignalsHold, SamePhase, Working,
     Deferring, Resting, Triggered
<1>7. Coherent(t)
  BY <1>4, <1>6 DEF Coherent, Booked
<1>8. Tailing(t) /\ LiveBy(t, t.seq + 1)
  BY <1>4, <1>5 DEF Tailing, EndsFlat, LiveBy, SamePhase, Deferring, Working, Triggered
<1>9. Grown(s, t)
  BY <1>2 DEF Grows, Grown
<1>10. Moves(s, t)
  BY <1>1, <1>4, <1>5, <1>9 DEF Moves, Replay
<1> QED BY <1>4, <1>5, <1>7, <1>8, <1>9, <1>10 DEF TailResult, SamePhase, t

\* The position is closed at the close, and nothing waits.
LEMMA CloseTail ==
  ASSUME cfg \in Configs, NEW s, Coherent(s), Tailing(s), LiveBy(s, s.seq + 1), Holding(s), s.pending.kind = "none",
         NEW b \in Bars
  PROVE  TailResult(s, Close(s, b, b.close))
<1> DEFINE t == Close(s, b, b.close)
<1>1. /\ s \in Replay /\ s.pos.dir \in Directions /\ -s.pos.dir \in Directions /\ b.close \in Int /\ b.close # 0
      /\ s.pending \in Deferral /\ s.touch \in TouchExit /\ s.seq \in Nat /\ s.opens \in Nat
  BY SoundTypes, BarType DEF Coherent, PositionHolds, Directions
<1>2. Closes(s, t, b, b.close) /\ Attainable(-s.pos.dir, b.close, b)
  BY <1>1, CloseMoves, AtOpenOrClose
<1> HIDE DEF t
<1>3. t = [t EXCEPT !.pending = s.pending, !.touch = s.touch]
  BY <1>2 DEF Closes, SamePhase, Replay
<1>4. HeldResult(s, [t EXCEPT !.pending = s.pending, !.touch = s.touch])
  BY <1>1, <1>2, HeldShare
<1>5. HeldResult(s, t)
  BY <1>3, <1>4
<1>6. Coherent(t) /\ ~Holding(t)
  BY <1>2, <1>5, HeldSound, NoneIsNone DEF Closes, Holding
<1>7. t.opens = s.opens /\ t.seq = s.seq /\ t.limit = s.limit /\ t.trigger = s.trigger /\ t.pending = s.pending /\ ~s.shut
      /\ t.shut = s.shut
  BY <1>2 DEF Closes, SamePhase, Tailing, EndsFlat
<1>8. Tailing(t) /\ LiveBy(t, t.seq + 1)
  BY <1>1, <1>6, <1>7 DEF Tailing, EndsFlat, LiveBy, Deferring, Working, Triggered
<1>9. Moves(s, t)
  BY <1>1, <1>6, <1>7 DEF Moves
<1> QED BY <1>6, <1>7, <1>8, <1>9 DEF TailResult, t

\* The position of an earlier bar makes way for a fresh one.
LEMMA ReplaceTail ==
  ASSUME cfg \in Configs, NEW s, Coherent(s), Tailing(s), LiveBy(s, s.seq + 1), Holding(s), s.pos.born # s.seq,
         s.pending.kind = "none", s.signal # 0, cfg.stacking = "replace", NEW b \in Bars
  PROVE  TailResult(s, Replace(s, b))
<1> DEFINE u == [s EXCEPT !.due = s.due + 1]
           v == Close(u, b, b.close)
           t == DoOpen(v, b, s.signal, b.close, 0, s.seq)
<1>1. /\ Booked(s) /\ s \in Replay /\ s.seq \in Nat /\ s.opens \in Nat /\ s.signal \in Directions /\ s.due \in Int
      /\ s.pos.dir \in Directions /\ -s.pos.dir \in Directions /\ b.close \in Int
      /\ s.limit.of \in Nat /\ s.touch.placed \in Nat
  BY SoundTypes, BarType DEF Coherent, PositionHolds, Directions, Side
<1>2. s.opens < s.seq /\ ~s.shut /\ ~Resting(s) /\ ~Triggered(s) /\ ~Deferring(s) /\ s.due = 0
  BY <1>1 DEF Tailing, EndsFlat, Coherent, CommitmentsHold, SignalsHold, Waits
<1>3. Replace(s, b) = t
  BY <1>1 DEF Replace, Replay
<1>4. /\ SameBooks(s, u) /\ u.pending = s.pending /\ u.limit = s.limit /\ u.trigger = s.trigger
      /\ u.touch = s.touch /\ u.due = 1
  BY <1>1, <1>2, DueSet
<1> HIDE DEF u
<1>5. Booked(u) /\ u \in Replay /\ u.pos = s.pos /\ u.opens = s.opens /\ u.seq = s.seq
  BY <1>1, <1>4, SameBooked DEF SameBooks, Booked, FillsHold
<1>6. Closes(u, v, b, b.close)
  BY <1>1, <1>5, CloseMoves
<1> HIDE DEF v
<1>7. Booked(v) /\ ~Holding(v) /\ v \in Replay /\ v.opens = s.opens /\ v.seq = s.seq
  <2>1. Attainable(-u.pos.dir, b.close, b)
    BY <1>1, <1>5, AtOpenOrClose
  <2>2. Booked(v) /\ ~Holding(v)
    BY <1>5, <1>6, <2>1, CloseBooked
  <2> QED BY <1>5, <1>6, <2>2 DEF Closes, SamePhase
<1>8. Opens(v, t, b, s.signal, b.close, 0, s.seq) /\ Attainable(s.signal, b.close, b)
  BY <1>1, <1>7, OpenMoves, AtOpenOrClose
<1> HIDE DEF t
<1>9. Booked(t) /\ Advances(v, t)
  <2>1. s.seq <= v.seq /\ v.opens < v.seq
    BY <1>1, <1>2, <1>7
  <2> QED BY <1>1, <1>7, <1>8, <2>1, OpenBooked
<1>10. /\ t.pending = s.pending /\ t.limit = s.limit /\ t.trigger = s.trigger /\ t.touch = s.touch /\ t.due = 0
       /\ t.seq = s.seq /\ t.shut = s.shut
  BY <1>4, <1>6, <1>8 DEF Opens, Closes, SamePhase, SameBooks
<1>11. ~Resting(t) /\ ~Triggered(t) /\ ~Deferring(t) /\ (Working(t) <=> Working(s))
  BY <1>2, <1>10 DEF Resting, Triggered, Deferring, Working
<1>12. \/ ~Holding(t) /\ t.opens = s.opens
       \/ t.opens = s.opens + 1 /\ t.pos.born = s.seq /\ t.pos.id = s.opens + 1
  BY <1>7, <1>9 DEF Advances
<1>13. RemainderHolds(t)
  <2>1. s.limit.rest # 0 => t.pos.id # s.limit.of /\ s.limit.of \in 1 .. t.opens
    BY <1>1, <1>12 DEF Coherent, RemainderHolds, Holding
  <2> QED BY <1>10, <1>11, <2>1 DEF Coherent, RemainderHolds
<1>14. CommitmentsHold(t) /\ TouchHolds(t) /\ SignalsHold(t)
  BY <1>2, <1>10, <1>11 DEF Coherent, CommitmentsHold, TouchHolds, SignalsHold, Waits
<1>15. Coherent(t)
  BY <1>9, <1>13, <1>14 DEF Coherent, Booked
<1>16. Tailing(t) /\ LiveBy(t, t.seq + 1)
  BY <1>1, <1>2, <1>10, <1>11, <1>12 DEF Tailing, EndsFlat, LiveBy, Working, Triggered
<1>17. Moves(s, t)
  BY <1>1, <1>12 DEF Moves
<1> QED BY <1>3, <1>10, <1>15, <1>16, <1>17 DEF TailResult

\* A state that stays as it is.
LEMMA StayTail ==
  ASSUME NEW s, Coherent(s), Tailing(s), LiveBy(s, s.seq + 1)
  PROVE  TailResult(s, s)
<1>1. s \in Replay /\ PositionHolds(s)
  BY SoundTypes DEF Coherent
<1> QED BY <1>1, SameMoves DEF TailResult

\* A new signal against or along a held position.
LEMMA ConflictTail ==
  ASSUME cfg \in Configs, NEW s, Coherent(s), Tailing(s), LiveBy(s, s.seq + 1), NEW b \in Bars
  PROVE  TailResult(s, Conflict(s, b))
<1> DEFINE edge == /\ Holding(s) /\ s.pos.born # s.seq /\ s.pending.kind = "none" /\ ~s.cut
                   /\ s.signal # 0 /\ s.signal # s.prev
           same == s.signal = s.pos.dir
           t == Conflict(s, b)
<1>1. \/ edge /\ cfg.stacking = "replace" /\ t = Replace(s, b)
      \/ edge /\ t = Stack(s, b)
      \/ edge /\ t = Oppose(s, b)
      \/ t = s
  <2> DEFINE x == Replace(s, b)
             y == Stack(s, b)
             z == Oppose(s, b)
  <2>1. t = CASE edge /\ same /\ cfg.stacking = "replace" /\ ~b.blocked -> x
              [] edge /\ same /\ cfg.stacking = "stack" /\ ~b.blocked -> y
              [] edge /\ ~same -> z
              [] OTHER -> s
    BY DEF Conflict
  <2> HIDE DEF t, x, y, z, edge, same
  <2>2. \/ edge /\ cfg.stacking = "replace" /\ t = x
        \/ edge /\ t = y
        \/ edge /\ t = z
        \/ t = s
    BY <2>1
  <2> QED BY <2>2 DEF x, y, z
<1>2. CASE edge /\ cfg.stacking = "replace" /\ t = Replace(s, b)
  BY <1>2, ReplaceTail
<1>3. CASE edge /\ t = Stack(s, b)
  <2>1. CASE Accepted(s, b, b.plan)
    BY <1>3, <2>1, BarType, GrowTail DEF Stack
  <2>2. CASE ~Accepted(s, b, b.plan)
    BY <1>3, <2>2, StayTail DEF Stack
  <2> QED BY <2>1, <2>2
<1>4. CASE edge /\ t = Oppose(s, b)
  BY <1>4, CloseTail, StayTail DEF Oppose
<1>5. CASE t = s
  BY <1>5, StayTail
<1> HIDE DEF t, edge, same
<1> QED BY <1>1, <1>2, <1>3, <1>4, <1>5 DEF t

\* One rung of the ladder.
LEMMA ScaleTail ==
  ASSUME cfg \in Configs, NEW s, Coherent(s), Tailing(s), LiveBy(s, s.seq + 1), NEW b \in Bars
  PROVE  TailResult(s, Scale(s, b))
<1> DEFINE crossed == /\ Holding(s) /\ s.pending.kind = "none" /\ ~s.cut
                      /\ s.pos.layers < cfg.maxLayers
                      /\ Touching(s.pos.dir, s.pos.ref - s.pos.dir * cfg.distance, b.close)
           p == [s.pos EXCEPT !.ref = b.close]
           t == [s EXCEPT !.pos = p]
           u == Grow(t, b, b.close, cfg.layer)
           q == [u.pos EXCEPT !.layers = u.pos.layers + 1]
           v == [u EXCEPT !.pos = q]
<1>1. /\ s \in Replay /\ s.pos \in Position /\ s.pos.layers \in Nat /\ b.close \in Int
      /\ cfg.layer \in Nat /\ cfg.maxLayers \in Nat
  BY SoundTypes, BarType, StrategyType DEF Position
<1>2. Scale(s, b) = CASE crossed /\ Accepted(s, b, cfg.layer) -> [u EXCEPT !.pos.layers = @ + 1]
                      [] crossed /\ ~Accepted(s, b, cfg.layer) -> t
                      [] OTHER -> s
  <2>1. t = [s EXCEPT !.pos.ref = b.close]
    BY <1>1 DEF Replay
  <2> QED BY <2>1 DEF Scale
<1>3. CASE ~crossed
  BY <1>2, <1>3, StayTail
<1>4. CASE crossed
  <2>1. /\ p \in Position /\ p.id = s.pos.id /\ p.born = s.pos.born /\ p.live = s.pos.live /\ p.dir = s.pos.dir
        /\ p.size = s.pos.size /\ p.stop = s.pos.stop /\ p.anchor = s.pos.anchor /\ p.layers = s.pos.layers
        /\ p.layers <= cfg.maxLayers /\ p.layers + 1 <= cfg.maxLayers
    BY <1>1, <1>4 DEF Position
  <2> HIDE DEF p
  <2>2. /\ Coherent(t) /\ Tailing(t) /\ LiveBy(t, t.seq + 1) /\ Holding(t)
        /\ t.pos = p /\ t.seq = s.seq /\ t.opens = s.opens /\ t.cut = s.cut
    BY <1>4, <2>1, PositionSet
  <2> HIDE DEF t
  <2>3. Grown(s, t) /\ Moves(s, t) /\ ~t.cut
    <3>1. Grown(s, t)
      BY <1>4, <2>1, <2>2 DEF Grown
    <3>2. s.opens \in Nat
      BY SoundTypes
    <3> QED BY <1>4, <2>1, <2>2, <3>1, <3>2 DEF Moves, Holding
  <2>4. CASE ~Accepted(s, b, cfg.layer)
    BY <1>2, <1>4, <2>2, <2>3, <2>4 DEF TailResult
  <2>5. CASE Accepted(s, b, cfg.layer)
    <3>1. Accepted(t, b, cfg.layer)
      BY <2>1, <2>2, <2>5 DEF Accepted
    <3>2. /\ TailResult(t, u) /\ Holding(u) /\ u.pos.layers = p.layers /\ u.pos.id = p.id
          /\ u.opens = s.opens /\ Grown(t, u)
      BY <1>1, <2>2, <2>3, <3>1, GrowTail
    <3> HIDE DEF u
    <3>3. /\ Coherent(u) /\ Tailing(u) /\ LiveBy(u, u.seq + 1) /\ u.seq = s.seq /\ u \in Replay /\ u.pos \in Position
      BY <2>2, <3>2, SoundTypes DEF TailResult
    <3>4. Scale(s, b) = v
      BY <1>2, <1>4, <2>5, <3>3 DEF Replay
    <3>5. /\ q \in Position /\ q.id = u.pos.id /\ q.born = u.pos.born /\ q.live = u.pos.live /\ q.dir = u.pos.dir
          /\ q.size = u.pos.size /\ q.stop = u.pos.stop /\ q.anchor = u.pos.anchor /\ q.layers <= cfg.maxLayers
      BY <2>1, <3>2, <3>3 DEF Position
    <3> HIDE DEF q
    <3>6. /\ Coherent(v) /\ Tailing(v) /\ LiveBy(v, v.seq + 1) /\ Holding(v)
          /\ v.pos = q /\ v.seq = u.seq /\ v.opens = u.opens
      BY <3>2, <3>3, <3>5, PositionSet
    <3> HIDE DEF v
    <3>7. Grown(s, v)
      BY <1>4, <2>1, <2>2, <3>2, <3>5, <3>6 DEF Grown
    <3>8. Moves(s, v)
      <4>1. s.opens \in Nat
        BY SoundTypes
      <4> QED BY <1>4, <2>1, <3>2, <3>5, <3>6, <3>7, <4>1 DEF Moves
    <3> QED BY <3>3, <3>4, <3>6, <3>8 DEF TailResult
  <2> QED BY <2>4, <2>5
<1> QED BY <1>3, <1>4

-----------------------------------------------------------------------------
(* One item: a bar, and the end of the data *)

\* What a bar starts from.
LEMMA AdmitBegins ==
  ASSUME cfg \in Configs, NEW s, BetweenBars(s), NEW b \in Bars
  PROVE  LET t == Admit(s, b) IN Beginning(t) /\ t.pos = s.pos /\ t.opens = s.opens /\ t.seq = s.seq + 1
<1> DEFINE signal == IF (~Holding(s) /\ b.signal # 0 /\ b.exitHit) /\ ~cfg.exitFirst THEN 0 ELSE b.signal
           t == Admit(s, b)
<1>1. /\ s \in Replay /\ s.seq \in Nat /\ s.opens \in Nat /\ s.touch.placed \in Nat /\ s.pending.at \in Nat
      /\ s.limit.live \in Nat /\ s.trigger.live \in Nat
  BY SoundTypes DEF BetweenBars
<1>2. signal \in Side
  BY BarType DEF Side
<1>3. t = [s EXCEPT !.seq = s.seq + 1, !.cut = FALSE, !.shut = FALSE, !.signal = signal]
  BY <1>1 DEF Admit, Replay
<1> HIDE DEF signal, t
<1>4. t \in Replay
  <2>1. s.seq + 1 \in Nat /\ FALSE \in BOOLEAN
    BY <1>1
  <2>2. t.seq = s.seq + 1 /\ t.signal = signal
    BY <1>1, <1>3 DEF Replay
  <2> QED BY <1>1, <1>2, <1>3, <2>1 DEF Replay
<1>5. /\ t.seq = s.seq + 1 /\ t.opens = s.opens /\ t.pos = s.pos /\ t.pending = s.pending /\ t.limit = s.limit
      /\ t.trigger = s.trigger /\ t.touch = s.touch /\ t.due = s.due /\ t.units = s.units
      /\ t.excess = s.excess /\ ~t.shut
  BY <1>1, <1>3 DEF Replay
<1>13. t.fair = s.fair
  BY <1>1, <1>3 DEF Replay
<1>6. /\ (Holding(t) <=> Holding(s)) /\ (Deferring(t) <=> Deferring(s)) /\ (Working(t) <=> Working(s))
      /\ (Resting(t) <=> Resting(s)) /\ (Triggered(t) <=> Triggered(s))
  BY <1>5 DEF Holding, Deferring, Working, Resting, Triggered
<1>7. PositionHolds(t) /\ RemainderHolds(t)
  BY <1>5, <1>6 DEF BetweenBars, Coherent, PositionHolds, RemainderHolds
<1>8. FillsHold(t) /\ SignalsHold(t)
  <2>1. t.fair
    BY <1>13 DEF BetweenBars, Coherent, FillsHold
  <2>2. FillsHold(t)
    BY <1>5, <2>1 DEF BetweenBars, Coherent, FillsHold
  <2>3. SignalsHold(t)
    BY <1>5, <1>6 DEF BetweenBars, Coherent, SignalsHold, Waits
  <2> QED BY <2>2, <2>3
<1>9. CommitmentsHold(t) /\ TouchHolds(t)
  BY <1>1, <1>5, <1>6 DEF BetweenBars, Coherent, CommitmentsHold, TouchHolds
<1>10. Coherent(t)
  BY <1>4, <1>7, <1>8, <1>9 DEF Coherent
<1>11. t.touch.placed # 0 => Holding(t) /\ t.touch.placed < t.seq
  BY <1>1, <1>5, <1>6 DEF BetweenBars, Coherent, TouchHolds
<1>12. t.opens < t.seq /\ LiveBy(t, t.seq)
  BY <1>1, <1>5, <1>6 DEF BetweenBars, LiveBy
<1> QED BY <1>5, <1>10, <1>11, <1>12 DEF Beginning, t

\* The held phase or the entry phase.
LEMMA HeldOrEntryStep ==
  ASSUME cfg \in Configs, NEW s, Coherent(s), Filling(s), LiveBy(s, s.seq + 1), NEW b \in Bars
  PROVE  TailResult(s, HeldOrEntry(s, b))
<1> DEFINE t == HeldOrEntry(s, b)
<1>1. s \in Replay
  BY SoundTypes
<1>2. CASE Holding(s)
  <2>1. t = HeldPhase(s, b)
    BY <1>2 DEF HeldOrEntry
  <2> HIDE DEF t
  <2>2. /\ Coherent(t) /\ Tailing(t) /\ LiveBy(t, t.seq + 1) /\ t.seq = s.seq /\ t.opens = s.opens /\ Kept(s, t)
        /\ (Holding(t) => t.pos.id = s.pos.id)
    BY <1>2, <2>1, HeldStep
  <2>3. Moves(s, t)
    BY <1>1, <1>2, <2>2 DEF Moves, Replay
  <2> QED BY <2>2, <2>3 DEF TailResult, t
<1>3. CASE ~Holding(s)
  <2>1. t = EntryPhase(s, b)
    BY <1>3 DEF HeldOrEntry
  <2> HIDE DEF t
  <2>2. Coherent(t) /\ Tailing(t) /\ LiveBy(t, t.seq + 1) /\ Advances(s, t)
    BY <1>3, <2>1, EntryStep
  <2>3. Moves(s, t)
    BY <1>1, <1>3, <2>2, AdvanceMoves
  <2> QED BY <2>2, <2>3 DEF TailResult, Advances, t
<1> QED BY <1>2, <1>3

\* The end of a bar.
LEMMA EndHolds ==
  ASSUME NEW s, Coherent(s), Tailing(s), LiveBy(s, s.seq + 1), s.seq <= MaxBars
  PROVE  LET t == EndOfBar(s) IN BetweenBars(t) /\ t.pos = s.pos /\ t.opens = s.opens /\ t.cut = s.cut
<1> DEFINE touch == IF Holding(s) THEN s.touch ELSE NoTouch
           t == EndOfBar(s)
<1>1. s \in Replay /\ s.signal \in Side /\ s.touch \in TouchExit
  BY SoundTypes
<1>2. touch \in TouchExit /\ (touch = s.touch \/ touch = NoTouch) /\ (touch.placed # 0 => Holding(s))
  BY <1>1, NoneTypes, NoneIsNone
<1>3. t = [s EXCEPT !.prev = s.signal, !.signal = 0, !.touch = touch]
  BY <1>1 DEF EndOfBar, Replay
<1> HIDE DEF touch, t
<1>4. t \in Replay
  BY <1>1, <1>2, <1>3 DEF Replay, Side
<1>5. /\ t.seq = s.seq /\ t.opens = s.opens /\ t.pos = s.pos /\ t.pending = s.pending /\ t.limit = s.limit
      /\ t.trigger = s.trigger /\ t.touch = touch /\ t.due = s.due /\ t.units = s.units
      /\ t.excess = s.excess /\ t.shut = s.shut /\ t.cut = s.cut /\ t.signal = 0
  BY <1>1, <1>3 DEF Replay
<1>12. t.fair = s.fair
  BY <1>1, <1>3 DEF Replay
<1>6. /\ (Holding(t) <=> Holding(s)) /\ (Deferring(t) <=> Deferring(s)) /\ (Working(t) <=> Working(s))
      /\ (Resting(t) <=> Resting(s)) /\ (Triggered(t) <=> Triggered(s))
  BY <1>5 DEF Holding, Deferring, Working, Resting, Triggered
<1>7. PositionHolds(t) /\ RemainderHolds(t) /\ CommitmentsHold(t)
  BY <1>5, <1>6 DEF Coherent, PositionHolds, RemainderHolds, CommitmentsHold
<1>8. FillsHold(t) /\ SignalsHold(t)
  <2>1. t.fair
    BY <1>12 DEF Coherent, FillsHold
  <2>2. FillsHold(t)
    BY <1>5, <2>1 DEF Coherent, FillsHold
  <2>3. SignalsHold(t)
    BY <1>5, <1>6 DEF Coherent, SignalsHold, Waits
  <2> QED BY <2>2, <2>3
<1>9. TouchHolds(t)
  BY <1>2, <1>5, <1>6, NoneIsNone DEF Coherent, TouchHolds
<1>10. Coherent(t)
  BY <1>4, <1>7, <1>8, <1>9 DEF Coherent
<1>11. LiveBy(t, t.seq + 1) /\ t.opens <= t.seq /\ t.seq <= MaxBars /\ EndsFlat(t)
  <2>1. s.seq \in Nat /\ s.opens \in Nat
    BY SoundTypes
  <2> QED BY <1>5, <1>6, <2>1 DEF LiveBy, Tailing, EndsFlat
<1> QED BY <1>2, <1>5, <1>6, <1>10, <1>11 DEF BetweenBars, t

\* A whole bar.
LEMMA BarHolds ==
  ASSUME cfg \in Configs, NEW s, BetweenBars(s), s.seq < MaxBars, NEW b \in Bars
  PROVE  LET t == TailPhase(HeldOrEntry(OpenFills(Admit(s, b), b), b), b) IN
         BetweenBars(t) /\ (Holding(s) => Guarded(s.pos, t))
<1> DEFINE a == Admit(s, b)
           u == OpenFills(a, b)
           v == HeldOrEntry(u, b)
           w == Deferred(v, b, FALSE)
           x == Conflict(w, b)
           y == Scale(x, b)
           t == EndOfBar(y)
<1>1. Beginning(a) /\ a.pos = s.pos /\ a.opens = s.opens /\ a.seq = s.seq + 1
  BY AdmitBegins
<1>2. TailPhase(v, b) = t
  BY DEF TailPhase
<1> HIDE DEF a
<1>3. /\ Coherent(u) /\ Filling(u) /\ LiveBy(u, u.seq + 1) /\ u.seq = a.seq
      /\ Holding(a) => Begun(a.pos, u)
  BY <1>1, OpenFillsStep
<1> HIDE DEF u
<1>4. TailResult(u, v)
  BY <1>3, HeldOrEntryStep
<1> HIDE DEF v
<1>5. TailResult(v, w)
  BY <1>4, DeferredTail DEF TailResult
<1> HIDE DEF w
<1>6. TailResult(w, x)
  BY <1>5, ConflictTail DEF TailResult
<1> HIDE DEF x
<1>7. TailResult(x, y)
  BY <1>6, ScaleTail DEF TailResult
<1> HIDE DEF y
<1>8. s.seq \in Nat /\ MaxBars \in Nat
  BY SoundTypes, StrategyType DEF BetweenBars
<1>9. y.seq <= MaxBars
  BY <1>1, <1>3, <1>4, <1>5, <1>6, <1>7, <1>8 DEF TailResult
<1>10. BetweenBars(t) /\ t.pos = y.pos /\ t.opens = y.opens /\ t.cut = y.cut
  BY <1>7, <1>9, EndHolds DEF TailResult
<1> HIDE DEF t
<1>11. ASSUME Holding(s) PROVE Guarded(s.pos, t)
  <2> DEFINE p == s.pos
  <2>1. /\ u \in Replay /\ v \in Replay /\ w \in Replay /\ x \in Replay /\ y \in Replay /\ s \in Replay
    BY <1>3, <1>4, <1>5, <1>6, <1>7, SoundTypes DEF TailResult, BetweenBars
  <2>2. p \in Position /\ p.id # 0 /\ p.dir \in Directions
    BY <1>11, <2>1 DEF Replay, Holding, BetweenBars, Coherent, PositionHolds
  <2>3. Guarded(p, u)
    BY <1>1, <1>3, <1>11 DEF Begun, Guarded, Holding
  <2> HIDE DEF p
  <2>4. Guarded(p, v)
    BY <1>4, <2>1, <2>2, <2>3, GuardedMoves DEF TailResult
  <2>5. Guarded(p, w)
    BY <1>5, <2>1, <2>2, <2>4, GuardedMoves DEF TailResult
  <2>6. Guarded(p, x)
    BY <1>6, <2>1, <2>2, <2>5, GuardedMoves DEF TailResult
  <2>7. Guarded(p, y)
    BY <1>7, <2>1, <2>2, <2>6, GuardedMoves DEF TailResult
  <2> QED BY <1>10, <2>7 DEF Guarded, p
<1> QED BY <1>2, <1>10, <1>11 DEF a, u, v, w, x, y

\* The end of the data.
LEMMA FinalizeFinishes ==
  ASSUME NEW s, BetweenBars(s)
  PROVE  LET whole == (IF Working(s) /\ s.limit.rest = 0 THEN 1 ELSE 0) + (IF s.trigger.dir # 0 THEN 1 ELSE 0)
         IN  Finished([s EXCEPT !.limit = NoLimit, !.trigger = NoTrigger, !.due = s.due - whole,
                        !.pos = NoPosition, !.units = s.units - s.pos.size])
<1> DEFINE whole == (IF Working(s) /\ s.limit.rest = 0 THEN 1 ELSE 0) + (IF s.trigger.dir # 0 THEN 1 ELSE 0)
           t == [s EXCEPT !.limit = NoLimit, !.trigger = NoTrigger, !.due = s.due - whole,
                   !.pos = NoPosition, !.units = s.units - s.pos.size]
<1>1. /\ s \in Replay /\ s.due \in Int /\ s.seq \in Nat /\ s.opens \in Nat /\ s.pending \in Deferral
      /\ s.touch.placed \in Nat
  BY SoundTypes DEF BetweenBars
<1>2. s.units = s.pos.size /\ s.pos.size \in Int
  BY <1>1 DEF BetweenBars, Coherent, FillsHold, Replay, Position
<1>3. s.due = Waits(Deferring(s)) + whole /\ whole \in Int /\ Waits(Deferring(s)) \in Int
  BY DEF BetweenBars, Coherent, SignalsHold, Waits, Resting, Triggered
<1>4. s.units - s.pos.size = 0 /\ s.due - whole = Waits(Deferring(s))
  BY <1>2, <1>3
<1> HIDE DEF whole
<1>5. t = [s EXCEPT !.limit = NoLimit, !.trigger = NoTrigger, !.due = Waits(Deferring(s)), !.pos = NoPosition,
             !.units = 0]
  BY <1>4
<1> HIDE DEF t
<1>6. t \in Replay
  <2> DEFINE left == Waits(Deferring(s))
  <2>1. left \in Int /\ t = [s EXCEPT !.limit = NoLimit, !.trigger = NoTrigger, !.due = left, !.pos = NoPosition,
                                !.units = 0]
    BY <1>3, <1>5
  <2> DEFINE half == [s EXCEPT !.limit = NoLimit, !.trigger = NoTrigger]
  <2> HIDE DEF left
  <2>2. half \in Replay
    BY <1>1, NoneTypes DEF Replay
  <2>3. t = [half EXCEPT !.due = left, !.pos = NoPosition, !.units = 0]
    BY <2>1
  <2> HIDE DEF half
  <2>4. left \in Int /\ 0 \in Int /\ NoPosition \in Position
    BY <2>1, NoneTypes
  <2> QED BY <2>2, <2>3, <2>4 DEF Replay
<1>7. /\ t.seq = s.seq /\ t.opens = s.opens /\ t.pos = NoPosition /\ t.pending = s.pending /\ t.limit = NoLimit
      /\ t.trigger = NoTrigger /\ t.touch = s.touch /\ t.due = Waits(Deferring(s)) /\ t.units = 0
      /\ t.excess = s.excess /\ t.signal = s.signal
  BY <1>1, <1>5 DEF Replay
<1>8. t.fair = s.fair
  BY <1>1, <1>5 DEF Replay
<1>9. Deferring(t) <=> Deferring(s)
  BY <1>7 DEF Deferring
<1>10. s.pending.at <= s.seq + 1
  BY <1>1 DEF BetweenBars, Coherent, CommitmentsHold, Deferral
<1>11. s.touch.placed <= s.seq
  BY <1>1 DEF BetweenBars, Coherent, TouchHolds
<1>12. t.fair
  BY <1>8 DEF BetweenBars, Coherent, FillsHold
<1>13. cfg.partial = "not_allowed" => t.excess = 0
  BY <1>7 DEF BetweenBars, Coherent, FillsHold
<1>14. t.due = Waits(Deferring(t))
  BY <1>7, <1>9 DEF Waits
<1>15. s.opens <= s.seq /\ s.seq <= MaxBars /\ s.signal = 0
  BY DEF BetweenBars
<1>16. Finished(t)
  BY <1>6, <1>7, <1>10, <1>11, <1>12, <1>13, <1>14, <1>15 DEF Finished
<1> QED BY <1>16 DEF t, whole

-----------------------------------------------------------------------------
(* One item: what every replay keeps *)

\* The inductive invariant of the replay.
ReplayInv ==
  /\ cfg \in Configs /\ over \in BOOLEAN
  /\ ~over => BetweenBars(st)
  /\ over => Finished(st)

\* A replay starts flat, with nothing on the way.
LEMMA ReplayStarts == InitReplay => ReplayInv
<1> SUFFICES ASSUME InitReplay PROVE ReplayInv
  OBVIOUS
<1> DEFINE s == Start
<1>1. cfg \in Configs /\ st = s /\ over = FALSE /\ MaxBars \in Nat
  BY ReplayBoundsAssumption DEF InitReplay
<1>2. /\ s.seq = 0 /\ s.opens = 0 /\ s.pos = NoPosition /\ s.pending = NoPending /\ s.limit = NoLimit
      /\ s.trigger = NoTrigger /\ s.touch = NoTouch /\ s.signal = 0 /\ s.due = 0 /\ s.units = 0 /\ s.excess = 0
      /\ s.fair /\ ~s.shut
  BY DEF Start
<1>3. s \in Replay
  BY NoneTypes DEF Start, Replay, Side
<1> HIDE DEF s
<1>4. ~Holding(s) /\ ~Deferring(s) /\ ~Working(s) /\ ~Resting(s) /\ ~Triggered(s)
  BY <1>2, NoneIsNone DEF Holding, Deferring, Working, Resting, Triggered
<1>5. PositionHolds(s) /\ FillsHold(s) /\ RemainderHolds(s)
  BY <1>2, <1>4, NoneIsNone DEF PositionHolds, FillsHold, RemainderHolds
<1>6. CommitmentsHold(s) /\ TouchHolds(s) /\ SignalsHold(s)
  BY <1>2, <1>4, NoneIsNone DEF CommitmentsHold, TouchHolds, SignalsHold, Waits
<1>7. Coherent(s)
  BY <1>3, <1>5, <1>6 DEF Coherent
<1>8. LiveBy(s, s.seq + 1) /\ EndsFlat(s)
  BY <1>2, <1>4 DEF LiveBy, EndsFlat
<1>9. BetweenBars(s)
  BY <1>1, <1>2, <1>7, <1>8, NoneIsNone DEF BetweenBars
<1> QED BY <1>1, <1>9 DEF ReplayInv, s

\* Every bar keeps it.
LEMMA BarStep ==
  ASSUME ReplayInv, NEW b \in Bars, Step(b)
  PROVE  ReplayInv'
<1>1. cfg \in Configs /\ ~over /\ BetweenBars(st) /\ st.seq < MaxBars /\ cfg' = cfg /\ over' = over
  BY DEF ReplayInv, Step
<1>2. BetweenBars(st')
  <2>1. st' = TailPhase(HeldOrEntry(OpenFills(Admit(st, b), b), b), b)
    BY DEF Step
  <2> QED BY <1>1, <2>1, BarHolds
<1>3. BetweenBars(st)'
  BY <1>1, <1>2 DEF BetweenBars, Coherent, PositionHolds, FillsHold, TouchHolds
<1> QED BY <1>1, <1>3 DEF ReplayInv

\* The end of the data keeps it too.
LEMMA FinalizeStep ==
  ASSUME ReplayInv, Finalize
  PROVE  ReplayInv'
<1>1. cfg \in Configs /\ BetweenBars(st) /\ cfg' = cfg /\ over' = TRUE
  BY DEF ReplayInv, Finalize
<1>2. Finished(st')
  <2> DEFINE whole == (IF Working(st) /\ st.limit.rest = 0 THEN 1 ELSE 0) + (IF st.trigger.dir # 0 THEN 1 ELSE 0)
             t == [st EXCEPT !.limit = NoLimit, !.trigger = NoTrigger, !.due = st.due - whole,
                     !.pos = NoPosition, !.units = st.units - st.pos.size]
  <2>1. Finished(t)
    BY <1>1, FinalizeFinishes
  <2>2. st \in Replay
    BY <1>1, SoundTypes DEF BetweenBars
  <2>3. st' = t
    BY <2>2 DEF Finalize, Replay
  <2> HIDE DEF t
  <2> QED BY <2>1, <2>3
<1>3. Finished(st)'
  BY <1>1, <1>2 DEF Finished
<1> QED BY <1>1, <1>3 DEF ReplayInv

\* A replay is between two of its bars, or finished.
LEMMA ReplayKeepsItsInvariant == SpecReplay => []ReplayInv
<1>1. ReplayInv /\ [NextReplay]_replayVars => ReplayInv'
  <2> SUFFICES ASSUME ReplayInv, [NextReplay]_replayVars PROVE ReplayInv'
    OBVIOUS
  <2>1. CASE UNCHANGED replayVars
    BY <2>1 DEF replayVars, ReplayInv, BetweenBars, Coherent, PositionHolds, FillsHold, TouchHolds, Finished
  <2>2. CASE \E b \in Bars : Step(b)
    BY <2>2, BarStep
  <2>3. CASE Finalize
    BY <2>3, FinalizeStep
  <2> QED BY <2>1, <2>2, <2>3 DEF NextReplay
<1> QED BY <1>1, ReplayStarts, PTL DEF SpecReplay

\* Entries that exclude each other are at most one.
LEMMA OneEntry ==
  ASSUME NEW p \in BOOLEAN, NEW l \in BOOLEAN, NEW t \in BOOLEAN, ~(p /\ l), ~(p /\ t), ~(l /\ t)
  PROVE  Cardinality({k \in {"pending", "limit", "stop"} :
                        (k = "pending" /\ p) \/ (k = "limit" /\ l) \/ (k = "stop" /\ t)}) <= 1
<1> DEFINE E == {k \in {"pending", "limit", "stop"} :
                   (k = "pending" /\ p) \/ (k = "limit" /\ l) \/ (k = "stop" /\ t)}
<1>1. E = {} \/ E = {"pending"} \/ E = {"limit"} \/ E = {"stop"}
  OBVIOUS
<1> HIDE DEF E
<1>2. Cardinality(E) = 0 \/ Cardinality(E) = 1
  BY <1>1, FS_EmptySet, FS_Singleton
<1>3. Cardinality(E) <= 1
  BY <1>2
<1> QED BY <1>3 DEF E

\* The invariant and the books.
LEMMA ReplayAccounts == ReplayInv => PositionIsAccounted
<1> SUFFICES ASSUME ReplayInv PROVE PositionIsAccounted
  OBVIOUS
<1>1. cfg \in Configs /\ over \in BOOLEAN /\ MaxBars \in Nat /\ cfg.maxLayers \in Nat
  BY StrategyType DEF ReplayInv
<1>2. CASE ~over
  <2>1. BetweenBars(st) /\ Coherent(st)
    BY <1>2 DEF ReplayInv, BetweenBars
  <2>2. /\ st \in Replay /\ st.pos \in Position /\ st.seq \in Nat /\ st.opens \in Nat /\ st.pending \in Deferral
        /\ st.pending.kind \in {"none", "entry", "exit"} /\ st.pending.at \in Nat /\ st.limit.dir \in Side
        /\ st.limit.rest \in Nat /\ st.trigger.dir \in Side /\ st.touch.placed \in Nat
    BY <2>1, SoundTypes
  <2>3. /\ st.pos.id \in Nat /\ st.pos.dir \in Side /\ st.pos.size \in Nat /\ st.pos.layers \in Nat
        /\ st.cut \in BOOLEAN /\ st.prev \in Side
    BY <2>2 DEF Replay, Position
  <2>4. st.pos.id = 0 <=> st.pos = NoPosition
    BY <2>1, NoneIsNone DEF Coherent, PositionHolds, Holding
  <2>5. st.pos.id <= st.opens /\ st.pos.layers <= cfg.maxLayers
    BY <1>1, <2>1, <2>2 DEF Coherent, PositionHolds, Holding, NoPosition
  <2>6. st.pending.at <= st.seq + 1
    BY <2>1, <2>2 DEF Coherent, CommitmentsHold, Deferral
  <2>7. st.touch.placed <= st.seq
    BY <2>1, <2>2 DEF Coherent, TouchHolds
  <2>8. st.opens <= st.seq /\ st.seq <= MaxBars /\ st.signal = 0
    BY <2>1 DEF BetweenBars
  <2>9. TypeOKReplay
    BY <1>1, <2>2, <2>3, <2>4, <2>5, <2>6, <2>7, <2>8 DEF TypeOKReplay, Side, Directions
  <2>10. CommitmentsFitPosition
    <3> DEFINE p == st.pending.kind = "entry"
               l == st.limit.dir # 0
               t == st.trigger.dir # 0
    <3>1. p \in BOOLEAN /\ l \in BOOLEAN /\ t \in BOOLEAN /\ ~(p /\ l) /\ ~(p /\ t) /\ ~(l /\ t)
      BY <2>1 DEF Coherent, CommitmentsHold, Deferring, Working, Triggered
    <3> DEFINE E == {k \in {"pending", "limit", "stop"} :
                       (k = "pending" /\ p) \/ (k = "limit" /\ l) \/ (k = "stop" /\ t)}
    <3> HIDE DEF p, l, t
    <3>2. Cardinality(E) <= 1
      BY <3>1, OneEntry
    <3> HIDE DEF E
    <3>3. p \/ t \/ (Working(st) /\ st.limit.rest = 0) => ~Holding(st)
      BY <2>1 DEF Coherent, CommitmentsHold, Deferring, Resting, Triggered, p, t
    <3>4. st.pending.kind = "exit" \/ st.touch.placed # 0 => Holding(st)
      BY <2>1 DEF BetweenBars, Coherent, CommitmentsHold
    <3>5. ~(st.pending.kind = "exit" /\ st.touch.placed # 0)
      BY <2>1 DEF Coherent, TouchHolds
    <3> QED BY <3>2, <3>3, <3>4, <3>5 DEF CommitmentsFitPosition, E, p, l, t
  <2>11. SignalsAccounted
    BY <2>1 DEF Coherent, SignalsHold, SignalsAccounted, Waits, Deferring, Resting, Triggered
  <2>12. UnitsAddUp /\ GrowthWithinCap
    BY <1>2, <2>1 DEF Coherent, FillsHold, UnitsAddUp, GrowthWithinCap
  <2>13. RemainderNeverOverfills
    BY <2>1 DEF Coherent, RemainderHolds, RemainderNeverOverfills
  <2> QED BY <2>9, <2>10, <2>11, <2>12, <2>13 DEF PositionIsAccounted
<1>3. CASE over
  <2>1. Finished(st)
    BY <1>3 DEF ReplayInv
  <2>2. /\ st \in Replay /\ st.seq \in Nat /\ st.opens \in Nat /\ st.pending \in Deferral /\ st.touch \in TouchExit
        /\ st.cut \in BOOLEAN /\ st.prev \in Side
    BY <2>1 DEF Finished, Replay
  <2>3. st.pending.kind \in {"none", "entry", "exit"} /\ st.pending.at \in Nat /\ st.touch.placed \in Nat
    BY <2>2 DEF Deferral, TouchExit
  <2>4. /\ st.pos = NoPosition /\ st.pos.id = 0 /\ st.pos.dir = 0 /\ st.pos.size = 0 /\ st.pos.layers = 0
        /\ st.limit.dir = 0 /\ st.limit.rest = 0 /\ st.trigger.dir = 0
    BY <2>1 DEF Finished, NoPosition, NoLimit, NoTrigger
  <2>5. /\ st.opens <= st.seq /\ st.seq <= MaxBars /\ st.signal = 0 /\ st.pending.at <= st.seq + 1
        /\ st.touch.placed <= st.seq
    BY <2>1 DEF Finished
  <2>6. TypeOKReplay
    BY <1>1, <2>2, <2>3, <2>4, <2>5 DEF TypeOKReplay, Side, Directions
  <2>7. CommitmentsFitPosition /\ RemainderNeverOverfills
    BY <1>3, <2>4 DEF CommitmentsFitPosition, RemainderNeverOverfills
  <2>8. SignalsAccounted
    BY <2>1, <2>4 DEF Finished, SignalsAccounted, Waits, Deferring, Working
  <2>9. UnitsAddUp /\ GrowthWithinCap
    BY <2>1, <2>4 DEF Finished, UnitsAddUp, GrowthWithinCap
  <2> QED BY <2>6, <2>7, <2>8, <2>9 DEF PositionIsAccounted
<1> QED BY <1>1, <1>2, <1>3

\* The invariant and the fills.
LEMMA ReplayIsHonest == ReplayInv => FillsAreHonest
<1> SUFFICES ASSUME ReplayInv PROVE FillsAreHonest
  OBVIOUS
<1>1. CASE ~over
  <2>1. BetweenBars(st) /\ Coherent(st)
    BY <1>1 DEF ReplayInv, BetweenBars
  <2>2. NoLookAhead /\ FillsAttainable
    BY <2>1 DEF Coherent, PositionHolds, FillsHold, NoLookAhead, FillsAttainable
  <2>3. TouchExitOwned
    BY <2>1 DEF BetweenBars, Coherent, TouchHolds, TouchExitOwned
  <2>4. HeldCloseEndsTheBar
    BY <2>1 DEF BetweenBars, EndsFlat, HeldCloseEndsTheBar, Uncommitted, Resting, Working, Triggered
  <2> QED BY <2>2, <2>3, <2>4 DEF FillsAreHonest
<1>2. CASE over
  <2>1. Finished(st)
    BY <1>2 DEF ReplayInv
  <2> QED BY <1>2, <2>1, NoneIsNone DEF Finished, FillsAreHonest, NoLookAhead, FillsAttainable, TouchExitOwned,
     HeldCloseEndsTheBar, Holding
<1> QED BY <1>1, <1>2 DEF ReplayInv

\* One commitment at a time, every signal answered, every unit accounted for, nothing grown
\* past its plan or its cap (_build_stepper, over every strategy, bar and length of data).
THEOREM ItemIsAccounted == SpecReplay => []PositionIsAccounted
BY ReplayKeepsItsInvariant, ReplayAccounts, PTL

\* No fill looks ahead, beats its bar, belongs to another position's exit, or follows the
\* close that ended its bar (the ordered phases of one bar).
THEOREM ItemFillsAreHonest == SpecReplay => []FillsAreHonest
BY ReplayKeepsItsInvariant, ReplayIsHonest, PTL

\* A trailing rule in force stays so, and no protection loosens, while the basis stands.
THEOREM ItemProtectionRatchets == SpecReplay => ProtectionRatchets
<1> DEFINE Ratchet ==
      LET p == st.pos
          q == st'.pos
          tighter(x, y) == p.dir * (y - x) >= 0
      IN  Holding(st) /\ q.id = p.id /\ q.entry = p.entry =>
            /\ Trailing(p) => Trailing(q) /\ tighter(TrailLevel(p), TrailLevel(q))
            /\ p.stop # 0 => q.stop = q.entry \/ (q.stop # 0 /\ tighter(p.stop, q.stop))
<1>1. ReplayInv /\ ReplayInv' /\ [NextReplay]_replayVars => [Ratchet]_replayVars
  <2> SUFFICES ASSUME ReplayInv, ReplayInv', NextReplay, Holding(st), st'.pos.id = st.pos.id, st'.pos.entry = st.pos.entry
               PROVE  Ratchet
    OBVIOUS
  <2>1. CASE Finalize
    <3>1. st'.pos = NoPosition
      BY <2>1 DEF ReplayInv, Finished, Finalize
    <3> QED BY <3>1, NoneIsNone DEF Holding
  <2>2. ASSUME NEW b \in Bars, Step(b)
        PROVE  Ratchet
    <3> DEFINE p == st.pos
               q == st'.pos
    <3>1. cfg \in Configs /\ ~over /\ BetweenBars(st) /\ st.seq < MaxBars /\ cfg' = cfg /\ over' = over
      BY <2>2 DEF ReplayInv, Step
    <3>2. Guarded(p, st') /\ BetweenBars(st')
      <4>1. st' = TailPhase(HeldOrEntry(OpenFills(Admit(st, b), b), b), b)
        BY <2>2 DEF Step
      <4> QED BY <3>1, <4>1, BarHolds
    <3>3. st \in Replay /\ st' \in Replay /\ p.dir \in Directions
      BY <3>1, <3>2 DEF BetweenBars, Coherent, PositionHolds
    <3>4. /\ p.anchor \in Int /\ q.anchor \in Int /\ p.entry \in Int /\ p.stop \in Int /\ q.stop \in Int
          /\ cfg.gap \in Nat /\ cfg.lock \in Nat /\ q.entry = p.entry
      BY <3>1, <3>3, StrategyType DEF Replay, Position
    <3>5. /\ q.dir = p.dir /\ p.dir * (q.anchor - p.anchor) >= 0
          /\ IF cfg.aftermath = "entry" THEN q.stop \in {p.stop, q.entry}
             ELSE p.stop # 0 => q.stop # 0 /\ p.dir * (q.stop - p.stop) >= 0
      BY <3>2, <3>4 DEF Guarded
    <3> HIDE DEF p, q
    <3>6. Trailing(p) => Trailing(q) /\ p.dir * (TrailLevel(q) - TrailLevel(p)) >= 0
      BY <3>3, <3>4, <3>5 DEF Trailing, TrailLevel, Touching, Directions
    <3>7. p.stop # 0 => q.stop = q.entry \/ (q.stop # 0 /\ p.dir * (q.stop - p.stop) >= 0)
      BY <3>3, <3>4, <3>5 DEF Directions
    <3> QED BY <3>6, <3>7 DEF p, q
  <2> QED BY <2>1, <2>2 DEF NextReplay
<1> QED BY <1>1, ReplayKeepsItsInvariant, PTL DEF SpecReplay, ProtectionRatchets
=============================================================================
