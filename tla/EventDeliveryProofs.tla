------------------------- MODULE EventDeliveryProofs -------------------------
(* Theorems of EventDelivery, for any pages, schedulers, limits and bounds.   *)
EXTENDS EventDelivery, FiniteSetTheorems, WellFoundedInduction, TLAPS

-----------------------------------------------------------------------------
(* Finite sets of ids: their least and greatest members, and ORDER BY id LIMIT n. *)

\* A finite set of ids has a least member.
LEMMA LeastMember ==
  ASSUME NEW S \in SUBSET Nat, IsFiniteSet(S), S # {}
  PROVE  \E m \in S : \A x \in S : m <= x
<1> DEFINE Below(x) == {g \in S : g < x}
           Downs == {Below(x) : x \in S}
<1>0. \A x \in S : x \in Nat
  OBVIOUS
<1>1. FiniteSubsetsOf(S) = SUBSET S
  BY FS_FiniteSubsetsOfFinite
<1>2. Downs \subseteq FiniteSubsetsOf(S) /\ Downs # {}
  <2>1. \A x \in S : Below(x) \in SUBSET S
    OBVIOUS
  <2> HIDE DEF Below
  <2>2. Downs \subseteq FiniteSubsetsOf(S)
    BY <1>1, <2>1
  <2>3. PICK x \in S : TRUE
    OBVIOUS
  <2>4. Below(x) \in Downs
    BY <2>3
  <2> QED BY <2>2, <2>4
<1>3. IsWellFoundedOn(StrictSubsetOrdering(S), FiniteSubsetsOf(S))
  BY FS_StrictSubsetOrderingWellFounded
<1> HIDE DEF Downs
<1>4. \E d \in Downs : \A b \in Downs : ~ (<<b, d>> \in StrictSubsetOrdering(S))
  BY <1>2, <1>3, WFMin
<1>5. PICK x \in S : \A y \in S : <<Below(y), Below(x)>> \notin StrictSubsetOrdering(S)
  BY <1>4 DEF Downs
<1>6. ASSUME NEW y \in S, ~ (x <= y) PROVE FALSE
  <2>1. y < x
    BY <1>0, <1>6
  <2>2. \A g \in S : g < y => g < x
    BY <1>0, <2>1
  <2>3. Below(y) \subseteq Below(x)
    BY <2>2
  <2>4. y \in Below(x) /\ y \notin Below(y)
    BY <1>0, <2>1
  <2>5. Below(x) \in SUBSET S /\ Below(y) \in SUBSET S
    OBVIOUS
  <2> HIDE DEF Below
  <2>6. <<Below(y), Below(x)>> \in StrictSubsetOrdering(S)
    BY <2>3, <2>4, <2>5 DEF StrictSubsetOrdering
  <2> QED BY <2>6, <1>5
<1> QED BY <1>6

\* A finite set of ids has a greatest member.
LEMMA GreatestMember ==
  ASSUME NEW S \in SUBSET Nat, IsFiniteSet(S), S # {}
  PROVE  \E m \in S : \A x \in S : m >= x
<1> DEFINE Above(x) == {g \in S : g > x}
           Ups == {Above(x) : x \in S}
<1>0. \A x \in S : x \in Nat
  OBVIOUS
<1>1. FiniteSubsetsOf(S) = SUBSET S
  BY FS_FiniteSubsetsOfFinite
<1>2. Ups \subseteq FiniteSubsetsOf(S) /\ Ups # {}
  <2>1. \A x \in S : Above(x) \in SUBSET S
    OBVIOUS
  <2> HIDE DEF Above
  <2>2. Ups \subseteq FiniteSubsetsOf(S)
    BY <1>1, <2>1
  <2>3. PICK x \in S : TRUE
    OBVIOUS
  <2>4. Above(x) \in Ups
    BY <2>3
  <2> QED BY <2>2, <2>4
<1>3. IsWellFoundedOn(StrictSubsetOrdering(S), FiniteSubsetsOf(S))
  BY FS_StrictSubsetOrderingWellFounded
<1> HIDE DEF Ups
<1>4. \E d \in Ups : \A b \in Ups : ~ (<<b, d>> \in StrictSubsetOrdering(S))
  BY <1>2, <1>3, WFMin
<1>5. PICK x \in S : \A y \in S : <<Above(y), Above(x)>> \notin StrictSubsetOrdering(S)
  BY <1>4 DEF Ups
<1>6. ASSUME NEW y \in S, ~ (x >= y) PROVE FALSE
  <2>1. y > x
    BY <1>0, <1>6
  <2>2. \A g \in S : g > y => g > x
    BY <1>0, <2>1
  <2>3. Above(y) \subseteq Above(x)
    BY <2>2
  <2>4. y \in Above(x) /\ y \notin Above(y)
    BY <1>0, <2>1
  <2>5. Above(x) \in SUBSET S /\ Above(y) \in SUBSET S
    OBVIOUS
  <2> HIDE DEF Above
  <2>6. <<Above(y), Above(x)>> \in StrictSubsetOrdering(S)
    BY <2>3, <2>4, <2>5 DEF StrictSubsetOrdering
  <2> QED BY <2>6, <1>5
<1> QED BY <1>6

\* Min and Max choose them.
LEMMA MinMax ==
  ASSUME NEW S \in SUBSET Nat, IsFiniteSet(S), S # {}
  PROVE  /\ Min(S) \in S /\ \A x \in S : Min(S) <= x
         /\ Max(S) \in S /\ \A x \in S : x <= Max(S)
<1>1. Min(S) \in S /\ \A x \in S : Min(S) <= x
  BY LeastMember DEF Min
<1>2. Max(S) \in S /\ \A x \in S : Max(S) >= x
  BY GreatestMember DEF Max
<1> QED BY <1>1, <1>2

\* The first n ids of a set are the members below some point, and at most n; when there
\* are fewer than n they are the set.
LEMMA FirstNFacts ==
  ASSUME NEW S \in SUBSET Nat, IsFiniteSet(S), NEW n \in Nat
  PROVE  /\ FirstN(S, n) \in SUBSET S /\ IsFiniteSet(FirstN(S, n))
         /\ \A f \in FirstN(S, n), e \in S : e <= f => e \in FirstN(S, n)
         /\ Cardinality(FirstN(S, n)) \in 0 .. n
         /\ Cardinality(FirstN(S, n)) < n => FirstN(S, n) = S
<1> DEFINE F == FirstN(S, n)
           Below(x) == {g \in S : g < x}
<1>0. \A x \in S : x \in Nat
  OBVIOUS
<1>1. \A x \in S : x \in F <=> Cardinality(Below(x)) < n
  BY DEF FirstN
<1>2. F \in SUBSET S
  BY DEF FirstN
<1>3. IsFiniteSet(F) /\ Cardinality(F) \in Nat
  BY <1>2, FS_Subset, FS_CardinalityType
<1> HIDE DEF F
<1>4. \A x \in S : Below(x) \in SUBSET S /\ IsFiniteSet(Below(x)) /\ Cardinality(Below(x)) \in Nat
  BY FS_Subset, FS_CardinalityType
<1>5. ASSUME NEW f \in F, NEW e \in S, e <= f PROVE e \in F
  <2>1. f \in S
    BY <1>2
  <2>0. \A g \in S : g < e => g < f
    BY <1>0, <1>5, <2>1
  <2>2. Below(e) \in SUBSET Below(f)
    BY <2>0
  <2>3. Cardinality(Below(e)) <= Cardinality(Below(f))
    BY <2>1, <2>2, <1>4, FS_Subset
  <2> QED BY <2>1, <2>3, <1>1, <1>4
<1>6. Cardinality(F) <= n
  <2>1. CASE F = {}
    BY <2>1, FS_EmptySet
  <2>2. CASE F # {}
    <3>1. PICK m \in F : \A x \in F : m >= x
      BY <1>2, <1>3, <2>2, GreatestMember
    <3>2. m \in S /\ Cardinality(Below(m)) < n
      BY <1>1, <1>2
    <3>3. F \in SUBSET (Below(m) \cup {m})
      BY <1>2, <3>1
    <3>4. IsFiniteSet(Below(m) \cup {m}) /\ Cardinality(Below(m) \cup {m}) <= Cardinality(Below(m)) + 1
      <4>1. IsFiniteSet(Below(m)) /\ Cardinality(Below(m)) \in Nat
        BY <1>4, <3>2
      <4> HIDE DEF Below
      <4> QED BY <4>1, FS_AddElement
    <3>5. Cardinality(Below(m) \cup {m}) \in Nat /\ Cardinality(F) <= Cardinality(Below(m) \cup {m})
      <4> HIDE DEF Below
      <4> QED BY <3>3, <3>4, FS_Subset, FS_CardinalityType
    <3> QED BY <3>2, <3>4, <3>5, <1>3, <1>4
  <2> QED BY <2>1, <2>2
<1>7. ASSUME Cardinality(F) < n PROVE F = S
  <2>1. SUFFICES ASSUME S \ F # {} PROVE FALSE
    BY <1>2
  <2>2. IsFiniteSet(S \ F)
    BY FS_Subset
  <2>3. PICK x \in S \ F : \A y \in S \ F : x <= y
    BY <2>1, <2>2, LeastMember
  <2>0. \A g \in S : g < x => g \in F
    BY <1>0, <2>3
  <2>4. Below(x) \in SUBSET F
    BY <2>0
  <2>5. Cardinality(Below(x)) <= Cardinality(F)
    BY <2>4, <1>3, FS_Subset
  <2>6. Cardinality(Below(x)) < n
    BY <2>3, <2>5, <1>3, <1>4, <1>7
  <2> HIDE DEF Below
  <2> QED BY <2>3, <2>6, <1>1
<1> QED BY <1>2, <1>3, <1>5, <1>6, <1>7 DEF F

-----------------------------------------------------------------------------
(* The relay *)

\* The producers keep the types of the outbox, and a committed row stays.
LEMMA ProduceType ==
  ASSUME TypeOKOutbox, Produce
  PROVE  TypeOKOutbox' /\ outbox \subseteq outbox'
<1>1. ASSUME Mint PROVE TypeOKOutbox' /\ outbox' = outbox
  BY <1>1, EventsAssumption DEF Mint, TypeOKOutbox
<1>2. ASSUME NEW e \in Ids, Commit(e) PROVE TypeOKOutbox' /\ outbox \subseteq outbox'
  BY <1>2 DEF Commit, TypeOKOutbox
<1>3. ASSUME NEW e \in Ids, Rollback(e) PROVE TypeOKOutbox' /\ outbox' = outbox
  BY <1>3 DEF Rollback, TypeOKOutbox
<1> QED BY <1>1, <1>2, <1>3 DEF Produce

\* A pass takes committed rows that are neither published nor locked by another pass.
Disjoint ==
  /\ \A r \in Relays : batch[r] \subseteq outbox \ published
  /\ \A q, r \in Relays : q # r => batch[q] \cap batch[r] = {}

RelayInv == TypeOK /\ Disjoint /\ PublishedOnce

\* Every step of the producers and the schedulers keeps RelayInv.
LEMMA RelayStep == RelayInv /\ [Next]_vars => RelayInv'
<1> SUFFICES ASSUME RelayInv, [Next]_vars PROVE RelayInv'
  OBVIOUS
<1>1. CASE Produce /\ UNCHANGED <<batch, published, attempts, lost>>
  <2>1. TypeOKOutbox' /\ outbox \subseteq outbox'
    BY <1>1, ProduceType DEF RelayInv, TypeOK
  <2> QED BY <1>1, <2>1 DEF RelayInv, TypeOK, Disjoint, PublishedOnce
<1>2. ASSUME NEW r \in Relays, Relay(r) PROVE RelayInv'
  <2>1. PICK rows : /\ rows \subseteq (outbox \ published) \ Locked
                    /\ batch' = [batch EXCEPT ![r] = rows]
    BY <1>2 DEF Relay, FirstN
  <2>2. UNCHANGED <<minted, open, outbox, late, published, attempts, lost>>
    BY <1>2 DEF Relay, outboxVars
  <2>3. TypeOK'
    <3>1. TypeOKOutbox' /\ published' \subseteq outbox'
      BY <2>2 DEF RelayInv, TypeOK, TypeOKOutbox
    <3>2. outbox \subseteq Ids
      BY EventsAssumption DEF RelayInv, TypeOK, TypeOKOutbox, Ids
    <3>3. rows \in SUBSET Ids
      BY <2>1, <3>2
    <3>4. batch' \in [Relays -> SUBSET Ids]
      BY <2>1, <3>3 DEF RelayInv, TypeOK
    <3>5. attempts' \in [Ids -> Nat] /\ lost' \in 0 .. MaxLost
      BY <2>2 DEF RelayInv, TypeOK
    <3> QED BY <3>1, <3>4, <3>5 DEF TypeOK
  <2>4. \A q \in Relays : batch[q] \cap rows = {}
    BY <2>1 DEF Locked
  <2>5. Disjoint'
    BY <2>1, <2>2, <2>4 DEF RelayInv, TypeOK, Disjoint
  <2> QED BY <2>2, <2>3, <2>5 DEF RelayInv, PublishedOnce
<1>3. ASSUME NEW r \in Relays, CommitPass(r) PROVE RelayInv'
  <2>1. /\ batch' = [batch EXCEPT ![r] = {}] /\ published' = published \cup batch[r]
        /\ attempts' = [e \in Ids |-> IF e \in batch[r] THEN attempts[e] + 1 ELSE attempts[e]]
        /\ UNCHANGED <<minted, open, outbox, late, lost>>
        /\ batch[r] \subseteq Ids
    BY <1>3 DEF CommitPass, outboxVars, RelayInv, TypeOK
  <2>2. TypeOK'
    <3>1. TypeOKOutbox'
      BY <2>1 DEF RelayInv, TypeOK, TypeOKOutbox
    <3>2. published' \subseteq outbox'
      BY <2>1 DEF RelayInv, TypeOK, Disjoint
    <3>3. batch' \in [Relays -> SUBSET Ids]
      BY <2>1 DEF RelayInv, TypeOK
    <3>4. attempts' \in [Ids -> Nat]
      BY <2>1 DEF RelayInv, TypeOK
    <3>5. lost' \in 0 .. MaxLost
      BY <2>1 DEF RelayInv, TypeOK
    <3> QED BY <3>1, <3>2, <3>3, <3>4, <3>5 DEF TypeOK
  <2>3. Disjoint'
    BY <2>1 DEF RelayInv, TypeOK, Disjoint
  <2>4. PublishedOnce'
    BY <2>1 DEF RelayInv, TypeOK, Disjoint, PublishedOnce
  <2> QED BY <2>2, <2>3, <2>4 DEF RelayInv
<1>4. ASSUME NEW r \in Relays, LosePass(r) PROVE RelayInv'
  <2>1. TypeOK'
    BY <1>4, LostAssumption DEF LosePass, outboxVars, RelayInv, TypeOK, TypeOKOutbox
  <2>2. Disjoint' /\ PublishedOnce'
    BY <1>4 DEF LosePass, outboxVars, RelayInv, TypeOK, Disjoint, PublishedOnce
  <2> QED BY <2>1, <2>2 DEF RelayInv
<1>5. CASE UNCHANGED vars
  BY <1>5 DEF vars, outboxVars, RelayInv, TypeOK, TypeOKOutbox, Disjoint, PublishedOnce
<1> QED BY <1>1, <1>2, <1>3, <1>4, <1>5 DEF Next


-----------------------------------------------------------------------------
(* The stream *)

\* The types of what a page and its stream keep.
PageTypes ==
  /\ conn \in [Clients -> {"new", "off", "resuming", "streaming"}]
  /\ opened \in [Clients -> BOOLEAN]
  /\ lastId \in [Clients -> 0 .. MaxEvents]
  /\ box \in [Clients -> SUBSET outbox]
  /\ overflow \in [Clients -> BOOLEAN]
  /\ replay \in [Clients -> SUBSET outbox]
  /\ through \in [Clients -> 0 .. MaxEvents]
  /\ covered \in [Clients -> SUBSET outbox]
  /\ base \in [Clients -> 0 .. MaxEvents]

PollerTypes ==
  /\ booted \in BOOLEAN /\ cursor \in 0 .. MaxEvents /\ fetched \subseteq outbox
  /\ restarts \in 0 .. MaxRestarts

Known == outbox \cup {0}

\* The poller has read every row that was committed in the order of its id up to the last
\* row it read, and nothing at or behind its cursor.
PollerInv ==
  /\ cursor \in Known
  /\ ~booted => cursor = 0 /\ fetched = {}
  /\ \A f \in fetched : f > cursor
  /\ \A f \in fetched, e \in outbox \ late : cursor < e /\ e <= f => e \in fetched

\* What is kept for a page without a stream, and no more than the mailbox holds.
Bounded(c) ==
  /\ Cardinality(box[c]) <= Buffer
  /\ ~Connected(c) => box[c] = {} /\ replay[c] = {} /\ ~overflow[c] /\ through[c] = 0

\* The mailbox is behind the poller, the replay between lastEventId and replayed_through; a
\* page that resumes reflects every event up to its lastEventId; once the replay is behind
\* it, what is left in the mailbox is newer than what it was sent.
PageInv(c) ==
  /\ lastId[c] \in Known /\ through[c] \in Known
  /\ \A e \in box[c] : e <= cursor
  /\ \A e \in replay[c] : lastId[c] < e /\ e <= through[c]
  /\ Connected(c) \/ lastId[c] # 0 => opened[c]
  /\ conn[c] = "resuming" =>
       /\ replay[c] = {} /\ through[c] = 0
       /\ \A e \in outbox \ (covered[c] \cup late) : lastId[c] < e
  /\ through[c] # 0 =>
       \/ lastId[c] <= through[c]
       \/ lastId[c] <= cursor /\ \A e \in box[c] : lastId[c] < e

\* NoSilentLoss for one page.
Announced(c) ==
  Connected(c) => \A e \in outbox \ (covered[c] \cup late) : e <= base[c] \/ OnItsWay(c, e)

Served(c) == Bounded(c) /\ PageInv(c) /\ Announced(c)

StreamInv ==
  /\ TypeOKOutbox /\ PollerTypes /\ PageTypes
  /\ PollerInv
  /\ \A c \in Clients : Served(c)

\* StreamInv is TypeOKStream, NoSilentLoss and what makes them inductive.
LEMMA StreamInvImplies == StreamInv => LossIsAnnounced
<1> SUFFICES ASSUME StreamInv PROVE LossIsAnnounced
  OBVIOUS
<1>1. TypeOKStream
  BY DEF StreamInv, PollerTypes, PageTypes, Served, Bounded, TypeOKStream
<1>2. NoSilentLoss
  BY DEF StreamInv, Served, Announced, NoSilentLoss
<1> QED BY <1>1, <1>2 DEF LossIsAnnounced

\* The rows of the outbox and its parts are finite sets of ids.
LEMMA RowsAreFinite ==
  ASSUME TypeOKOutbox
  PROVE  /\ outbox \in SUBSET Nat /\ IsFiniteSet(outbox)
         /\ \A e \in outbox : e \in 1 .. MaxEvents
         /\ Known \in SUBSET Nat /\ IsFiniteSet(Known) /\ Known # {} /\ Known \subseteq 0 .. MaxEvents
<1>1. minted \in Nat /\ minted <= MaxEvents /\ outbox \in SUBSET (1 .. minted)
  BY EventsAssumption DEF TypeOKOutbox
<1>2. IsFiniteSet(1 .. minted)
  BY <1>1, FS_Interval
<1>3. outbox \in SUBSET Nat /\ IsFiniteSet(outbox)
  <2>1. outbox \in SUBSET Nat
    BY <1>1
  <2>2. IsFiniteSet(outbox)
    BY <1>1, <1>2, FS_Subset
  <2> QED BY <2>1, <2>2
<1>4. \A e \in outbox : e \in 1 .. MaxEvents
  BY <1>1, EventsAssumption
<1>5. IsFiniteSet(Known)
  BY <1>3, FS_AddElement DEF Known
<1>6. Known \in SUBSET Nat /\ Known # {} /\ Known \subseteq 0 .. MaxEvents
  BY <1>3, <1>4, EventsAssumption DEF Known
<1> QED BY <1>3, <1>4, <1>5, <1>6

\* A step that leaves everything a page depends on leaves the page as it was.
LEMMA OtherPage ==
  ASSUME NEW c \in Clients, Served(c),
         UNCHANGED <<outbox, late, cursor>>,
         conn'[c] = conn[c], opened'[c] = opened[c], lastId'[c] = lastId[c], box'[c] = box[c],
         overflow'[c] = overflow[c], replay'[c] = replay[c], through'[c] = through[c],
         covered'[c] = covered[c], base'[c] = base[c]
  PROVE  Served(c)'
<1>1. Bounded(c)'
  BY DEF Served, Bounded, Connected
<1>2. PageInv(c)'
  BY DEF Served, PageInv, Connected, Known
<1>3. Announced(c)'
  BY DEF Served, Announced, OnItsWay, Connected
<1> QED BY <1>1, <1>2, <1>3 DEF Served

\* A producer's step: a row that commits in the order of its id is ahead of every cursor.
LEMMA StreamProduce ==
  ASSUME StreamInv, Produce, UNCHANGED streamVars
  PROVE  StreamInv'
<1>0. UNCHANGED <<booted, cursor, fetched, restarts, conn, opened, lastId, box, overflow,
                  replay, through, covered, base>>
  BY DEF streamVars, hubVars, connVars, pageVars
<1>1. TypeOKOutbox' /\ outbox \subseteq outbox'
  BY ProduceType DEF StreamInv
<1>2. PollerTypes' /\ PageTypes'
  BY <1>0, <1>1 DEF StreamInv, PollerTypes, PageTypes
<1>3. ASSUME outbox' = outbox, late' = late PROVE StreamInv'
  <2>1. \A c \in Clients : Served(c)'
    BY <1>0, <1>3, OtherPage DEF StreamInv
  <2>2. PollerInv'
    BY <1>0, <1>3 DEF StreamInv, PollerInv, Known
  <2> QED BY <1>1, <1>2, <2>1, <2>2 DEF StreamInv
<1>4. ASSUME NEW e \in Ids, Commit(e) PROVE StreamInv'
  <2>1. /\ outbox' = outbox \cup {e} /\ late \subseteq late'
        /\ e \notin late' => \A f \in outbox : ~ (f > e)
    BY <1>4 DEF Commit
  <2>2. e \in open /\ e \notin outbox /\ e \in Nat /\ e > 0
    BY <1>4, EventsAssumption DEF Commit, StreamInv, TypeOKOutbox, Ids
  <2>3. \A f \in outbox : f \in Nat
    BY RowsAreFinite DEF StreamInv
  <2>4. e \notin late' => \A f \in Known : f < e
    BY <2>1, <2>2, <2>3 DEF Known
  <2>5. PollerInv'
    <3>1. \A f \in fetched : f \in Known /\ f \in Nat
      BY <2>3 DEF StreamInv, PollerTypes, Known
    <3> QED BY <1>0, <2>1, <2>2, <2>4, <3>1 DEF StreamInv, PollerInv, Known
  <2>6. ASSUME NEW c \in Clients PROVE Served(c)'
    <3>0. Bounded(c) /\ PageInv(c) /\ Announced(c)
      BY DEF StreamInv, Served
    <3>1. Bounded(c)'
      BY <1>0, <3>0 DEF Bounded, Connected
    <3>2. PageInv(c)'
      BY <1>0, <2>1, <2>4, <3>0 DEF PageInv, Connected, Known
    <3>3. cursor \in Known /\ through[c] \in Known
      BY <3>0 DEF PageInv, StreamInv, PollerInv
    <3>4. Announced(c)'
      BY <1>0, <2>1, <2>4, <3>0, <3>3 DEF Announced, OnItsWay, Connected
    <3> QED BY <3>1, <3>2, <3>4 DEF Served
  <2> QED BY <1>1, <1>2, <2>5, <2>6 DEF StreamInv
<1>5. ASSUME Mint PROVE StreamInv'
  BY <1>3, <1>5 DEF Mint
<1>6. ASSUME NEW e \in Ids, Rollback(e) PROVE StreamInv'
  BY <1>3, <1>6 DEF Rollback
<1> QED BY <1>4, <1>5, <1>6 DEF Produce

\* The poller starts at the tail.
LEMMA StreamBoot ==
  ASSUME StreamInv, Boot
  PROVE  StreamInv'
<1>1. /\ ~booted /\ booted' = TRUE /\ cursor' = Max(Known)
      /\ base' = [c \in Clients |-> IF Connected(c) THEN cursor' ELSE base[c]]
      /\ UNCHANGED <<minted, open, outbox, late, fetched, restarts, conn, opened, lastId, box,
                     overflow, replay, through, covered>>
  BY DEF Boot, outboxVars, connVars, Known
<1>2. cursor' \in Known /\ (\A e \in Known : e <= cursor') /\ cursor' \in 0 .. MaxEvents
  <2>1. Known \in SUBSET Nat /\ IsFiniteSet(Known) /\ Known # {} /\ Known \subseteq 0 .. MaxEvents
    BY RowsAreFinite DEF StreamInv
  <2> QED BY <1>1, <2>1, MinMax
<1>3. cursor = 0 /\ fetched = {}
  BY <1>1 DEF StreamInv, PollerInv
<1>4. TypeOKOutbox' /\ PollerTypes'
  BY <1>1, <1>2 DEF StreamInv, TypeOKOutbox, PollerTypes
<1>5. PageTypes'
  BY <1>1, <1>2 DEF StreamInv, PageTypes
<1>6. PollerInv'
  BY <1>1, <1>2, <1>3 DEF StreamInv, PollerInv, Known
<1>7. ASSUME NEW c \in Clients PROVE Served(c)'
  <2>0. Bounded(c) /\ PageInv(c) /\ Announced(c)
    BY DEF StreamInv, Served
  <2>1. Bounded(c)'
    BY <1>1, <2>0 DEF Bounded, Connected
  <2>2. \A e \in box[c] : e \in Known
    BY DEF StreamInv, PageTypes, Known
  <2>3. PageInv(c)'
    BY <1>1, <1>2, <1>3, <2>0, <2>2 DEF PageInv, Connected, Known
  <2>4. \A e \in outbox : e \in Known
    BY DEF Known
  <2>5. Announced(c)'
    BY <1>1, <1>2, <2>0, <2>4 DEF Announced, Connected
  <2> QED BY <2>1, <2>3, <2>5 DEF Served
<1> QED BY <1>4, <1>5, <1>6, <1>7 DEF StreamInv

\* The poller reads the rows that follow its cursor, as many as it may.
LEMMA StreamPollRead ==
  ASSUME StreamInv, PollRead
  PROVE  StreamInv'
<1> DEFINE new == {e \in outbox : e > cursor}
<1>1. /\ booted /\ fetched' = FirstN(new, PollLimit)
      /\ UNCHANGED <<minted, open, outbox, late, booted, cursor, restarts, conn, opened, lastId,
                     box, overflow, replay, through, covered, base>>
  BY DEF PollRead, FetchAfter, outboxVars, connVars, pageVars
<1>2. new \in SUBSET Nat /\ IsFiniteSet(new) /\ new \in SUBSET outbox
  <2>1. outbox \in SUBSET Nat /\ IsFiniteSet(outbox)
    BY RowsAreFinite DEF StreamInv
  <2>2. new \in SUBSET outbox
    OBVIOUS
  <2> HIDE DEF new
  <2> QED BY <2>1, <2>2, FS_Subset
<1>3. /\ fetched' \in SUBSET new
      /\ \A f \in fetched', e \in new : e <= f => e \in fetched'
  <2> HIDE DEF new
  <2> QED BY <1>1, <1>2, FirstNFacts, LimitsAssumption
<1>4. TypeOKOutbox' /\ PollerTypes' /\ PageTypes'
  BY <1>1, <1>3 DEF StreamInv, TypeOKOutbox, PollerTypes, PageTypes
<1>5. PollerInv'
  BY <1>1, <1>3 DEF StreamInv, PollerInv, Known
<1>6. \A c \in Clients : Served(c)'
  BY <1>1, OtherPage DEF StreamInv
<1> QED BY <1>4, <1>5, <1>6 DEF StreamInv

\* The poller hands what it read to every mailbox: what does not fit is announced.
LEMMA StreamPublish ==
  ASSUME StreamInv, Publish
  PROVE  StreamInv'
<1>1. /\ fetched # {} /\ cursor' = Max(fetched) /\ fetched' = {}
      /\ box' = [c \in Clients |-> IF Connected(c) THEN box[c] \cup Fits(c) ELSE box[c]]
      /\ overflow' = [c \in Clients |-> overflow[c] \/ (Connected(c) /\ Fits(c) # fetched)]
      /\ UNCHANGED <<minted, open, outbox, late, booted, restarts, conn, opened, lastId, replay,
                     through, covered, base>>
  BY DEF Publish, outboxVars, pageVars
<1>2. fetched \in SUBSET Nat /\ IsFiniteSet(fetched) /\ fetched \in SUBSET outbox
  <2>1. outbox \in SUBSET Nat /\ IsFiniteSet(outbox) /\ fetched \in SUBSET outbox
    BY RowsAreFinite DEF StreamInv, PollerTypes
  <2>2. IsFiniteSet(fetched)
    BY <2>1, FS_Subset
  <2> QED BY <2>1, <2>2
<1>3. cursor' \in fetched /\ (\A f \in fetched : f <= cursor') /\ cursor' \in 1 .. MaxEvents
  <2>1. cursor' \in fetched /\ \A f \in fetched : f <= cursor'
    BY <1>1, <1>2, MinMax
  <2> QED BY <1>2, <2>1, RowsAreFinite DEF StreamInv
<1>4. cursor \in Nat /\ cursor < cursor' /\ booted
  BY <1>1, <1>3, EventsAssumption DEF StreamInv, PollerInv, PollerTypes
<1>5. ASSUME NEW c \in Clients
      PROVE  /\ Fits(c) \in SUBSET fetched
             /\ Cardinality(box[c] \cup Fits(c)) <= Buffer
  <2>1. Cardinality(box[c]) <= Buffer /\ IsFiniteSet(box[c]) /\ Cardinality(box[c]) \in Nat
    <3>1. outbox \in SUBSET Nat /\ IsFiniteSet(outbox) /\ box[c] \in SUBSET outbox
      BY RowsAreFinite DEF StreamInv, PageTypes
    <3>2. IsFiniteSet(box[c]) /\ Cardinality(box[c]) \in Nat
      BY <3>1, FS_Subset, FS_CardinalityType
    <3> QED BY <3>2 DEF StreamInv, Served, Bounded
  <2>2. Buffer - Cardinality(box[c]) \in Nat
    BY <2>1, LimitsAssumption
  <2>3. /\ Fits(c) \in SUBSET fetched /\ IsFiniteSet(Fits(c))
        /\ Cardinality(Fits(c)) \in 0 .. (Buffer - Cardinality(box[c]))
    BY <1>2, <2>2, FirstNFacts DEF Fits
  <2>4. /\ Cardinality(box[c] \cup Fits(c))
             = Cardinality(box[c]) + Cardinality(Fits(c)) - Cardinality(box[c] \cap Fits(c))
        /\ Cardinality(box[c] \cap Fits(c)) \in Nat
    BY <2>1, <2>3, FS_Union, FS_Intersection, FS_CardinalityType
  <2> QED BY <2>1, <2>3, <2>4, LimitsAssumption
<1>6. TypeOKOutbox' /\ PollerTypes'
  BY <1>1, <1>3 DEF StreamInv, TypeOKOutbox, PollerTypes
<1>7. PageTypes'
  <2>1. box' \in [Clients -> SUBSET outbox']
    BY <1>1, <1>2, <1>5 DEF StreamInv, PageTypes
  <2>2. overflow' \in [Clients -> BOOLEAN]
    BY <1>1 DEF StreamInv, PageTypes
  <2> QED BY <1>1, <2>1, <2>2 DEF StreamInv, PageTypes
<1>8. PollerInv'
  BY <1>1, <1>2, <1>3, <1>4 DEF StreamInv, PollerInv, Known
<1>9. ASSUME NEW c \in Clients PROVE Served(c)'
  <2>0. Bounded(c) /\ PageInv(c) /\ Announced(c)
    BY DEF StreamInv, Served
  <2>1. Bounded(c)'
    BY <1>1, <1>5, <2>0 DEF Bounded, Connected
  <2>2. /\ \A e \in box[c] : e \in Nat
        /\ \A e \in Fits(c) : e \in Nat /\ cursor < e /\ e <= cursor'
        /\ box'[c] = IF Connected(c) THEN box[c] \cup Fits(c) ELSE box[c]
        /\ overflow'[c] = (overflow[c] \/ (Connected(c) /\ Fits(c) # fetched))
    <3>1. \A e \in box[c] : e \in Nat
      BY RowsAreFinite DEF StreamInv, PageTypes
    <3> QED BY <1>1, <1>2, <1>3, <1>5, <3>1 DEF StreamInv, PollerInv
  <2>3. lastId[c] \in Nat
    BY EventsAssumption DEF StreamInv, PageTypes
  <2>4. PageInv(c)'
    <3>1. \A e \in box'[c] : e <= cursor'
      BY <1>3, <1>4, <2>0, <2>2 DEF PageInv
    <3>2. lastId[c] <= cursor /\ (\A e \in box[c] : lastId[c] < e)
            => lastId[c] <= cursor' /\ \A e \in box'[c] : lastId[c] < e
      BY <1>3, <1>4, <2>2, <2>3
    <3> QED BY <1>1, <2>0, <3>1, <3>2 DEF PageInv, Connected, Known
  <2>5. Announced(c)'
    <3>1. SUFFICES ASSUME Connected(c), NEW e \in outbox \ (covered[c] \cup late), ~ (e <= base[c])
                   PROVE  OnItsWay(c, e)'
      BY <1>1 DEF Announced, Connected
    <3>2. OnItsWay(c, e)
      BY <2>0, <3>1 DEF Announced
    <3>3. e \in Nat
      BY RowsAreFinite DEF StreamInv
    <3>4. CASE e > cursor /\ e > through[c] /\ ~ (e > cursor')
      <4>1. e \in fetched
        BY <1>1, <1>3, <1>4, <3>1, <3>3, <3>4 DEF StreamInv, PollerInv
      <4> QED BY <1>1, <2>2, <3>1, <3>4, <4>1 DEF OnItsWay
    <3>5. CASE ~ (e > cursor /\ e > through[c] /\ ~ (e > cursor'))
      BY <1>1, <2>2, <3>1, <3>2, <3>5 DEF OnItsWay
    <3> QED BY <3>4, <3>5
  <2> QED BY <2>1, <2>4, <2>5 DEF Served
<1> QED BY <1>6, <1>7, <1>8, <1>9 DEF StreamInv

\* The API process goes, and every stream with it.
LEMMA StreamRestart ==
  ASSUME StreamInv, Restart
  PROVE  StreamInv'
<1>1. /\ restarts < MaxRestarts /\ restarts' = restarts + 1
      /\ booted' = FALSE /\ cursor' = 0 /\ fetched' = {}
      /\ conn' = [c \in Clients |-> IF conn[c] = "new" THEN "new" ELSE "off"]
      /\ box' = [c \in Clients |-> {}] /\ overflow' = [c \in Clients |-> FALSE]
      /\ replay' = [c \in Clients |-> {}] /\ through' = [c \in Clients |-> 0]
      /\ UNCHANGED <<minted, open, outbox, late, opened, lastId, covered, base>>
  BY DEF Restart, outboxVars, pageVars
<1>2. TypeOKOutbox' /\ PollerTypes' /\ PollerInv'
  <2>1. TypeOKOutbox'
    BY <1>1 DEF StreamInv, TypeOKOutbox
  <2>2. restarts + 1 \in 0 .. MaxRestarts
    BY <1>1, LimitsAssumption DEF StreamInv, PollerTypes
  <2>3. 0 \in 0 .. MaxEvents
    BY EventsAssumption
  <2>4. PollerTypes'
    BY <1>1, <2>2, <2>3 DEF PollerTypes
  <2>5. PollerInv'
    BY <1>1 DEF PollerInv, Known
  <2> QED BY <2>1, <2>4, <2>5
<1>3. PageTypes'
  BY <1>1, EventsAssumption DEF StreamInv, PageTypes
<1>4. ASSUME NEW c \in Clients PROVE Served(c)'
  <2>0. Bounded(c) /\ PageInv(c)
    BY DEF StreamInv, Served
  <2>1. ~ Connected(c)' /\ conn'[c] # "resuming"
    BY <1>1 DEF Connected
  <2>2. Cardinality(box'[c]) <= Buffer
    BY <1>1, FS_EmptySet, LimitsAssumption
  <2>3. Bounded(c)' /\ Announced(c)'
    BY <1>1, <2>1, <2>2 DEF Bounded, Announced
  <2>4. PageInv(c)'
    BY <1>1, <2>0, <2>1 DEF PageInv, Known
  <2> QED BY <2>3, <2>4 DEF Served
<1> QED BY <1>2, <1>3, <1>4 DEF StreamInv

\* A page mounts.
LEMMA StreamMount ==
  ASSUME StreamInv, NEW c \in Clients, Mount(c)
  PROVE  StreamInv'
<1>1. /\ conn[c] = "new" /\ conn' = [conn EXCEPT ![c] = "off"]
      /\ covered' = [covered EXCEPT ![c] = outbox]
      /\ UNCHANGED <<minted, open, outbox, late, booted, cursor, fetched, restarts, opened, lastId,
                     box, overflow, replay, through, base>>
  BY DEF Mount, outboxVars, hubVars
<1>2. TypeOKOutbox' /\ PollerTypes' /\ PollerInv'
  BY <1>1 DEF StreamInv, TypeOKOutbox, PollerTypes, PollerInv, Known
<1>3. PageTypes'
  BY <1>1 DEF StreamInv, PageTypes
<1>4. conn'[c] = "off" /\ covered'[c] = outbox
  BY <1>1 DEF StreamInv, PageTypes
<1>5. Served(c)'
  <2>1. Bounded(c) /\ PageInv(c) /\ ~ Connected(c) /\ ~ Connected(c)'
    BY <1>1, <1>4 DEF StreamInv, Served, Connected
  <2>2. Bounded(c)' /\ PageInv(c)' /\ Announced(c)'
    BY <1>1, <1>4, <2>1 DEF Bounded, PageInv, Announced, Known
  <2> QED BY <2>2 DEF Served
<1>6. ASSUME NEW d \in Clients, d # c PROVE Served(d)'
  <2>1. conn'[d] = conn[d] /\ covered'[d] = covered[d]
    BY <1>1, <1>6 DEF StreamInv, PageTypes
  <2> QED BY <1>1, <2>1, OtherPage DEF StreamInv
<1> QED BY <1>2, <1>3, <1>5, <1>6 DEF StreamInv

\* A page connects: one that was open before reflects every row, one that was not has its
\* base at the poller's cursor.
LEMMA StreamOpen ==
  ASSUME StreamInv, NEW c \in Clients, Open(c)
  PROVE  StreamInv'
<1>1. /\ conn[c] = "off"
      /\ conn' = [conn EXCEPT ![c] = IF lastId[c] = 0 THEN "streaming" ELSE "resuming"]
      /\ opened' = [opened EXCEPT ![c] = TRUE]
      /\ covered' = [covered EXCEPT ![c] = IF opened[c] THEN outbox ELSE covered[c]]
      /\ base' = [base EXCEPT ![c] = IF opened[c] THEN 0 ELSE cursor]
      /\ UNCHANGED <<minted, open, outbox, late, booted, cursor, fetched, restarts, lastId,
                     box, overflow, replay, through>>
  BY DEF Open, outboxVars, hubVars
<1>2. TypeOKOutbox' /\ PollerTypes' /\ PollerInv'
  BY <1>1 DEF StreamInv, TypeOKOutbox, PollerTypes, PollerInv, Known
<1>3. PageTypes'
  <2>1. cursor \in 0 .. MaxEvents /\ 0 \in 0 .. MaxEvents
    BY EventsAssumption DEF StreamInv, PollerTypes
  <2> QED BY <1>1, <2>1 DEF StreamInv, PageTypes
<1>4. /\ conn'[c] = (IF lastId[c] = 0 THEN "streaming" ELSE "resuming") /\ opened'[c] = TRUE
      /\ covered'[c] = (IF opened[c] THEN outbox ELSE covered[c])
      /\ base'[c] = (IF opened[c] THEN 0 ELSE cursor)
  BY <1>1 DEF StreamInv, PageTypes
<1>5. Served(c)'
  <2>1. /\ Bounded(c) /\ PageInv(c)
        /\ box[c] = {} /\ replay[c] = {} /\ ~overflow[c] /\ through[c] = 0
    BY <1>1 DEF StreamInv, Served, Bounded, Connected
  <2>2. Bounded(c)'
    BY <1>1, <2>1 DEF Bounded
  <2>3. PageInv(c)'
    BY <1>1, <1>4, <2>1 DEF PageInv, Known
  <2>4. \A e \in outbox : e \in Nat /\ e > 0 /\ cursor \in Nat
    BY RowsAreFinite, EventsAssumption DEF StreamInv, PollerTypes
  <2>5. Announced(c)'
    BY <1>1, <1>4, <2>1, <2>4 DEF Announced, OnItsWay
  <2> QED BY <2>2, <2>3, <2>5 DEF Served
<1>6. ASSUME NEW d \in Clients, d # c PROVE Served(d)'
  <2>1. /\ conn'[d] = conn[d] /\ opened'[d] = opened[d]
        /\ covered'[d] = covered[d] /\ base'[d] = base[d]
    BY <1>1, <1>6 DEF StreamInv, PageTypes
  <2> QED BY <1>1, <2>1, OtherPage DEF StreamInv
<1> QED BY <1>2, <1>3, <1>5, <1>6 DEF StreamInv

\* The replay that was not cut off holds every row after lastEventId.
LEMMA WholeReplay ==
  ASSUME StreamInv, NEW c \in Clients,
         NEW missed, missed = FetchAfter(lastId[c], ReplayLimit + 1)
  PROVE  /\ missed \in SUBSET outbox /\ \A e \in missed : lastId[c] < e
         /\ Cardinality(missed) <= ReplayLimit => missed = {e \in outbox : e > lastId[c]}
         /\ Max(missed \cup {0}) \in Known /\ \A e \in missed : e <= Max(missed \cup {0})
         /\ missed # {} => lastId[c] <= Max(missed \cup {0})
<1> DEFINE new == {e \in outbox : e > lastId[c]}
<1>1. outbox \in SUBSET Nat /\ IsFiniteSet(outbox) /\ new \in SUBSET outbox
  BY RowsAreFinite DEF StreamInv
<1>2. new \in SUBSET Nat /\ IsFiniteSet(new) /\ ReplayLimit + 1 \in Nat
  <2> HIDE DEF new
  <2>1. IsFiniteSet(new)
    BY <1>1, FS_Subset
  <2>2. ReplayLimit + 1 \in Nat
    BY LimitsAssumption
  <2> QED BY <1>1, <2>1, <2>2
<1>3. missed = FirstN(new, ReplayLimit + 1)
  BY DEF FetchAfter
<1>4. /\ missed \in SUBSET new /\ IsFiniteSet(missed)
      /\ Cardinality(missed) \in Nat
      /\ Cardinality(missed) < ReplayLimit + 1 => missed = new
  <2> HIDE DEF new
  <2> DEFINE n == ReplayLimit + 1
  <2>1. n \in Nat /\ missed = FirstN(new, n)
    BY <1>2, <1>3
  <2> HIDE DEF n
  <2>2. /\ missed \in SUBSET new /\ IsFiniteSet(missed)
        /\ Cardinality(missed) \in 0 .. n
        /\ Cardinality(missed) < n => missed = new
    BY <1>2, <2>1, FirstNFacts
  <2> QED BY <2>1, <2>2 DEF n
<1>5. Cardinality(missed) <= ReplayLimit => missed = new
  BY <1>4, LimitsAssumption
<1>6. missed \cup {0} \in SUBSET Nat /\ IsFiniteSet(missed \cup {0}) /\ missed \cup {0} # {}
  <2>1. IsFiniteSet(missed \cup {0})
    BY <1>4, FS_AddElement
  <2> QED BY <1>2, <1>4, <2>1
<1>7. Max(missed \cup {0}) \in missed \cup {0} /\ \A e \in missed \cup {0} : e <= Max(missed \cup {0})
  BY <1>6, MinMax
<1>8. missed \in SUBSET outbox /\ \A e \in missed : lastId[c] < e
  BY <1>4
<1>9. lastId[c] \in Nat
  BY EventsAssumption DEF StreamInv, PageTypes
<1>10. missed # {} => lastId[c] <= Max(missed \cup {0})
  BY <1>1, <1>6, <1>7, <1>8, <1>9
<1> QED BY <1>5, <1>7, <1>8, <1>10 DEF Known

\* The replay is read, or the resync that stands for it is sent.
LEMMA StreamReadReplay ==
  ASSUME StreamInv, NEW c \in Clients, NEW failed \in BOOLEAN, ReadReplay(c, failed)
  PROVE  StreamInv'
<1> DEFINE missed == FetchAfter(lastId[c], ReplayLimit + 1)
<1>1. /\ conn[c] = "resuming" /\ conn' = [conn EXCEPT ![c] = "streaming"]
      /\ \/ /\ covered' = [covered EXCEPT ![c] = outbox]
            /\ base' = [base EXCEPT ![c] = 0]
            /\ replay' = replay /\ through' = through
         \/ /\ ~ (Cardinality(missed) > ReplayLimit)
            /\ replay' = [replay EXCEPT ![c] = missed]
            /\ through' = [through EXCEPT ![c] = Max(missed \cup {0})]
            /\ covered' = covered /\ base' = base
      /\ UNCHANGED <<minted, open, outbox, late, booted, cursor, fetched, restarts, opened, lastId,
                     box, overflow>>
  BY DEF ReadReplay, outboxVars, hubVars
<1>2. /\ missed \in SUBSET outbox /\ \A e \in missed : lastId[c] < e
      /\ ~ (Cardinality(missed) > ReplayLimit) => missed = {e \in outbox : e > lastId[c]}
      /\ Max(missed \cup {0}) \in Known /\ \A e \in missed : e <= Max(missed \cup {0})
      /\ missed # {} => lastId[c] <= Max(missed \cup {0})
  <2> HIDE DEF missed
  <2>1. missed = FetchAfter(lastId[c], ReplayLimit + 1)
    BY DEF missed
  <2>2. missed \in SUBSET outbox
    BY <2>1, WholeReplay
  <2>3. Cardinality(missed) \in Nat
    BY <2>2, RowsAreFinite, FS_Subset, FS_CardinalityType DEF StreamInv
  <2>4. ~ (Cardinality(missed) > ReplayLimit) => Cardinality(missed) <= ReplayLimit
    BY <2>3, LimitsAssumption
  <2> QED BY <2>1, <2>4, WholeReplay
<1> HIDE DEF missed
<1>3. TypeOKOutbox' /\ PollerTypes' /\ PollerInv'
  BY <1>1 DEF StreamInv, TypeOKOutbox, PollerTypes, PollerInv, Known
<1>4. PageTypes'
  <2>1. Max(missed \cup {0}) \in 0 .. MaxEvents /\ 0 \in 0 .. MaxEvents
    BY <1>2, RowsAreFinite, EventsAssumption DEF StreamInv
  <2> QED BY <1>1, <1>2, <2>1 DEF StreamInv, PageTypes
<1>5. Served(c)'
  <2>0. Bounded(c) /\ PageInv(c) /\ Announced(c) /\ Connected(c) /\ Connected(c)' /\ conn'[c] = "streaming"
    BY <1>1 DEF StreamInv, Served, Connected, PageTypes
  <2>1. CASE covered'[c] = outbox /\ replay' = replay /\ through' = through
    <3>1. Bounded(c)' /\ PageInv(c)' /\ Announced(c)'
      BY <1>1, <2>0, <2>1 DEF Bounded, PageInv, Announced, Known
    <3> QED BY <3>1 DEF Served
  <2>2. CASE /\ missed = {e \in outbox : e > lastId[c]}
             /\ replay'[c] = missed /\ through'[c] = Max(missed \cup {0})
             /\ covered' = covered /\ base' = base
    <3>1. Bounded(c)'
      BY <1>1, <2>0 DEF Bounded
    <3>2. through'[c] # 0 => missed # {}
      <4>1. missed = {} => Max({0}) = 0
        BY DEF Max
      <4>2. missed = {} => missed \cup {0} = {0}
        OBVIOUS
      <4> QED BY <2>2, <4>1, <4>2
    <3>3. PageInv(c)'
      BY <1>1, <1>2, <2>0, <2>2, <3>2 DEF PageInv, Known
    <3>4. Announced(c)'
      BY <1>1, <2>0, <2>2 DEF PageInv, Announced, OnItsWay
    <3> QED BY <3>1, <3>3, <3>4 DEF Served
  <2> QED BY <1>1, <1>2, <2>1, <2>2 DEF StreamInv, PageTypes
<1>6. ASSUME NEW d \in Clients, d # c PROVE Served(d)'
  <2>1. /\ conn'[d] = conn[d] /\ replay'[d] = replay[d] /\ through'[d] = through[d]
        /\ covered'[d] = covered[d] /\ base'[d] = base[d]
    BY <1>1, <1>6 DEF StreamInv, PageTypes
  <2> QED BY <1>1, <2>1, OtherPage DEF StreamInv
<1> QED BY <1>3, <1>4, <1>5, <1>6 DEF StreamInv

\* The next frame of the replay: the oldest of it, newer than any frame before.
LEMMA StreamYield ==
  ASSUME StreamInv, NEW c \in Clients, YieldReplay(c)
  PROVE  StreamInv' /\ lastId'[c] > lastId[c] /\ \A d \in Clients \ {c} : lastId'[d] = lastId[d]
<1> DEFINE e == Min(replay[c])
<1>1. /\ replay[c] # {}
      /\ replay' = [replay EXCEPT ![c] = replay[c] \ {e}]
      /\ lastId' = [lastId EXCEPT ![c] = e]
      /\ covered' = [covered EXCEPT ![c] = covered[c] \cup {e}]
      /\ UNCHANGED <<minted, open, outbox, late, booted, cursor, fetched, restarts, conn, opened,
                     box, overflow, through, base>>
  BY DEF YieldReplay, outboxVars, hubVars
<1>2. e \in replay[c] /\ e \in outbox /\ \A f \in replay[c] : e <= f /\ f \in Nat
  <2>1. outbox \in SUBSET Nat /\ IsFiniteSet(outbox) /\ replay[c] \in SUBSET outbox
    BY RowsAreFinite DEF StreamInv, PageTypes
  <2>2. replay[c] \in SUBSET Nat /\ IsFiniteSet(replay[c])
    BY <2>1, FS_Subset
  <2> QED BY <1>1, <2>1, <2>2, MinMax
<1>3. e \in Nat /\ e > 0 /\ e \in 0 .. MaxEvents /\ e \in Known
  BY <1>2, RowsAreFinite, EventsAssumption DEF StreamInv, Known
<1> HIDE DEF e
<1>4. TypeOKOutbox' /\ PollerTypes' /\ PollerInv'
  BY <1>1 DEF StreamInv, TypeOKOutbox, PollerTypes, PollerInv, Known
<1>5. PageTypes'
  BY <1>1, <1>2, <1>3 DEF StreamInv, PageTypes
<1>6. replay'[c] = replay[c] \ {e} /\ lastId'[c] = e /\ covered'[c] = covered[c] \cup {e}
  BY <1>1 DEF StreamInv, PageTypes
<1>7. Bounded(c) /\ PageInv(c) /\ Announced(c) /\ Connected(c) /\ conn[c] # "resuming"
  BY <1>1 DEF StreamInv, Served, Bounded, PageInv
<1>8. Served(c)'
  <2>1. Bounded(c)'
    BY <1>1, <1>7 DEF Bounded, Connected
  <2>2. e <= through[c]
    BY <1>2, <1>7 DEF PageInv
  <2>3. PageInv(c)'
    BY <1>1, <1>2, <1>3, <1>6, <1>7, <2>2 DEF PageInv, Connected, Known
  <2>4. Announced(c)'
    BY <1>1, <1>6, <1>7 DEF Announced, OnItsWay, Connected
  <2> QED BY <2>1, <2>3, <2>4 DEF Served
<1>9. ASSUME NEW d \in Clients, d # c PROVE Served(d)' /\ lastId'[d] = lastId[d]
  <2>1. replay'[d] = replay[d] /\ lastId'[d] = lastId[d] /\ covered'[d] = covered[d]
    BY <1>1, <1>9 DEF StreamInv, PageTypes
  <2> QED BY <1>1, <2>1, OtherPage DEF StreamInv
<1>10. lastId'[c] > lastId[c]
  BY <1>2, <1>3, <1>6, <1>7, EventsAssumption DEF PageInv, StreamInv, PageTypes
<1> QED BY <1>4, <1>5, <1>8, <1>9, <1>10 DEF StreamInv

\* The next event of the mailbox: a page that replayed something is sent no older one.
LEMMA StreamTake ==
  ASSUME StreamInv, NEW c \in Clients, Take(c)
  PROVE  /\ StreamInv'
         /\ through[c] # 0 /\ lastId'[c] # lastId[c] => lastId'[c] > lastId[c]
         /\ \A d \in Clients \ {c} : lastId'[d] = lastId[d]
<1> DEFINE e == Min(box[c])
           known == IF overflow[c] THEN outbox ELSE covered[c]
           shown == IF e <= through[c] THEN known ELSE known \cup {e}
<1>1. /\ conn[c] = "streaming" /\ replay[c] = {} /\ box[c] # {}
      /\ box' = [box EXCEPT ![c] = box[c] \ {e}]
      /\ overflow' = [overflow EXCEPT ![c] = FALSE]
      /\ lastId' = IF e <= through[c] THEN lastId ELSE [lastId EXCEPT ![c] = e]
      /\ covered' = [covered EXCEPT ![c] = shown]
      /\ base' = [base EXCEPT ![c] = IF overflow[c] THEN 0 ELSE base[c]]
      /\ UNCHANGED <<minted, open, outbox, late, booted, cursor, fetched, restarts, conn, opened,
                     replay, through>>
  BY DEF Take, outboxVars, hubVars
<1>2. /\ e \in box[c] /\ e \in outbox /\ \A f \in box[c] : e <= f /\ f \in Nat
      /\ Cardinality(box[c] \ {e}) <= Cardinality(box[c])
      /\ Cardinality(box[c] \ {e}) \in Nat /\ Cardinality(box[c]) \in Nat
  <2>1. outbox \in SUBSET Nat /\ IsFiniteSet(outbox) /\ box[c] \in SUBSET outbox
    BY RowsAreFinite DEF StreamInv, PageTypes
  <2>2. box[c] \in SUBSET Nat /\ IsFiniteSet(box[c])
    BY <2>1, FS_Subset
  <2>3. box[c] \ {e} \in SUBSET box[c]
    OBVIOUS
  <2>4. e \in box[c] /\ \A f \in box[c] : e <= f
    BY <1>1, <2>2, MinMax
  <2> HIDE DEF e
  <2>5. /\ Cardinality(box[c] \ {e}) <= Cardinality(box[c])
        /\ Cardinality(box[c] \ {e}) \in Nat /\ Cardinality(box[c]) \in Nat
    BY <2>2, <2>3, FS_Subset, FS_CardinalityType
  <2> QED BY <2>1, <2>2, <2>4, <2>5
<1>3. e \in Nat /\ e > 0 /\ e \in 0 .. MaxEvents /\ e \in Known
  BY <1>2, RowsAreFinite, EventsAssumption DEF StreamInv, Known
<1> HIDE DEF e
<1>4. TypeOKOutbox' /\ PollerTypes' /\ PollerInv'
  BY <1>1 DEF StreamInv, TypeOKOutbox, PollerTypes, PollerInv, Known
<1>5. PageTypes'
  <2>1. shown \in SUBSET outbox /\ 0 \in 0 .. MaxEvents
    BY <1>2, EventsAssumption DEF StreamInv, PageTypes
  <2> HIDE DEF shown
  <2>2. covered' \in [Clients -> SUBSET outbox'] /\ base' \in [Clients -> 0 .. MaxEvents]
    BY <1>1, <2>1 DEF StreamInv, PageTypes
  <2>3. box' \in [Clients -> SUBSET outbox'] /\ overflow' \in [Clients -> BOOLEAN]
    BY <1>1 DEF StreamInv, PageTypes
  <2>4. lastId' \in [Clients -> 0 .. MaxEvents]
    BY <1>1, <1>3 DEF StreamInv, PageTypes
  <2> QED BY <1>1, <2>2, <2>3, <2>4 DEF StreamInv, PageTypes
<1>6. /\ box'[c] = box[c] \ {e} /\ overflow'[c] = FALSE /\ covered'[c] = shown
      /\ lastId'[c] = (IF e <= through[c] THEN lastId[c] ELSE e)
  <2> HIDE DEF shown
  <2> QED BY <1>1 DEF StreamInv, PageTypes
<1>7. base'[c] = IF overflow[c] THEN 0 ELSE base[c]
  BY <1>1 DEF StreamInv, PageTypes
<1>8. Bounded(c) /\ PageInv(c) /\ Announced(c) /\ Connected(c) /\ Connected(c)'
  BY <1>1 DEF StreamInv, Served, Connected
<1>9. lastId[c] \in Nat /\ through[c] \in Nat /\ cursor \in Nat
  BY EventsAssumption DEF StreamInv, PageTypes, PollerTypes
<1>10. Served(c)'
  <2>1. Bounded(c)'
    BY <1>1, <1>2, <1>6, <1>8, LimitsAssumption DEF Bounded
  <2>2. PageInv(c)'
    <3>1. \A f \in box'[c] : f \in box[c] /\ e < f
      BY <1>2, <1>3, <1>6
    <3>2. e <= cursor
      BY <1>2, <1>8 DEF PageInv
    <3> QED BY <1>1, <1>3, <1>6, <1>8, <1>9, <3>1, <3>2 DEF PageInv, Known
  <2>3. Announced(c)'
    <3>1. SUFFICES ASSUME NEW f \in outbox \ (shown \cup late), ~ (f <= base'[c])
                   PROVE  OnItsWay(c, f)'
      BY <1>1, <1>6 DEF Announced
    <3>2. ~ overflow[c] /\ f \notin covered[c] /\ (f = e => e <= through[c])
      BY <3>1
    <3>3. f <= base[c] \/ OnItsWay(c, f)
      BY <1>8, <3>1, <3>2 DEF Announced
    <3> QED BY <1>1, <1>3, <1>6, <1>7, <1>9, <3>1, <3>2, <3>3 DEF OnItsWay
  <2> QED BY <2>1, <2>2, <2>3 DEF Served
<1>11. ASSUME NEW d \in Clients, d # c PROVE Served(d)' /\ lastId'[d] = lastId[d]
  <2> HIDE DEF shown
  <2>1. /\ box'[d] = box[d] /\ overflow'[d] = overflow[d] /\ lastId'[d] = lastId[d]
        /\ covered'[d] = covered[d] /\ base'[d] = base[d]
    BY <1>1, <1>11 DEF StreamInv, PageTypes
  <2> QED BY <1>1, <2>1, OtherPage DEF StreamInv
<1>12. through[c] # 0 /\ lastId'[c] # lastId[c] => lastId'[c] > lastId[c]
  BY <1>2, <1>3, <1>6, <1>8, <1>9 DEF PageInv
<1> QED BY <1>4, <1>5, <1>10, <1>11, <1>12 DEF StreamInv

\* The connection drops.
LEMMA StreamDisconnect ==
  ASSUME StreamInv, NEW c \in Clients, Disconnect(c)
  PROVE  StreamInv'
<1>1. /\ Connected(c) /\ conn' = [conn EXCEPT ![c] = "off"]
      /\ box' = [box EXCEPT ![c] = {}] /\ overflow' = [overflow EXCEPT ![c] = FALSE]
      /\ replay' = [replay EXCEPT ![c] = {}] /\ through' = [through EXCEPT ![c] = 0]
      /\ UNCHANGED <<minted, open, outbox, late, booted, cursor, fetched, restarts, opened, lastId,
                     covered, base>>
  BY DEF Disconnect, outboxVars, hubVars, pageVars
<1>2. TypeOKOutbox' /\ PollerTypes' /\ PollerInv'
  BY <1>1 DEF StreamInv, TypeOKOutbox, PollerTypes, PollerInv, Known
<1>3. PageTypes'
  BY <1>1, EventsAssumption DEF StreamInv, PageTypes
<1>4. conn'[c] = "off" /\ box'[c] = {} /\ overflow'[c] = FALSE /\ replay'[c] = {} /\ through'[c] = 0
  BY <1>1 DEF StreamInv, PageTypes
<1>5. Served(c)'
  <2>0. Bounded(c) /\ PageInv(c)
    BY DEF StreamInv, Served
  <2>1. ~ Connected(c)'
    BY <1>4 DEF Connected
  <2>2. Bounded(c)' /\ Announced(c)'
    BY <1>4, <2>1, FS_EmptySet, LimitsAssumption DEF Bounded, Announced
  <2>3. PageInv(c)'
    BY <1>1, <1>4, <2>0, <2>1 DEF PageInv, Known
  <2> QED BY <2>2, <2>3 DEF Served
<1>6. ASSUME NEW d \in Clients, d # c PROVE Served(d)'
  <2>1. /\ conn'[d] = conn[d] /\ box'[d] = box[d] /\ overflow'[d] = overflow[d]
        /\ replay'[d] = replay[d] /\ through'[d] = through[d]
    BY <1>1, <1>6 DEF StreamInv, PageTypes
  <2> QED BY <1>1, <2>1, OtherPage DEF StreamInv
<1> QED BY <1>2, <1>3, <1>5, <1>6 DEF StreamInv

-----------------------------------------------------------------------------
(* The composition *)

Ascends == \A c \in Clients : through[c] # 0 /\ lastId'[c] # lastId[c] => lastId'[c] > lastId[c]

\* Every step of the producers, the schedulers, the API process and the pages keeps both
\* invariants, and takes no page back behind a replay.
LEMMA DeliveryStep ==
  RelayInv /\ StreamInv /\ [NextDelivery]_<<vars, streamVars>>
    => RelayInv' /\ StreamInv' /\ [Ascends]_eventStreamVars
<1> SUFFICES ASSUME RelayInv, StreamInv, [NextDelivery]_<<vars, streamVars>>
             PROVE  RelayInv' /\ StreamInv' /\ [Ascends]_eventStreamVars
  OBVIOUS
<1>1. ASSUME UNCHANGED <<outboxVars, streamVars>> PROVE StreamInv' /\ [Ascends]_eventStreamVars
  <2>1. UNCHANGED <<minted, open, outbox, late, booted, cursor, fetched, restarts, conn, opened,
                    lastId, box, overflow, replay, through, covered, base>>
    BY <1>1 DEF outboxVars, streamVars, hubVars, connVars, pageVars
  <2>2. TypeOKOutbox' /\ PollerTypes' /\ PageTypes' /\ PollerInv'
    BY <2>1 DEF StreamInv, TypeOKOutbox, PollerTypes, PageTypes, PollerInv, Known
  <2>3. \A c \in Clients : Served(c)'
    BY <2>1, OtherPage DEF StreamInv
  <2> QED BY <2>1, <2>2, <2>3 DEF StreamInv, Ascends
<1>2. ASSUME UNCHANGED <<outboxVars, relayVars>> PROVE RelayInv'
  BY <1>2, RelayStep DEF vars, relayVars
<1>3. ASSUME lastId' = lastId PROVE [Ascends]_eventStreamVars
  BY <1>3 DEF Ascends
<1>4. CASE Produce /\ UNCHANGED <<relayVars, streamVars>>
  <2>1. RelayInv'
    BY <1>4, RelayStep DEF Next, relayVars
  <2>2. StreamInv' /\ lastId' = lastId
    BY <1>4, StreamProduce DEF streamVars, pageVars
  <2> QED BY <1>3, <2>1, <2>2
<1>5. ASSUME NEW r \in Relays, Relay(r) \/ CommitPass(r) \/ LosePass(r), Marks
      PROVE  RelayInv' /\ StreamInv' /\ [Ascends]_eventStreamVars
  <2>1. RelayInv'
    BY <1>5, RelayStep DEF Next
  <2>2. UNCHANGED outboxVars
    BY <1>5 DEF Relay, CommitPass, LosePass
  <2> QED BY <1>1, <1>5, <2>1, <2>2 DEF Marks
<1>6. ASSUME Boot \/ PollRead \/ Publish \/ Restart, Serves
      PROVE  RelayInv' /\ StreamInv' /\ [Ascends]_eventStreamVars
  <2>1. UNCHANGED outboxVars /\ lastId' = lastId
    BY <1>6 DEF Boot, PollRead, Publish, Restart, pageVars
  <2>2. StreamInv'
    BY <1>6, StreamBoot, StreamPollRead, StreamPublish, StreamRestart
  <2> QED BY <1>2, <1>3, <1>6, <2>1, <2>2 DEF Serves
<1>7. ASSUME NEW c \in Clients, Mount(c) \/ Open(c) \/ Disconnect(c), Serves
      PROVE  RelayInv' /\ StreamInv' /\ [Ascends]_eventStreamVars
  <2>1. UNCHANGED outboxVars /\ lastId' = lastId
    BY <1>7 DEF Mount, Open, Disconnect, pageVars
  <2>2. StreamInv'
    BY <1>7, StreamMount, StreamOpen, StreamDisconnect
  <2> QED BY <1>2, <1>3, <1>7, <2>1, <2>2 DEF Serves
<1>8. ASSUME NEW c \in Clients, NEW failed \in BOOLEAN, ReadReplay(c, failed), Serves
      PROVE  RelayInv' /\ StreamInv' /\ [Ascends]_eventStreamVars
  <2>1. UNCHANGED outboxVars /\ lastId' = lastId
    BY <1>8 DEF ReadReplay
  <2>2. StreamInv'
    BY <1>8, StreamReadReplay
  <2> QED BY <1>2, <1>3, <1>8, <2>1, <2>2 DEF Serves
<1>9. ASSUME NEW c \in Clients, YieldReplay(c) \/ Take(c), Serves
      PROVE  RelayInv' /\ StreamInv' /\ [Ascends]_eventStreamVars
  <2>1. UNCHANGED outboxVars
    BY <1>9 DEF YieldReplay, Take
  <2>2. /\ StreamInv'
        /\ through[c] # 0 /\ lastId'[c] # lastId[c] => lastId'[c] > lastId[c]
        /\ \A d \in Clients \ {c} : lastId'[d] = lastId[d]
    BY <1>9, StreamYield, StreamTake
  <2>3. Ascends
    BY <2>2 DEF Ascends
  <2> QED BY <1>2, <1>9, <2>1, <2>2, <2>3 DEF Serves
<1>10. CASE UNCHANGED <<vars, streamVars>>
  <2>1. UNCHANGED <<outboxVars, relayVars, streamVars>>
    BY <1>10 DEF vars, relayVars
  <2> QED BY <1>1, <1>2, <2>1
<1> QED BY <1>4, <1>5, <1>6, <1>7, <1>8, <1>9, <1>10 DEF NextDelivery

\* Both invariants hold throughout.
LEMMA DeliveryInvariant == SpecDelivery => [](RelayInv /\ StreamInv)
<1>1. InitDelivery => RelayInv
  BY EventsAssumption, LostAssumption
  DEF InitDelivery, Init, InitOutbox, RelayInv, TypeOK, TypeOKOutbox, Disjoint, PublishedOnce, Ids
<1>2. ASSUME InitDelivery PROVE StreamInv
  <2>1. /\ minted = 0 /\ open = {} /\ outbox = {} /\ late = {}
        /\ booted = FALSE /\ cursor = 0 /\ fetched = {} /\ restarts = 0
        /\ conn = [c \in Clients |-> "new"] /\ opened = [c \in Clients |-> FALSE]
        /\ lastId = [c \in Clients |-> 0] /\ box = [c \in Clients |-> {}]
        /\ overflow = [c \in Clients |-> FALSE] /\ replay = [c \in Clients |-> {}]
        /\ through = [c \in Clients |-> 0] /\ covered = [c \in Clients |-> {}]
        /\ base = [c \in Clients |-> 0]
    BY <1>2 DEF InitDelivery, InitStream, InitOutbox
  <2>2. TypeOKOutbox /\ PollerTypes /\ PollerInv
    <3>1. TypeOKOutbox
      BY <2>1, EventsAssumption DEF TypeOKOutbox
    <3>2. 0 \in 0 .. MaxEvents /\ 0 \in 0 .. MaxRestarts
      BY EventsAssumption, LimitsAssumption
    <3>3. PollerTypes
      BY <2>1, <3>2 DEF PollerTypes
    <3>4. PollerInv
      BY <2>1 DEF PollerInv, Known
    <3> QED BY <3>1, <3>3, <3>4
  <2>3. PageTypes
    BY <2>1, EventsAssumption DEF PageTypes
  <2>4. ASSUME NEW c \in Clients PROVE Served(c)
    <3>1. ~ Connected(c) /\ Cardinality(box[c]) <= Buffer
      BY <2>1, FS_EmptySet, LimitsAssumption DEF Connected
    <3>2. Bounded(c) /\ Announced(c)
      BY <2>1, <3>1 DEF Bounded, Announced
    <3>3. PageInv(c)
      BY <2>1, <3>1 DEF PageInv, Known
    <3> QED BY <3>2, <3>3 DEF Served
  <2> QED BY <2>2, <2>3, <2>4 DEF StreamInv
<1> QED BY <1>1, <1>2, DeliveryStep, PTL DEF SpecDelivery

\* Every variable of the outbox and its relay keeps its type.
THEOREM RelayTypes == SpecDelivery => []TypeOK
<1>1. RelayInv => TypeOK
  BY DEF RelayInv
<1> QED BY <1>1, DeliveryInvariant, PTL

\* Whatever schedulers overlap and whatever passes are undone, a committed row is
\* published at most once.
THEOREM PublishedOnlyOnce == SpecDelivery => []PublishedOnce
<1>1. RelayInv => PublishedOnce
  BY DEF RelayInv
<1> QED BY <1>1, DeliveryInvariant, PTL

\* Whatever disconnects, overflows, restarts and failed replays a page meets, a row it does
\* not reflect is on its way to it or announced (_event_source, replay_after).
THEOREM NoLossIsSilent == SpecDelivery => []LossIsAnnounced
  BY StreamInvImplies, DeliveryInvariant, PTL

\* The live feed takes no page back behind the rows its replay handed over.
THEOREM TheFeedAscends == SpecDelivery => ReplayThenLiveAscends
<1>1. RelayInv /\ StreamInv /\ [NextDelivery]_<<vars, streamVars>> => [Ascends]_eventStreamVars
  BY DeliveryStep
<1> QED BY <1>1, DeliveryInvariant, PTL DEF SpecDelivery, ReplayThenLiveAscends, Ascends
=============================================================================
