-------------------------- MODULE MainboardProofs --------------------------
(* Theorems of Mainboard, for any items, work objects and requests.           *)
EXTENDS Mainboard, FiniteSetTheorems, TLAPS

-----------------------------------------------------------------------------
(* The invariant *)

Item ==
  [attached : {TRUE}, root : Roots, pin : 1 .. MaxHead, enabled : BOOLEAN, version : 1 .. MaxVersion]

Reading ==
  [op : {"attach"}, pc : {"checked", "hashed", "looked"}, item : Items, root : Roots, pin : 1 .. MaxHead,
   hash : Fingerprints, after : SUBSET Roots, event : Nat, late : BOOLEAN]
  \cup [op : {"patch"}, pc : {"seen", "locked", "ready", "hashed", "looked"}, item : Items,
        version : 1 .. MaxVersion, intent : Intents \cup {[kind |-> "none"]},
        hash : Fingerprints, after : SUBSET Roots, event : Nat, late : BOOLEAN]
  \cup [op : {"delete"}, pc : {"checked", "hashed", "looked"}, root : Roots, hash : Fingerprints,
        after : SUBSET Roots, event : Nat, late : BOOLEAN]

Report == [fp : Fingerprints, stored : BOOLEAN]

Types ==
  /\ root \in [Roots -> {"active", "deleted"}] /\ head \in [Roots -> 1 .. MaxHead]
  /\ changes \in 0 .. MaxChanges
  /\ item \in [Items -> {NoItem} \cup Item]
  /\ \A i \in Items : Attached(i) => item[i].pin <= head[item[i].root]
  /\ stored \in Fingerprints
  /\ reports \in Seq(Report)
  /\ latest \in 0 .. Len(reports) /\ (latest # 0 => reports[latest].stored)
  /\ itemLock \in [Items -> Requests \cup {None}]
  /\ rootLock \in [Roots -> Requests \cup {None}]
  /\ wsLock \in Requests \cup {None}
  /\ req \in [Requests -> Reading \cup {Done}]
  /\ missed \subseteq Items \cup Roots

\* The items with the member m that are enabled, and of them those whose root is active.
Showing(it, m) == {i \in Items : it[i].attached /\ it[i].enabled /\ <<it[i].root, it[i].pin>> = m}
Shown(it, m) == Cardinality(Showing(it, m))
PrintOf(it, rt) == [m \in Members |-> IF rt[m[1]] = "active" THEN Shown(it, m) ELSE 0]

\* Items and roots as the transaction of q leaves them: an attach has yet to count.
ItemsAfter(q) == IF req[q].op = "patch" THEN [item EXCEPT ![req[q].item] = Patched(q)] ELSE item
RootsAfter(q) == IF req[q].op = "delete" THEN [root EXCEPT ![req[q].root] = "deleted"] ELSE root

AttachMay(q) == ~Attached(req[q].item) /\ req[q].pin <= head[req[q].root]

PatchMay(q) ==
  LET i == req[q].item intent == req[q].intent IN
  /\ Attached(i) /\ req[q].version < MaxVersion
  /\ req[q].pc # "seen" =>
       /\ itemLock[i] = q /\ item[i].version = req[q].version /\ intent \in Intents
       /\ intent.kind = "pin" => intent.rev <= head[item[i].root]
  /\ req[q].pc = "locked" => intent.kind = "pin"
  /\ req[q].pc \in {"ready", "hashed", "looked"} /\ intent.kind = "pin" =>
       rootLock[item[i].root] = q /\ root[item[i].root] = "active"
  /\ req[q].pc \in {"hashed", "looked"} => intent.kind # "label"

DeleteMay(q) == rootLock[req[q].root] = q /\ root[req[q].root] = "active"

\* What q has computed counts no item but those that will be, and is what will be live
\* unless a root has changed since.
HashHolds(q) ==
  /\ wsLock = q
  /\ \A m \in Members : req[q].hash[m] <= Shown(ItemsAfter(q), m)
  /\ req[q].after = {} => req[q].hash = PrintOf(ItemsAfter(q), RootsAfter(q))

RequestHolds(q) ==
  /\ req[q].op = "attach" => AttachMay(q)
  /\ req[q].op = "patch" => PatchMay(q)
  /\ req[q].op = "delete" => DeleteMay(q)
  /\ Hashed(q) => HashHolds(q)

AttachedAlone ==
  \A p, q \in Requests :
    req[p].op = "attach" /\ req[q].op = "attach" /\ req[p].item = req[q].item => p = q

\* What is stored never counts an item that is not there.
StoredIsThere == \A m \in Members : stored[m] <= Shown(item, m)

\* Unless items were attached or roots changed since, what is stored is what is live.
Accounts == missed = {} => stored = PrintOf(item, root)

\* An event that q has written names a report about what is stored until q commits, and the
\* latest one, but for a report that came later.
EventHolds(q) ==
  /\ req[q] # Done /\ ~Looked(q) => req[q].event = 0
  /\ Hashed(q) /\ ~Looked(q) => req[q].hash # stored
  /\ Looked(q) =>
       /\ req[q].event # 0 => /\ req[q].event \in 1 .. Len(reports)
                              /\ reports[req[q].event].fp = stored /\ req[q].hash # stored
       /\ req[q].hash # stored /\ latest # 0 /\ reports[latest].fp = stored =>
            req[q].late \/ req[q].event = latest

EventsHold == \A q \in Requests : EventHolds(q)

Inv ==
  /\ Types
  /\ \A q \in Requests : RequestHolds(q)
  /\ AttachedAlone
  /\ StoredIsThere
  /\ Accounts

-----------------------------------------------------------------------------
(* Fingerprints *)

\* Counts of items are numbers, and no count exceeds the number of items.
LEMMA CountType ==
  ASSUME NEW S \in SUBSET Items
  PROVE  IsFiniteSet(S) /\ Cardinality(S) \in 0 .. Cardinality(Items)
<1>1. IsFiniteSet(Items)
  BY MainboardBoundsAssumption
<1>2. Cardinality(Items) \in Nat
  BY <1>1, FS_CardinalityType
<1>3. IsFiniteSet(S) /\ Cardinality(S) <= Cardinality(Items)
  BY <1>1, FS_Subset
<1>4. Cardinality(S) \in Nat
  BY <1>3, FS_CardinalityType
<1> QED BY <1>2, <1>3, <1>4

\* What is shown of items is a fingerprint.
LEMMA PrintType ==
  ASSUME NEW it, NEW rt
  PROVE  /\ PrintOf(it, rt) \in Fingerprints
         /\ \A m \in Members : Shown(it, m) \in 0 .. Cardinality(Items)
         /\ \A m \in Members : PrintOf(it, rt)[m] <= Shown(it, m)
<1>1. Cardinality(Items) \in Nat
  BY MainboardBoundsAssumption, FS_CardinalityType
<1>2. \A m \in Members : Shown(it, m) \in 0 .. Cardinality(Items)
  <2> TAKE m \in Members
  <2>1. Showing(it, m) \in SUBSET Items
    BY DEF Showing
  <2> QED BY <2>1, CountType DEF Shown
<1>3. \A m \in Members : PrintOf(it, rt)[m] \in 0 .. Cardinality(Items) /\ PrintOf(it, rt)[m] <= Shown(it, m)
  <2> TAKE m \in Members
  <2>1. PrintOf(it, rt)[m] = IF rt[m[1]] = "active" THEN Shown(it, m) ELSE 0
    BY DEF PrintOf
  <2> QED BY <2>1, <1>1, <1>2
<1>4. PrintOf(it, rt) \in [Members -> 0 .. Cardinality(Items)]
  BY <1>3 DEF PrintOf
<1> QED BY <1>2, <1>3, <1>4 DEF Fingerprints

\* Two tables of items that differ in nothing a fingerprint shows.
Alike(it, jt) ==
  \A i \in Items :
    /\ it[i].attached = jt[i].attached
    /\ it[i].attached => it[i].enabled = jt[i].enabled /\ it[i].root = jt[i].root /\ it[i].pin = jt[i].pin

\* They show the same.
LEMMA AlikeShowAlike ==
  ASSUME NEW it, NEW jt, Alike(it, jt)
  PROVE  /\ \A m : Shown(it, m) = Shown(jt, m)
         /\ \A rt : PrintOf(it, rt) = PrintOf(jt, rt)
<1>1. \A m : Showing(it, m) = Showing(jt, m)
  BY DEF Alike, Showing
<1>2. \A m : Shown(it, m) = Shown(jt, m)
  BY <1>1 DEF Shown
<1> QED BY <1>2 DEF PrintOf

\* What requests have read, by the operation.
LEMMA Columns ==
  ASSUME Types, NEW q \in Requests
  PROVE  /\ req[q] \in Reading \cup {Done} /\ req[q].op \in {"none", "attach", "patch", "delete"}
         /\ req[q].op # "none" => req[q].event \in Nat /\ req[q].late \in BOOLEAN
         /\ (req[q].op = "none" <=> req[q] = Done)
         /\ req[q].op # "none" => req[q].hash \in Fingerprints /\ req[q].after \subseteq Roots
         /\ req[q].op = "attach" => /\ req[q].pc \in {"checked", "hashed", "looked"} /\ req[q].item \in Items
                                    /\ req[q].root \in Roots /\ req[q].pin \in 1 .. MaxHead
         /\ req[q].op = "patch" => /\ req[q].pc \in {"seen", "locked", "ready", "hashed", "looked"}
                                   /\ req[q].item \in Items /\ req[q].version \in 1 .. MaxVersion
                                   /\ req[q].intent \in Intents \cup {[kind |-> "none"]}
         /\ req[q].op = "delete" => req[q].pc \in {"checked", "hashed", "looked"} /\ req[q].root \in Roots
<1>1. req[q] \in Reading \cup {Done}
  BY DEF Types
<1> QED BY <1>1 DEF Reading, Done

\* The rows of the mainboard.
LEMMA Rows ==
  ASSUME Types, NEW i \in Items
  PROVE  /\ Attached(i) \in BOOLEAN
         /\ ~Attached(i) => item[i] = NoItem
         /\ Attached(i) => /\ item[i] \in Item /\ item[i].root \in Roots /\ item[i].pin \in 1 .. MaxHead
                           /\ item[i].enabled \in BOOLEAN /\ item[i].version \in 1 .. MaxVersion
                           /\ Member(i) \in Members /\ item[i].pin <= head[item[i].root]
<1>1. item[i] \in {NoItem} \cup Item
  BY DEF Types
<1>2. item[i] = NoItem => Attached(i) = FALSE
  BY DEF Attached, NoItem
<1>3. item[i] \in Item => /\ Attached(i) = TRUE /\ item[i].root \in Roots /\ item[i].pin \in 1 .. MaxHead
                          /\ item[i].enabled \in BOOLEAN /\ item[i].version \in 1 .. MaxVersion
  BY DEF Attached, Item
<1>4. item[i] \in Item => Member(i) \in Members
  BY <1>3 DEF Member, Members
<1>5. Attached(i) => item[i].pin <= head[item[i].root]
  BY DEF Types
<1> QED BY <1>1, <1>2, <1>3, <1>4, <1>5

\* The live fingerprint is the one the rows show.
LEMMA LiveIs ==
  Types => Live = PrintOf(item, root)
<1> SUFFICES ASSUME Types PROVE Live = PrintOf(item, root)
  OBVIOUS
<1> DEFINE S == Available(EnabledItems)
<1>1. \A m \in Members : {i \in S : Member(i) = m} = IF root[m[1]] = "active" THEN Showing(item, m) ELSE {}
  <2> TAKE m \in Members
  <2>1. \A i \in Items : i \in S <=> Attached(i) /\ item[i].enabled /\ root[item[i].root] = "active"
    BY DEF Available, EnabledItems
  <2>2. S \subseteq Items
    BY DEF Available, EnabledItems
  <2>3. \A i \in Items : Member(i) = m => item[i].root = m[1]
    BY DEF Member
  <2> HIDE DEF S
  <2> QED BY <2>1, <2>2, <2>3 DEF Showing, Attached, Member
<1>2. \A m \in Members : Cardinality({i \in S : Member(i) = m}) = IF root[m[1]] = "active" THEN Shown(item, m) ELSE 0
  BY <1>1, FS_EmptySet DEF Shown
<1> HIDE DEF S
<1>3. Fingerprint(S) = PrintOf(item, root)
  BY <1>2 DEF Fingerprint, PrintOf
<1> QED BY <1>3 DEF Live, S

\* A patch leaves a row of the same work object, with a revision that it may pin.
LEMMA PatchLeaves ==
  ASSUME Types, NEW q \in Requests, req[q].op = "patch", Attached(req[q].item), req[q].intent \in Intents,
         item[req[q].item].version < MaxVersion
  PROVE  /\ Patched(q) \in Item
         /\ Patched(q).root = item[req[q].item].root /\ Patched(q).attached = TRUE
         /\ Patched(q).enabled \in BOOLEAN /\ Patched(q).pin \in 1 .. MaxHead
         /\ Patched(q).version = item[req[q].item].version + 1
         /\ Patched(q).pin = IF req[q].intent.kind = "pin" THEN req[q].intent.rev ELSE item[req[q].item].pin
         /\ Patched(q).enabled = IF req[q].intent.kind = "enable" THEN req[q].intent.on ELSE item[req[q].item].enabled
<1> DEFINE i == req[q].item
           intent == req[q].intent
<1>1. i \in Items /\ item[i] \in Item
  BY Columns, Rows
<1>2. intent.kind \in {"enable", "pin", "label"}
  BY DEF Intents
<1>3. intent.kind = "enable" => intent.on \in BOOLEAN
  BY DEF Intents
<1>4. intent.kind = "pin" => intent.rev \in 1 .. MaxHead
  BY DEF Intents
<1> DEFINE old == item[i]
<1> DEFINE v == old.version + 1
           en == IF intent.kind = "enable" THEN intent.on ELSE old.enabled
           pin == IF intent.kind = "pin" THEN intent.rev ELSE old.pin
           new == [attached |-> old.attached, root |-> old.root, pin |-> pin, enabled |-> en, version |-> v]
<1>5. Patched(q) = new
  <2>1. Patched(q) = [old EXCEPT !.version = v, !.enabled = en, !.pin = pin]
    BY DEF Patched
  <2>2. old = [attached |-> old.attached, root |-> old.root, pin |-> old.pin, enabled |-> old.enabled,
               version |-> old.version]
    BY <1>1 DEF Item
  <2> HIDE DEF old, v, en, pin
  <2> QED BY <2>1, <2>2
<1>6. /\ old.attached = TRUE /\ old.root \in Roots /\ old.pin \in 1 .. MaxHead
      /\ old.enabled \in BOOLEAN /\ old.version \in 1 .. MaxVersion
  BY <1>1 DEF Item
<1>7. v \in 1 .. MaxVersion
  BY <1>6, MainboardBoundsAssumption
<1>8. en \in BOOLEAN
  BY <1>3, <1>6
<1>9. pin \in 1 .. MaxHead
  BY <1>4, <1>6
<1>10. Patched(q) \in Item
  <2>1. \A a \in {TRUE}, b \in Roots, c \in 1 .. MaxHead, d \in BOOLEAN, e \in 1 .. MaxVersion :
          [attached |-> a, root |-> b, pin |-> c, enabled |-> d, version |-> e] \in Item
    BY DEF Item
  <2>2. old.attached \in {TRUE}
    BY <1>6
  <2> HIDE DEF old, v, en, pin
  <2>3. new \in Item
    BY <1>6, <1>7, <1>8, <1>9, <2>1, <2>2
  <2> QED BY <1>5, <2>3
<1>11. /\ Patched(q).root = old.root /\ Patched(q).attached = TRUE /\ Patched(q).enabled = en
       /\ Patched(q).pin = pin /\ Patched(q).version = v
  <2> HIDE DEF old, v, en, pin
  <2> QED BY <1>5, <1>6
<1> QED BY <1>8, <1>9, <1>10, <1>11

\* What a patch sees is what the rows it leaves show.
LEMMA LiveWithIs ==
  ASSUME Types, NEW q \in Requests, req[q].op = "patch", Attached(req[q].item), Patched(q).root = item[req[q].item].root,
         Patched(q).attached = TRUE, Patched(q).enabled \in BOOLEAN, Patched(q).pin \in 1 .. MaxHead
  PROVE  LiveWith(q) = PrintOf(ItemsAfter(q), root)
<1> DEFINE i == req[q].item
           mine == Patched(q)
           S == Available(EnabledItems \ {i})
           others == Fingerprint(S)
           it == ItemsAfter(q)
           own == <<mine.root, mine.pin>>
<1>1. i \in Items
  BY Columns
<1>2. item \in [Items -> {NoItem} \cup Item]
  BY DEF Types
<1>3. it[i] = mine /\ \A j \in Items \ {i} : it[j] = item[j]
  BY <1>1, <1>2 DEF ItemsAfter
<1>4. own \in Members
  <2>1. item[i].root \in Roots
    BY <1>1, Rows
  <2> QED BY <2>1 DEF Members
<1>5. \A m \in Members : {j \in S : Member(j) = m} = IF root[m[1]] = "active" THEN Showing(it, m) \ {i} ELSE {}
  <2> TAKE m \in Members
  <2>1. \A j \in Items : j \in S <=> j # i /\ Attached(j) /\ item[j].enabled /\ root[item[j].root] = "active"
    BY DEF Available, EnabledItems
  <2>2. S \subseteq Items
    BY DEF Available, EnabledItems
  <2>3. \A j \in Items : Member(j) = m => item[j].root = m[1]
    BY DEF Member
  <2> HIDE DEF S, it, i
  <2> QED BY <1>3, <2>1, <2>2, <2>3 DEF Showing, Attached, Member
<1>6. \A m \in Members : i \in Showing(it, m) <=> mine.enabled /\ own = m
  <2>1. mine.attached = TRUE /\ mine.enabled \in BOOLEAN
    OBVIOUS
  <2> HIDE DEF it, mine
  <2> QED BY <1>1, <1>3, <2>1 DEF Showing
<1>7. \A m \in Members : others[m] = IF root[m[1]] = "active" THEN Cardinality(Showing(it, m) \ {i}) ELSE 0
  <2>1. \A m \in Members : others[m] = Cardinality({j \in S : Member(j) = m})
    BY DEF Fingerprint
  <2> HIDE DEF S, others
  <2> QED BY <1>5, <2>1, FS_EmptySet
<1>8. \A m \in Members : Shown(it, m) = IF mine.enabled /\ own = m THEN Cardinality(Showing(it, m) \ {i}) + 1
                                        ELSE Cardinality(Showing(it, m) \ {i})
  <2> TAKE m \in Members
  <2>1. Showing(it, m) \in SUBSET Items
    BY DEF Showing
  <2>2. IsFiniteSet(Showing(it, m) \ {i})
    BY <2>1, CountType
  <2>3. i \in Showing(it, m) => Showing(it, m) = (Showing(it, m) \ {i}) \cup {i}
    OBVIOUS
  <2>4. i \notin Showing(it, m) => Showing(it, m) = Showing(it, m) \ {i}
    OBVIOUS
  <2> DEFINE T == Showing(it, m) \ {i}
  <2>5. i \in Showing(it, m) => Cardinality(Showing(it, m)) = Cardinality(T) + 1
    <3>1. i \notin T
      OBVIOUS
    <3> HIDE DEF T
    <3>2. Cardinality(T \cup {i}) = Cardinality(T) + 1
      BY <2>2, <3>1, FS_AddElement DEF T
    <3> QED BY <2>3, <3>2 DEF T
  <2> QED BY <1>6, <2>4, <2>5 DEF Shown
<1>9. mine.root = own[1]
  OBVIOUS
<1>10. others \in [Members -> Nat]
  <2>1. \A m \in Members : Cardinality(Showing(it, m) \ {i}) \in 0 .. Cardinality(Items)
    <3> TAKE m \in Members
    <3>1. Showing(it, m) \ {i} \in SUBSET Items
      BY DEF Showing
    <3> QED BY <3>1, CountType
  <2>2. \A m \in Members : others[m] \in Nat
    <3> TAKE m \in Members
    <3>1. Cardinality(Showing(it, m) \ {i}) \in Nat
      BY <2>1
    <3> HIDE DEF others, it
    <3> QED BY <1>7, <3>1
  <2>3. others = [m \in Members |-> others[m]]
    BY DEF Fingerprint
  <2> HIDE DEF others
  <2> QED BY <2>2, <2>3
<1>11. LiveWith(q) = IF mine.enabled /\ root[own[1]] = "active" THEN [others EXCEPT ![own] = @ + 1] ELSE others
  BY <1>9 DEF LiveWith
<1>12. LiveWith(q) \in [Members -> Nat]
  <2> HIDE DEF others, own, mine
  <2> QED BY <1>4, <1>10, <1>11
<1>13. \A m \in Members : LiveWith(q)[m] = IF root[m[1]] = "active" THEN Shown(it, m) ELSE 0
  <2> HIDE DEF others, own, mine, it
  <2> TAKE m \in Members
  <2>1. LiveWith(q)[m] = IF mine.enabled /\ root[own[1]] = "active" /\ m = own THEN others[m] + 1 ELSE others[m]
    BY <1>4, <1>10, <1>11
  <2>2. CASE root[m[1]] = "active"
    BY <2>1, <2>2, <1>7, <1>8
  <2>3. CASE root[m[1]] # "active"
    BY <2>1, <2>3, <1>7
  <2> QED BY <2>2, <2>3
<1>14. LiveWith(q) = [m \in Members |-> LiveWith(q)[m]]
  BY <1>12
<1>15. LiveWith(q) = PrintOf(it, root)
  <2> HIDE DEF it
  <2> QED BY <1>13, <1>14 DEF PrintOf
<1> QED BY <1>15

\* The transaction of a request sees the rows as it leaves them.
LEMMA SeenIs ==
  ASSUME Types, NEW q \in Requests, RequestHolds(q), Recomputes(q)
  PROVE  SeenBy(q) = PrintOf(ItemsAfter(q), RootsAfter(q))
<1>1. CASE req[q].op = "attach"
  <2>1. SeenBy(q) = Live
    BY <1>1 DEF SeenBy
  <2> QED BY <1>1, <2>1, LiveIs DEF ItemsAfter, RootsAfter
<1>2. CASE req[q].op = "patch"
  <2>1. SeenBy(q) = LiveWith(q)
    BY <1>2 DEF SeenBy
  <2>2. Patched(q).root = item[req[q].item].root /\ Patched(q).attached = TRUE /\ Patched(q).enabled \in BOOLEAN
        /\ Patched(q).pin \in 1 .. MaxHead /\ Attached(req[q].item)
    BY PatchLeaves, <1>2 DEF RequestHolds, PatchMay, Recomputes, Is
  <2> QED BY <1>2, <2>1, <2>2, LiveWithIs DEF RootsAfter
<1>3. CASE req[q].op = "delete"
  <2> DEFINE r == req[q].root
             S == {i \in Available(EnabledItems) : item[i].root # r}
  <2>1. SeenBy(q) = Fingerprint(S)
    BY <1>3 DEF SeenBy
  <2>2. r \in Roots /\ root \in [Roots -> {"active", "deleted"}]
    BY <1>3, Columns DEF Types
  <2> DEFINE rt == [root EXCEPT ![r] = "deleted"]
  <2>3. \A x \in Roots : rt[x] = "active" <=> root[x] = "active" /\ x # r
    BY <2>2
  <2>4. \A m \in Members : {i \in S : Member(i) = m} = IF rt[m[1]] = "active" THEN Showing(item, m) ELSE {}
    <3> TAKE m \in Members
    <3>1. \A i \in Items : i \in S <=> Attached(i) /\ item[i].enabled /\ root[item[i].root] = "active" /\ item[i].root # r
      BY DEF Available, EnabledItems
    <3>2. S \subseteq Items
      BY DEF Available, EnabledItems
    <3>3. \A i \in Items : Member(i) = m => item[i].root = m[1]
      BY DEF Member
    <3>4. m[1] \in Roots
      BY DEF Members
    <3> HIDE DEF S, rt, r
    <3> QED BY <2>3, <3>1, <3>2, <3>3, <3>4 DEF Showing, Attached, Member
  <2>5. \A m \in Members : Cardinality({i \in S : Member(i) = m}) = IF rt[m[1]] = "active" THEN Shown(item, m) ELSE 0
    <3> HIDE DEF S, rt
    <3> QED BY <2>4, FS_EmptySet DEF Shown
  <2>6. Fingerprint(S) = PrintOf(item, rt)
    <3> HIDE DEF S, rt
    <3> QED BY <2>5 DEF Fingerprint, PrintOf
  <2> QED BY <1>3, <2>1, <2>6 DEF ItemsAfter, RootsAfter
<1> QED BY <1>1, <1>2, <1>3 DEF Recomputes, Is

-----------------------------------------------------------------------------
(* What a step leaves alone *)

\* One request's record is replaced.
LEMMA SetOne ==
  ASSUME Types, NEW q \in Requests, NEW x \in Reading \cup {Done}, Set(q, x)
  PROVE  /\ req' \in [Requests -> Reading \cup {Done}]
         /\ req'[q] = x
         /\ \A p \in Requests \ {q} : req'[p] = req[p]
BY DEF Types, Set

\* A request keeps what it relies on when its rows are left alone.
LEMMA OtherRequest ==
  ASSUME Types, NEW p \in Requests, RequestHolds(p), req'[p] = req[p],
         head' \in [Roots -> 1 .. MaxHead], \A r \in Roots : head[r] <= head'[r],
         item' \in [Items -> {NoItem} \cup Item],
         \A i \in Items : Attached(i) => item'[i].attached /\ item'[i].root = item[i].root,
         req[p].op = "attach" => ~item'[req[p].item].attached,
         \A i \in Items : Attached(i) /\ itemLock[i] = p => itemLock'[i] = p /\ item'[i] = item[i],
         \A r \in Roots : rootLock[r] = p => rootLock'[r] = p /\ root'[r] = root[r],
         Hashed(p) => wsLock' = wsLock /\ root' = root /\ Alike(item, item')
  PROVE  RequestHolds(p)'
<1>1. ASSUME req[p].op = "attach" PROVE AttachMay(p)'
  <2>1. req[p].root \in Roots /\ req[p].pin \in 1 .. MaxHead
    BY <1>1, Columns
  <2>2. req[p].pin <= head[req[p].root] /\ head[req[p].root] <= head'[req[p].root]
    BY <1>1, <2>1 DEF RequestHolds, AttachMay
  <2>3. head[req[p].root] \in Nat /\ head'[req[p].root] \in Nat
    BY <2>1 DEF Types
  <2> QED BY <1>1, <2>1, <2>2, <2>3 DEF AttachMay, Attached
<1>2. ASSUME req[p].op = "patch" PROVE PatchMay(p)'
  <2> DEFINE i == req[p].item
             r == item[i].root
             intent == req[p].intent
  <2>1. i \in Items /\ Attached(i) /\ PatchMay(p)
    BY <1>2, Columns DEF RequestHolds, PatchMay
  <2>2. r \in Roots /\ item'[i].root = r /\ item'[i].attached
    BY <2>1, Rows
  <2>3. head[r] \in Nat /\ head'[r] \in Nat /\ head[r] <= head'[r]
    BY <2>2 DEF Types
  <2>4. itemLock[i] = p => itemLock'[i] = p /\ item'[i] = item[i]
    BY <2>1
  <2>5. rootLock[r] = p => rootLock'[r] = p /\ root'[r] = root[r]
    BY <2>2
  <2>6. intent \in Intents /\ intent.kind = "pin" => intent.rev \in 1 .. MaxHead
    BY DEF Intents
  <2> HIDE DEF r, intent
  <2>7. intent \in Intents /\ intent.kind = "pin" /\ intent.rev <= head[r] => intent.rev <= head'[r]
    BY <2>3, <2>6
  <2> QED BY <2>1, <2>2, <2>4, <2>5, <2>7 DEF PatchMay, Attached, r, intent
<1>3. ASSUME req[p].op = "delete" PROVE DeleteMay(p)'
  <2>1. req[p].root \in Roots
    BY <1>3, Columns
  <2> QED BY <1>3, <2>1 DEF RequestHolds, DeleteMay
<1>4. ASSUME Hashed(p) PROVE HashHolds(p)'
  <2> DEFINE it == ItemsAfter(p)
             jt == ItemsAfter(p)'
  <2>1. HashHolds(p) /\ wsLock' = wsLock /\ root' = root /\ Alike(item, item')
    BY <1>4 DEF RequestHolds
  <2>2. Alike(it, jt)
    <3>1. CASE req[p].op # "patch"
      BY <2>1, <3>1 DEF ItemsAfter
    <3>2. CASE req[p].op = "patch"
      <4>1. req[p].item \in Items /\ itemLock[req[p].item] = p /\ Attached(req[p].item)
        BY <1>4, <3>2, Columns DEF Hashed, RequestHolds, PatchMay
      <4>2. Patched(p)' = Patched(p)
        BY <4>1 DEF Patched
      <4>3. it = [item EXCEPT ![req[p].item] = Patched(p)]
        BY <3>2 DEF ItemsAfter
      <4>4. jt = [item' EXCEPT ![req[p].item] = Patched(p)]
        BY <3>2, <4>2 DEF ItemsAfter
      <4>5. item \in [Items -> {NoItem} \cup Item]
        BY DEF Types
      <4> HIDE DEF it, jt
      <4>6. \A j \in Items : j # req[p].item => it[j] = item[j] /\ jt[j] = item'[j]
        BY <4>3, <4>4, <4>5
      <4>7. it[req[p].item] = jt[req[p].item]
        BY <4>1, <4>3, <4>4, <4>5
      <4> QED BY <2>1, <4>6, <4>7 DEF Alike
    <3> QED BY <3>1, <3>2
  <2>3. RootsAfter(p)' = RootsAfter(p)
    BY <2>1 DEF RootsAfter
  <2>4. (\A m : Shown(it, m) = Shown(jt, m)) /\ \A rt : PrintOf(it, rt) = PrintOf(jt, rt)
    <3> HIDE DEF it, jt
    <3> QED BY <2>2, AlikeShowAlike
  <2> QED BY <2>1, <2>3, <2>4 DEF HashHolds
<1>5. Hashed(p)' <=> Hashed(p)
  BY DEF Hashed
<1> QED BY <1>1, <1>2, <1>3, <1>4, <1>5 DEF RequestHolds

\* What is stored stays true of rows that show the same.
LEMMA StoredKept ==
  ASSUME StoredIsThere, Accounts, stored' = stored, Alike(item, item'), root' = root,
         missed' = missed
  PROVE  StoredIsThere' /\ Accounts'
<1>1. (\A m : Shown(item, m) = Shown(item', m)) /\ \A rt : PrintOf(item, rt) = PrintOf(item', rt)
  BY AlikeShowAlike
<1> QED BY <1>1 DEF StoredIsThere, Accounts

\* A request reads, waits or takes locks; nothing is written.
LEMMA RequestStep ==
  ASSUME Inv, NEW q \in Requests, NEW x \in Reading \cup {Done}, Set(q, x),
         UNCHANGED <<objects, item, stored, evidence, missed>>,
         itemLock' \in [Items -> Requests \cup {None}], rootLock' \in [Roots -> Requests \cup {None}],
         wsLock' \in Requests \cup {None},
         \A p \in Requests \ {q} : /\ \A i \in Items : itemLock[i] = p => itemLock'[i] = p
                                   /\ \A r \in Roots : rootLock[r] = p => rootLock'[r] = p
                                   /\ wsLock = p => wsLock' = p,
         x.op = "attach" => \A p \in Requests \ {q} : req[p].op = "attach" => req[p].item # x.item,
         RequestHolds(q)'
  PROVE  Inv'
<1>1. /\ req' \in [Requests -> Reading \cup {Done}] /\ req'[q] = x
      /\ \A p \in Requests \ {q} : req'[p] = req[p]
  BY SetOne DEF Inv
<1>2. /\ root' = root /\ head' = head /\ changes' = changes /\ item' = item /\ stored' = stored
      /\ reports' = reports /\ latest' = latest /\ missed' = missed
  BY DEF objects, evidence
<1>3. Types'
  BY <1>1, <1>2 DEF Inv, Types, Attached
<1>4. Alike(item, item')
  BY <1>2 DEF Alike
<1>5. ASSUME NEW p \in Requests, p # q PROVE RequestHolds(p)'
  <2>1. Types /\ RequestHolds(p) /\ req'[p] = req[p]
    BY <1>1, <1>5 DEF Inv
  <2>2. head' \in [Roots -> 1 .. MaxHead] /\ item' \in [Items -> {NoItem} \cup Item]
    BY <1>3 DEF Types
  <2>3. \A r \in Roots : head[r] <= head'[r]
    BY <1>2, <2>2
  <2>4. \A i \in Items : Attached(i) => item'[i].attached /\ item'[i].root = item[i].root
    BY <1>2 DEF Attached
  <2>5. req[p].op = "attach" => ~item'[req[p].item].attached
    BY <1>2, <2>1 DEF RequestHolds, AttachMay, Attached
  <2>6. /\ \A i \in Items : itemLock[i] = p => itemLock'[i] = p /\ item'[i] = item[i]
        /\ \A r \in Roots : rootLock[r] = p => rootLock'[r] = p /\ root'[r] = root[r]
    BY <1>2, <1>5
  <2>7. Hashed(p) => wsLock' = wsLock /\ root' = root /\ Alike(item, item')
    BY <1>2, <1>4, <1>5, <2>1 DEF RequestHolds, HashHolds
  <2> QED BY <2>1, <2>2, <2>3, <2>4, <2>5, <2>6, <2>7, OtherRequest
<1>6. AttachedAlone'
  BY <1>1 DEF Inv, AttachedAlone
<1>7. StoredIsThere' /\ Accounts'
  BY <1>2, <1>4, StoredKept DEF Inv
<1> QED BY <1>3, <1>5, <1>6, <1>7 DEF Inv

\* A transaction commits its row and the fingerprint it has computed.
LEMMA CommitStep ==
  ASSUME Inv, NEW q \in Requests, Hashed(q), StoreHash(q), Set(q, Done),
         reports' = reports, latest' = latest, head' = head, changes' = changes,
         root' \in [Roots -> {"active", "deleted"}], item' \in [Items -> {NoItem} \cup Item],
         \A i \in Items : item'[i].attached => item'[i].pin <= head[item'[i].root],
         \A i \in Items : Attached(i) => item'[i].attached /\ item'[i].root = item[i].root,
         \A p \in Requests \ {q} :
           /\ req[p].op = "attach" => ~item'[req[p].item].attached
           /\ \A i \in Items : Attached(i) /\ itemLock[i] = p => item'[i] = item[i]
           /\ \A r \in Roots : rootLock[r] = p => root'[r] = root[r],
         \A m \in Members : req[q].hash[m] <= Shown(item', m),
         missed' = {} => req[q].hash = PrintOf(item', root')
  PROVE  Inv'
<1> DEFINE fp == req[q].hash
<1>1. Types /\ RequestHolds(q) /\ wsLock = q /\ None \notin Requests
  BY MainboardBoundsAssumption DEF Inv, RequestHolds, HashHolds
<1>2. fp \in Fingerprints /\ req[q].after \subseteq Roots
  BY <1>1, Columns DEF Hashed
<1>3. Done \in Reading \cup {Done}
  OBVIOUS
<1>4. /\ req' \in [Requests -> Reading \cup {Done}] /\ req'[q] = Done
      /\ \A p \in Requests \ {q} : req'[p] = req[p]
  BY <1>1, <1>3, SetOne
<1>5. stored' = fp /\ wsLock' = None
  BY <1>1 DEF StoreHash
<1>6. itemLock' = Released(itemLock, q) /\ rootLock' = Released(rootLock, q)
  BY DEF StoreHash
<1>7. itemLock' \in [Items -> Requests \cup {None}] /\ rootLock' \in [Roots -> Requests \cup {None}]
  BY <1>1, <1>6 DEF Released, Types
<1>8. /\ \A i \in Items : \A p \in Requests \ {q} : itemLock[i] = p => itemLock'[i] = p
      /\ \A r \in Roots : \A p \in Requests \ {q} : rootLock[r] = p => rootLock'[r] = p
  BY <1>1, <1>6 DEF Released, Types
<1>10. missed' \subseteq Items \cup Roots
  <2>1. req[q].op = "attach" => req[q].item \in Items
    BY <1>1, Columns
  <2> QED BY <1>2, <2>1 DEF StoreHash
<1>11. Types'
  <2>1. head' \in [Roots -> 1 .. MaxHead] /\ changes' \in 0 .. MaxChanges
    BY <1>1 DEF Types
  <2>2. \A i \in Items : Attached(i)' => item'[i].pin <= head'[item'[i].root]
    BY DEF Attached
  <2>3. stored' \in Fingerprints /\ wsLock' \in Requests \cup {None}
    BY <1>2, <1>5
  <2> QED BY <1>1, <1>4, <1>7, <1>10, <2>1, <2>2, <2>3 DEF Types
<1>12. ASSUME NEW p \in Requests, p # q PROVE RequestHolds(p)'
  <2>1. RequestHolds(p) /\ req'[p] = req[p]
    BY <1>4, <1>12 DEF Inv
  <2>2. head' \in [Roots -> 1 .. MaxHead]
    BY <1>11 DEF Types
  <2>3. \A r \in Roots : head[r] <= head'[r]
    BY <2>2
  <2>4. /\ \A i \in Items : Attached(i) /\ itemLock[i] = p => itemLock'[i] = p /\ item'[i] = item[i]
        /\ \A r \in Roots : rootLock[r] = p => rootLock'[r] = p /\ root'[r] = root[r]
    BY <1>8, <1>12
  <2>5. ~Hashed(p)
    BY <1>1, <1>12, <2>1 DEF RequestHolds, HashHolds
  <2> QED BY <1>1, <1>12, <2>1, <2>2, <2>3, <2>4, <2>5, OtherRequest
<1>13. RequestHolds(q)'
  BY <1>4 DEF RequestHolds, Hashed, Done
<1>14. AttachedAlone'
  BY <1>4 DEF Inv, AttachedAlone, Done
<1>15. StoredIsThere' /\ Accounts'
  BY <1>5 DEF StoredIsThere, Accounts
<1> QED BY <1>11, <1>12, <1>13, <1>14, <1>15 DEF Inv

-----------------------------------------------------------------------------
(* The actions *)

\* No setting is a fingerprint.
LEMMA NothingType == Nothing \in Fingerprints
<1>1. Cardinality(Items) \in Nat
  BY MainboardBoundsAssumption, FS_CardinalityType
<1> QED BY <1>1 DEF Nothing, Fingerprints

\* Locks of others are left alone where one takes a free row.
LEMMA RowTaken ==
  ASSUME NEW X, NEW lock, lock \in [X -> Requests \cup {None}], NEW x \in X, lock[x] = None, NEW q \in Requests
  PROVE  /\ [lock EXCEPT ![x] = q] \in [X -> Requests \cup {None}]
         /\ [lock EXCEPT ![x] = q][x] = q
         /\ \A p \in Requests, y \in X : lock[y] = p => [lock EXCEPT ![x] = q][y] = p
BY MainboardBoundsAssumption

\* Nothing happens.
LEMMA StutterStep ==
  ASSUME Inv, UNCHANGED vars
  PROVE  Inv'
<1>1. /\ root' = root /\ head' = head /\ changes' = changes /\ item' = item /\ stored' = stored /\ req' = req
      /\ latest' = latest /\ missed' = missed /\ reports' = reports
      /\ itemLock' = itemLock /\ rootLock' = rootLock /\ wsLock' = wsLock
  BY DEF vars, objects, evidence, locks
<1>2. Types'
  BY <1>1 DEF Inv, Types, Attached
<1>3. ASSUME NEW p \in Requests PROVE RequestHolds(p)'
  <2>1. AttachMay(p)' = AttachMay(p) /\ PatchMay(p)' = PatchMay(p) /\ DeleteMay(p)' = DeleteMay(p)
    BY <1>1 DEF AttachMay, PatchMay, DeleteMay, Attached
  <2>2. ItemsAfter(p)' = ItemsAfter(p) /\ RootsAfter(p)' = RootsAfter(p)
    BY <1>1 DEF ItemsAfter, RootsAfter, Patched
  <2>3. HashHolds(p)' <=> HashHolds(p)
    BY <1>1, <2>2 DEF HashHolds
  <2>4. Hashed(p)' <=> Hashed(p)
    BY <1>1 DEF Hashed
  <2> QED BY <1>1, <2>1, <2>3, <2>4 DEF Inv, RequestHolds
<1>4. AttachedAlone' /\ StoredIsThere' /\ Accounts'
  BY <1>1 DEF Inv, AttachedAlone, StoredIsThere, Accounts
<1> QED BY <1>2, <1>3, <1>4 DEF Inv

\* A new revision of a work object.
LEMMA AppendStep ==
  ASSUME Inv, NEW r \in Roots, AppendRevision(r)
  PROVE  Inv'
<1>1. /\ root' = root /\ changes' = changes /\ item' = item /\ stored' = stored /\ req' = req
      /\ reports' = reports /\ latest' = latest /\ missed' = missed
      /\ itemLock' = itemLock /\ rootLock' = rootLock /\ wsLock' = wsLock
      /\ head' = [head EXCEPT ![r] = @ + 1] /\ head[r] < MaxHead
  BY DEF AppendRevision, evidence, locks
<1>2. Types /\ head \in [Roots -> 1 .. MaxHead] /\ MaxHead \in Nat
  BY MainboardBoundsAssumption DEF Inv, Types
<1>3. head' \in [Roots -> 1 .. MaxHead]
  <2>1. head[r] \in 1 .. MaxHead
    BY <1>2
  <2>2. head[r] + 1 \in 1 .. MaxHead
    BY <1>1, <1>2, <2>1
  <2> QED BY <1>1, <1>2, <2>2
<1>4. \A x \in Roots : head[x] \in Nat /\ head'[x] \in Nat /\ head[x] <= head'[x]
  BY <1>1, <1>2
<1>5. Types'
  <2>1. ASSUME NEW i \in Items, Attached(i)' PROVE item'[i].pin <= head'[item'[i].root]
    <3>1. Attached(i)
      BY <1>1, <2>1 DEF Attached
    <3>2. item[i].root \in Roots /\ item[i].pin \in 1 .. MaxHead /\ item[i].pin <= head[item[i].root]
      BY <1>2, <3>1, Rows
    <3> QED BY <1>1, <1>4, <3>2
  <2> QED BY <1>1, <1>2, <1>3, <2>1 DEF Types
<1>6. Alike(item, item')
  BY <1>1 DEF Alike
<1>7. ASSUME NEW p \in Requests PROVE RequestHolds(p)'
  <2>1. RequestHolds(p) /\ req'[p] = req[p]
    BY <1>1 DEF Inv
  <2>2. item' \in [Items -> {NoItem} \cup Item]
    BY <1>5 DEF Types
  <2>3. \A i \in Items : Attached(i) => item'[i].attached /\ item'[i].root = item[i].root
    BY <1>1 DEF Attached
  <2>4. req[p].op = "attach" => ~item'[req[p].item].attached
    BY <1>1, <2>1 DEF RequestHolds, AttachMay, Attached
  <2> QED BY <1>1, <1>2, <1>3, <1>4, <1>6, <2>1, <2>2, <2>3, <2>4, OtherRequest
<1>8. AttachedAlone'
  BY <1>1 DEF Inv, AttachedAlone
<1>9. StoredIsThere' /\ Accounts'
  BY <1>1, <1>6, StoredKept DEF Inv
<1> QED BY <1>5, <1>7, <1>8, <1>9 DEF Inv

\* A deletion or a restore that no workspace hears of.
LEMMA ElsewhereStep ==
  ASSUME Inv, NEW r \in Roots, DeleteOrRestoreElsewhere(r)
  PROVE  Inv'
<1>1. /\ item' = item /\ stored' = stored /\ head' = head
      /\ reports' = reports /\ latest' = latest /\ missed' = missed \cup {r}
      /\ itemLock' = itemLock /\ rootLock' = rootLock /\ wsLock' = wsLock
      /\ changes' = changes + 1 /\ changes < MaxChanges /\ rootLock[r] = None
      /\ root' = [root EXCEPT ![r] = IF @ = "active" THEN "deleted" ELSE "active"]
      /\ RootChanges(r)
  BY DEF DeleteOrRestoreElsewhere, evidence, locks
<1>2. Types /\ MaxChanges \in Nat /\ None \notin Requests
  BY MainboardBoundsAssumption DEF Inv
<1>3. /\ root' \in [Roots -> {"active", "deleted"}]
      /\ \A x \in Roots \ {r} : root'[x] = root[x]
  BY <1>1, <1>2 DEF Types
<1>4. \A p \in Requests : ~Hashed(p) => req'[p] = req[p]
  BY <1>1 DEF RootChanges
<1>5. ASSUME NEW p \in Requests, Hashed(p)
      PROVE  /\ req'[p] \in Reading /\ req'[p] = [req[p] EXCEPT !.after = @ \cup {r}]
             /\ req'[p].after # {} /\ req'[p].hash = req[p].hash /\ req'[p].op = req[p].op
             /\ req'[p].pc = req[p].pc
             /\ req[p].op # "delete" => req'[p].item = req[p].item
             /\ req[p].op = "attach" => req'[p].pin = req[p].pin
             /\ req[p].op # "patch" => req'[p].root = req[p].root
             /\ req[p].op = "patch" => req'[p].intent = req[p].intent /\ req'[p].version = req[p].version
  <2>1. req'[p] = [req[p] EXCEPT !.after = @ \cup {r}]
    BY <1>1, <1>5 DEF RootChanges
  <2>2. req[p] \in Reading
    BY <1>2, <1>5, Columns DEF Hashed, Done
  <2>3. CASE req[p].op = "attach"
    BY <2>1, <2>2, <2>3 DEF Reading
  <2>4. CASE req[p].op = "patch"
    BY <2>1, <2>2, <2>4 DEF Reading
  <2>5. CASE req[p].op = "delete"
    BY <2>1, <2>2, <2>5 DEF Reading
  <2> QED BY <1>5, <2>3, <2>4, <2>5 DEF Hashed
<1>6. req' \in [Requests -> Reading \cup {Done}]
  <2>1. \A p \in Requests : req'[p] \in Reading \cup {Done}
    BY <1>2, <1>4, <1>5 DEF Types
  <2>2. req' = [p \in Requests |-> req'[p]]
    BY <1>1 DEF RootChanges
  <2> QED BY <2>1, <2>2
<1>7. Types'
  BY <1>1, <1>2, <1>3, <1>6 DEF Types, Attached
<1>8. ASSUME NEW p \in Requests PROVE RequestHolds(p)'
  <2>1. RequestHolds(p)
    BY DEF Inv
  <2>2. CASE ~Hashed(p)
    <3>1. req'[p] = req[p]
      BY <1>4, <2>2
    <3>2. head' \in [Roots -> 1 .. MaxHead] /\ item' \in [Items -> {NoItem} \cup Item]
      BY <1>7 DEF Types
    <3>3. \A x \in Roots : head[x] <= head'[x]
      BY <1>1, <3>2
    <3>4. \A i \in Items : Attached(i) => item'[i].attached /\ item'[i].root = item[i].root
      BY <1>1 DEF Attached
    <3>5. req[p].op = "attach" => ~item'[req[p].item].attached
      BY <1>1, <2>1 DEF RequestHolds, AttachMay, Attached
    <3>6. \A x \in Roots : rootLock[x] = p => rootLock'[x] = p /\ root'[x] = root[x]
      BY <1>1, <1>2, <1>3
    <3> QED BY <1>1, <1>2, <2>1, <2>2, <3>1, <3>2, <3>3, <3>4, <3>5, <3>6, OtherRequest
  <2>3. CASE Hashed(p)
    <3>1. /\ req'[p].after # {} /\ req'[p].hash = req[p].hash /\ req'[p].op = req[p].op
          /\ req'[p].pc = req[p].pc /\ Hashed(p)'
          /\ req[p].op # "delete" => req'[p].item = req[p].item
          /\ req[p].op = "attach" => req'[p].pin = req[p].pin
          /\ req[p].op # "patch" => req'[p].root = req[p].root
          /\ req[p].op = "patch" => req'[p].intent = req[p].intent /\ req'[p].version = req[p].version
      BY <1>5, <2>3 DEF Hashed
    <3>2. req[p].op = "attach" => AttachMay(p)'
      BY <1>1, <2>1, <3>1 DEF RequestHolds, AttachMay, Attached
    <3>3. req[p].op = "delete" => DeleteMay(p)'
      BY <1>1, <1>2, <1>3, <2>1, <3>1, Columns DEF RequestHolds, DeleteMay
    <3>4. ASSUME req[p].op = "patch" PROVE PatchMay(p)'
      <4>1. PatchMay(p) /\ req[p].item \in Items
        BY <1>2, <2>1, <3>4, Columns DEF RequestHolds
      <4>2. item[req[p].item].root \in Roots
        BY <1>2, <4>1, Rows DEF PatchMay
      <4>3. rootLock[item[req[p].item].root] = p => root'[item[req[p].item].root] = root[item[req[p].item].root]
        BY <1>1, <1>2, <1>3, <4>2
      <4> QED BY <1>1, <3>1, <3>4, <4>1, <4>3 DEF PatchMay, Attached
    <3>5. HashHolds(p)'
      <4>1. ItemsAfter(p)' = ItemsAfter(p)
        BY <1>1, <3>1 DEF ItemsAfter, Patched, Hashed
      <4> QED BY <1>1, <2>1, <2>3, <3>1, <4>1 DEF RequestHolds, HashHolds, Shown, Showing
    <3> QED BY <3>1, <3>2, <3>3, <3>4, <3>5 DEF RequestHolds
  <2> QED BY <2>2, <2>3
<1>9. AttachedAlone'
  <2>1. \A p \in Requests : req'[p].op = req[p].op /\ (req[p].op = "attach" => req'[p].item = req[p].item)
    BY <1>4, <1>5
  <2> QED BY <2>1 DEF Inv, AttachedAlone
<1>10. StoredIsThere' /\ Accounts'
  BY <1>1 DEF Inv, StoredIsThere, Accounts, Shown, Showing
<1> QED BY <1>7, <1>8, <1>9, <1>10 DEF Inv

\* A Ready Check reads the items.
LEMMA CheckReadStep ==
  ASSUME Inv, CheckRead
  PROVE  Inv'
<1>1. /\ root' = root /\ head' = head /\ changes' = changes /\ item' = item /\ stored' = stored /\ req' = req
      /\ latest' = latest /\ missed' = missed /\ reports' = Append(reports, [fp |-> Live, stored |-> FALSE])
      /\ itemLock' = itemLock /\ rootLock' = rootLock /\ wsLock' = wsLock
  BY DEF CheckRead, objects, locks
<1>2. Types
  BY DEF Inv
<1>3. Live \in Fingerprints
  BY <1>2, LiveIs, PrintType
<1>4. /\ reports' \in Seq(Report)
      /\ latest' \in 0 .. Len(reports') /\ (latest' # 0 => reports'[latest'].stored)
  <2> DEFINE new == [fp |-> Live, stored |-> FALSE]
  <2>1. new \in Report /\ reports' = Append(reports, new)
    BY <1>1, <1>3 DEF Report
  <2>2. reports \in Seq(Report) /\ latest \in 0 .. Len(reports) /\ (latest # 0 => reports[latest].stored)
    BY <1>2 DEF Types
  <2> HIDE DEF new
  <2>3. /\ reports' \in Seq(Report) /\ Len(reports') = Len(reports) + 1 /\ Len(reports) \in Nat
        /\ \A n \in 1 .. Len(reports) : reports'[n] = reports[n]
    BY <2>1, <2>2
  <2> QED BY <1>1, <2>2, <2>3
<1>5. Types'
  BY <1>1, <1>2, <1>4 DEF Types, Attached
<1>6. ASSUME NEW p \in Requests PROVE RequestHolds(p)'
  <2>1. AttachMay(p)' = AttachMay(p) /\ PatchMay(p)' = PatchMay(p) /\ DeleteMay(p)' = DeleteMay(p)
    BY <1>1 DEF AttachMay, PatchMay, DeleteMay, Attached
  <2>2. ItemsAfter(p)' = ItemsAfter(p) /\ RootsAfter(p)' = RootsAfter(p)
    BY <1>1 DEF ItemsAfter, RootsAfter, Patched
  <2>3. HashHolds(p)' <=> HashHolds(p)
    BY <1>1, <2>2 DEF HashHolds
  <2>4. Hashed(p)' <=> Hashed(p)
    BY <1>1 DEF Hashed
  <2> QED BY <1>1, <2>1, <2>3, <2>4 DEF Inv, RequestHolds
<1>7. AttachedAlone' /\ StoredIsThere' /\ Accounts'
  BY <1>1 DEF Inv, AttachedAlone, StoredIsThere, Accounts, Shown, Showing, PrintOf
<1> QED BY <1>5, <1>6, <1>7 DEF Inv

\* A report that is committed marks the requests that have looked before; what they have
\* read and hold is theirs as before.
LEMMA Marked ==
  ASSUME Types, NEW n, CheckCommit(n), NEW p \in Requests
  PROVE  /\ req'[p] \in Reading \cup {Done} /\ req'[p].op = req[p].op /\ (req'[p] = Done <=> req[p] = Done)
         /\ req[p].op # "none" => /\ req'[p].pc = req[p].pc /\ req'[p].hash = req[p].hash
                                  /\ req'[p].after = req[p].after /\ req'[p].event = req[p].event
                                  /\ req'[p].late = (req[p].late \/ (Looked(p) /\ latest' # latest))
         /\ req[p].op \in {"attach", "patch"} => req'[p].item = req[p].item
         /\ req[p].op = "attach" => req'[p].pin = req[p].pin
         /\ req[p].op \in {"attach", "delete"} => req'[p].root = req[p].root
         /\ req[p].op = "patch" => req'[p].intent = req[p].intent /\ req'[p].version = req[p].version
<1>1. req'[p] = IF Looked(p) /\ latest' # latest THEN [req[p] EXCEPT !.late = TRUE] ELSE req[p]
  BY DEF CheckCommit
<1>2. req[p] \in Reading \cup {Done} /\ (req[p].op = "none" <=> req[p] = Done)
  BY Columns
<1>3. CASE ~(Looked(p) /\ latest' # latest)
  <2>1. req[p].op # "none" => req[p].late \in BOOLEAN
    BY Columns
  <2> QED BY <1>1, <1>2, <1>3, <2>1
<1>4. CASE Looked(p) /\ latest' # latest
  <2>1. req[p] \in Reading /\ req'[p] = [req[p] EXCEPT !.late = TRUE]
    BY <1>1, <1>2, <1>4 DEF Looked, Done
  <2>2. CASE req[p].op = "attach"
    BY <1>4, <2>1, <2>2 DEF Reading, Done
  <2>3. CASE req[p].op = "patch"
    BY <1>4, <2>1, <2>3 DEF Reading, Done
  <2>4. CASE req[p].op = "delete"
    BY <1>4, <2>1, <2>4 DEF Reading, Done
  <2> QED BY <1>4, <2>2, <2>3, <2>4 DEF Looked
<1> QED BY <1>3, <1>4

\* A Ready Check commits its report.
LEMMA CheckCommitStep ==
  ASSUME Inv, NEW n \in 1 .. Len(reports), CheckCommit(n)
  PROVE  Inv'
<1>1. /\ root' = root /\ head' = head /\ changes' = changes /\ item' = item /\ stored' = stored
      /\ missed' = missed /\ reports' = [reports EXCEPT ![n].stored = TRUE]
      /\ latest' \in {n} \cup ({latest} \ {0})
      /\ itemLock' = itemLock /\ rootLock' = rootLock /\ wsLock' = wsLock
  BY DEF CheckCommit, objects, locks
<1>2. Types
  BY DEF Inv
<1>3. /\ reports' \in Seq(Report)
      /\ latest' \in 0 .. Len(reports') /\ (latest' # 0 => reports'[latest'].stored)
  <2> DEFINE new == [reports[n] EXCEPT !.stored = TRUE]
  <2>1. reports \in Seq(Report) /\ latest \in 0 .. Len(reports) /\ (latest # 0 => reports[latest].stored)
    BY <1>2 DEF Types
  <2>2. reports[n] \in Report
    BY <2>1
  <2>3. new \in Report /\ new.stored
    BY <2>2 DEF Report
  <2>4. reports' = [reports EXCEPT ![n] = new]
    BY <1>1
  <2> HIDE DEF new
  <2>5. reports' \in Seq(Report) /\ Len(reports') = Len(reports) /\ reports'[n] = new
    BY <2>1, <2>3, <2>4
  <2>6. \A k \in 1 .. Len(reports) : k # n => reports'[k] = reports[k]
    BY <2>1, <2>4
  <2>7. Len(reports) \in Nat
    BY <2>1
  <2>8. CASE latest' = n
    BY <2>3, <2>5, <2>7, <2>8
  <2>9. CASE latest' # n
    <3>1. latest' = latest /\ latest # 0
      BY <1>1, <2>9
    <3> QED BY <2>1, <2>5, <2>6, <2>7, <2>9, <3>1
  <2> QED BY <2>5, <2>8, <2>9
<1>4. req' \in [Requests -> Reading \cup {Done}]
  <2>1. req' = [q \in Requests |-> req'[q]]
    BY DEF CheckCommit
  <2> QED BY <1>2, <2>1, Marked
<1>5. Types'
  BY <1>1, <1>2, <1>3, <1>4 DEF Types, Attached
<1>6. ASSUME NEW p \in Requests PROVE RequestHolds(p)'
  <2>1. RequestHolds(p) /\ req[p].op \in {"none", "attach", "patch", "delete"}
    BY <1>2, Columns DEF Inv
  <2>2. req'[p].op = req[p].op
    BY <1>2, Marked
  <2>3. CASE req[p].op = "none"
    BY <2>2, <2>3 DEF RequestHolds, Hashed
  <2>4. CASE req[p].op # "none"
    <3>1. /\ req'[p].pc = req[p].pc /\ req'[p].hash = req[p].hash /\ req'[p].after = req[p].after
          /\ req[p].op \in {"attach", "patch"} => req'[p].item = req[p].item
          /\ req[p].op = "attach" => req'[p].pin = req[p].pin
          /\ req[p].op \in {"attach", "delete"} => req'[p].root = req[p].root
          /\ req[p].op = "patch" => req'[p].intent = req[p].intent /\ req'[p].version = req[p].version
      BY <1>2, <2>4, Marked
    <3>2. Hashed(p)' <=> Hashed(p)
      BY <2>2, <3>1 DEF Hashed
    <3>3. req[p].op = "attach" => AttachMay(p)'
      BY <1>1, <2>1, <3>1 DEF RequestHolds, AttachMay, Attached
    <3>4. req[p].op = "delete" => DeleteMay(p)'
      BY <1>1, <2>1, <3>1 DEF RequestHolds, DeleteMay
    <3>5. req[p].op = "patch" => PatchMay(p)'
      BY <1>1, <2>1, <3>1 DEF RequestHolds, PatchMay, Attached
    <3>6. ItemsAfter(p)' = ItemsAfter(p) /\ RootsAfter(p)' = RootsAfter(p)
      BY <1>1, <2>2, <3>1 DEF ItemsAfter, RootsAfter, Patched
    <3>7. Hashed(p) => HashHolds(p)'
      BY <1>1, <2>1, <3>1, <3>6 DEF RequestHolds, HashHolds
    <3> QED BY <2>2, <3>2, <3>3, <3>4, <3>5, <3>7 DEF RequestHolds
  <2> QED BY <2>3, <2>4
<1>7. AttachedAlone'
  BY <1>2, Marked DEF Inv, AttachedAlone
<1>8. StoredIsThere' /\ Accounts'
  BY <1>1 DEF Inv, StoredIsThere, Accounts, Shown, Showing, PrintOf
<1> QED BY <1>5, <1>6, <1>7, <1>8 DEF Inv

\* A request for an attach, a patch or a delete arrives.
LEMMA OpenStep ==
  ASSUME Inv, NEW q \in Requests,
         \/ \E i \in Items, r \in Roots, v \in 1 .. MaxHead : AttachOpen(q, i, r, v)
         \/ \E i \in Items : PatchOpen(q, i)
         \/ \E r \in Roots : DeleteOpen(q, r)
  PROVE  Inv'
<1>1. Types
  BY DEF Inv
<1>2. Nothing \in Fingerprints
  BY NothingType
<1>3. ASSUME NEW i \in Items, NEW r \in Roots, NEW v \in 1 .. MaxHead, AttachOpen(q, i, r, v) PROVE Inv'
  <2> DEFINE x == [op |-> "attach", pc |-> "checked", item |-> i, root |-> r, pin |-> v, hash |-> Nothing, after |-> {}, event |-> 0, late |-> FALSE]
  <2>1. x \in Reading \cup {Done}
    BY <1>2 DEF Reading
  <2>2. Set(q, x) /\ UNCHANGED <<objects, item, stored, evidence, locks, missed>>
    BY <1>3 DEF AttachOpen
  <2>3. req'[q] = x
    BY <1>1, <2>1, <2>2, SetOne
  <2>4. /\ itemLock' \in [Items -> Requests \cup {None}] /\ rootLock' \in [Roots -> Requests \cup {None}]
        /\ wsLock' \in Requests \cup {None}
        /\ itemLock' = itemLock /\ rootLock' = rootLock /\ wsLock' = wsLock /\ head' = head /\ item' = item
    BY <1>1, <2>2 DEF Types, locks, objects
  <2>5. RequestHolds(q)'
    <3>1. AttachMay(q)'
      BY <1>3, <2>3, <2>4 DEF AttachOpen, AttachMay, Attached
    <3> QED BY <2>3, <3>1 DEF RequestHolds, Hashed
  <2>6. \A p \in Requests \ {q} : req[p].op = "attach" => req[p].item # x.item
    BY <1>3 DEF AttachOpen
  <2>7. UNCHANGED <<objects, item, stored, evidence, missed>>
    BY <2>2
  <2> HIDE DEF x
  <2> QED BY <2>1, <2>2, <2>4, <2>5, <2>6, <2>7, RequestStep
<1>4. ASSUME NEW i \in Items, PatchOpen(q, i) PROVE Inv'
  <2> DEFINE x == [op |-> "patch", pc |-> "seen", item |-> i, version |-> item[i].version,
                   intent |-> [kind |-> "none"], hash |-> Nothing, after |-> {}, event |-> 0, late |-> FALSE]
  <2>1. Attached(i) /\ item[i].version \in 1 .. MaxVersion /\ item[i].version < MaxVersion
    BY <1>1, <1>4, Rows DEF PatchOpen
  <2>2. x \in Reading \cup {Done}
    BY <1>2, <2>1 DEF Reading
  <2>3. Set(q, x) /\ UNCHANGED <<objects, item, stored, evidence, locks, missed>>
    BY <1>4 DEF PatchOpen
  <2>4. req'[q] = x
    BY <1>1, <2>2, <2>3, SetOne
  <2>5. /\ itemLock' \in [Items -> Requests \cup {None}] /\ rootLock' \in [Roots -> Requests \cup {None}]
        /\ wsLock' \in Requests \cup {None}
        /\ itemLock' = itemLock /\ rootLock' = rootLock /\ wsLock' = wsLock /\ item' = item
    BY <1>1, <2>3 DEF Types, locks
  <2>6. RequestHolds(q)'
    <3>1. PatchMay(q)'
      BY <2>1, <2>4, <2>5 DEF PatchMay, Attached
    <3> QED BY <2>4, <3>1 DEF RequestHolds, Hashed
  <2>7. UNCHANGED <<objects, item, stored, evidence, missed>>
    BY <2>3
  <2>8. x.op # "attach"
    OBVIOUS
  <2> HIDE DEF x
  <2> QED BY <2>2, <2>3, <2>5, <2>6, <2>7, <2>8, RequestStep
<1>5. ASSUME NEW r \in Roots, DeleteOpen(q, r) PROVE Inv'
  <2> DEFINE x == [op |-> "delete", pc |-> "checked", root |-> r, hash |-> Nothing, after |-> {}, event |-> 0, late |-> FALSE]
  <2>1. x \in Reading \cup {Done}
    BY <1>2 DEF Reading
  <2>2. /\ Set(q, x) /\ rootLock[r] = None /\ root[r] = "active" /\ rootLock' = [rootLock EXCEPT ![r] = q]
        /\ itemLock' = itemLock /\ wsLock' = wsLock /\ UNCHANGED <<objects, item, stored, evidence, missed>>
    BY <1>5 DEF DeleteOpen
  <2>3. req'[q] = x
    BY <1>1, <2>1, <2>2, SetOne
  <2>4. rootLock \in [Roots -> Requests \cup {None}]
    BY <1>1 DEF Types
  <2>5. /\ itemLock' \in [Items -> Requests \cup {None}] /\ wsLock' \in Requests \cup {None}
        /\ rootLock' \in [Roots -> Requests \cup {None}] /\ rootLock'[r] = q
        /\ \A p \in Requests, y \in Roots : rootLock[y] = p => rootLock'[y] = p
    <3>1. itemLock' \in [Items -> Requests \cup {None}] /\ wsLock' \in Requests \cup {None}
      BY <1>1, <2>2 DEF Types
    <3> QED BY <2>2, <2>4, <3>1, RowTaken
  <2>6. RequestHolds(q)'
    <3>1. DeleteMay(q)'
      BY <2>2, <2>3, <2>5 DEF DeleteMay, objects
    <3> QED BY <2>3, <3>1 DEF RequestHolds, Hashed
  <2>7. x.op # "attach"
    OBVIOUS
  <2> HIDE DEF x
  <2> QED BY <2>1, <2>2, <2>5, <2>6, <2>7, RequestStep
<1> QED BY <1>3, <1>4, <1>5

\* A patch waits for its item's row, and to pin for the root's.
LEMMA LockStep ==
  ASSUME Inv, NEW q \in Requests,
         \/ \E intent \in Intents : req[q].op = "patch" /\ Pinnable(q, intent) /\ PatchLock(q, intent)
         \/ PinRoot(q)
  PROVE  Inv'
<1> DEFINE i == req[q].item
           r == item[i].root
<1>1. Types /\ RequestHolds(q)
  BY DEF Inv
<1>2. req[q].op = "patch"
  BY DEF PinRoot, Is
<1>3. i \in Items /\ PatchMay(q) /\ Attached(i) /\ r \in Roots
  BY <1>1, <1>2, Columns, Rows DEF RequestHolds, PatchMay
<1>4. /\ itemLock \in [Items -> Requests \cup {None}] /\ rootLock \in [Roots -> Requests \cup {None}]
      /\ wsLock \in Requests \cup {None} /\ None \notin Requests
  BY <1>1, MainboardBoundsAssumption DEF Types
<1>5. req[q] \in Reading /\ req[q].hash \in Fingerprints /\ req[q].after \subseteq Roots /\ req[q].version \in 1 .. MaxVersion
      /\ req[q].intent \in Intents \cup {[kind |-> "none"]} /\ req[q].event \in Nat /\ req[q].late \in BOOLEAN
  BY <1>1, <1>2, Columns DEF Done
<1>6. req[q] = [op |-> "patch", pc |-> req[q].pc, item |-> i, version |-> req[q].version,
                intent |-> req[q].intent, hash |-> req[q].hash, after |-> req[q].after,
                event |-> req[q].event, late |-> req[q].late]
  BY <1>2, <1>5 DEF Reading
<1>7. ASSUME Set(q, Done), itemLock' \in {itemLock, [itemLock EXCEPT ![i] = None]}, itemLock' # itemLock => itemLock[i] = q,
             rootLock' = rootLock, wsLock' = wsLock, UNCHANGED <<objects, item, stored, evidence, missed>>
      PROVE  Inv'
  <2>1. req'[q] = Done
    BY <1>1, <1>7, SetOne
  <2>2. RequestHolds(q)'
    BY <2>1 DEF RequestHolds, Hashed, Done
  <2>3. itemLock' \in [Items -> Requests \cup {None}]
    BY <1>4, <1>7
  <2>4. \A p \in Requests \ {q}, j \in Items : itemLock[j] = p => itemLock'[j] = p
    BY <1>3, <1>4, <1>7
  <2>5. Done.op # "attach" /\ Done \in Reading \cup {Done}
    BY DEF Done
  <2> HIDE DEF Done
  <2> QED BY <1>4, <1>7, <2>2, <2>3, <2>4, <2>5, RequestStep
<1>8. ASSUME NEW intent \in Intents, Pinnable(q, intent), PatchLock(q, intent) PROVE Inv'
  <2>1. /\ req[q].pc = "seen" /\ itemLock[i] = None
        /\ rootLock' = rootLock /\ wsLock' = wsLock /\ UNCHANGED <<objects, item, stored, evidence, missed>>
    BY <1>8 DEF PatchLock, Is
  <2>2. CASE item[i].version = req[q].version
    <3> DEFINE pc == IF intent.kind = "pin" THEN "locked" ELSE "ready"
               x == [req[q] EXCEPT !.pc = pc, !.intent = intent]
    <3>1. itemLock' = [itemLock EXCEPT ![i] = q] /\ Set(q, x)
      BY <1>8, <2>2 DEF PatchLock
    <3>2. pc \in {"locked", "ready"} /\ (pc = "locked" => intent.kind = "pin") /\ (pc # "locked" => intent.kind # "pin")
      OBVIOUS
    <3>3. /\ x \in Reading /\ x.op = "patch" /\ x.pc = pc /\ x.item = i /\ x.version = req[q].version
          /\ x.intent = intent
      <4> HIDE DEF pc
      <4> QED BY <1>2, <1>5, <3>2 DEF Reading
    <3> HIDE DEF x, pc
    <3>4. x \in Reading \cup {Done}
      BY <3>3
    <3>5. Set(q, x)
      BY <3>1
    <3>6. req'[q] = x
      BY <1>1, <3>4, <3>5, SetOne
    <3>7. /\ itemLock' \in [Items -> Requests \cup {None}] /\ itemLock'[i] = q
          /\ \A p \in Requests, y \in Items : itemLock[y] = p => itemLock'[y] = p
      BY <1>3, <1>4, <2>1, <3>1, RowTaken
    <3>8. RequestHolds(q)'
      <4>1. item' = item /\ head' = head
        BY <2>1 DEF objects
      <4>2. intent.kind = "pin" => intent.rev <= head[item[i].root]
        BY <1>8 DEF Pinnable
      <4>3. req[q].version < MaxVersion
        BY <1>3 DEF PatchMay
      <4>4. PatchMay(q)'
        BY <1>3, <2>2, <3>2, <3>3, <3>6, <3>7, <4>1, <4>2, <4>3 DEF PatchMay, Attached
      <4> QED BY <3>2, <3>3, <3>6, <4>4 DEF RequestHolds, Hashed
    <3>9. x.op # "attach"
      BY <3>3
    <3> QED BY <1>4, <2>1, <3>4, <3>5, <3>7, <3>8, <3>9, RequestStep
  <2>3. CASE item[i].version # req[q].version
    BY <1>7, <1>8, <2>1, <2>3 DEF PatchLock
  <2> QED BY <2>2, <2>3
<1>9. ASSUME PinRoot(q) PROVE Inv'
  <2>1. /\ req[q].pc = "locked" /\ rootLock[r] = None
        /\ wsLock' = wsLock /\ UNCHANGED <<objects, item, stored, evidence, missed>>
    BY <1>9 DEF PinRoot, Is
  <2>2. /\ itemLock[i] = q /\ item[i].version = req[q].version /\ req[q].intent \in Intents
        /\ req[q].intent.rev <= head[r] /\ req[q].version < MaxVersion /\ req[q].intent.kind = "pin"
    BY <1>3, <2>1 DEF PatchMay
  <2>3. CASE root[r] = "active"
    <3> DEFINE x == [op |-> "patch", pc |-> "ready", item |-> i, version |-> req[q].version,
                     intent |-> req[q].intent, hash |-> req[q].hash, after |-> req[q].after,
                event |-> req[q].event, late |-> req[q].late]
    <3>1. rootLock' = [rootLock EXCEPT ![r] = q] /\ itemLock' = itemLock /\ Set(q, [req[q] EXCEPT !.pc = "ready"])
      BY <1>9, <2>3 DEF PinRoot
    <3>2. [req[q] EXCEPT !.pc = "ready"] = x
      BY <1>6
    <3>3. x \in Reading \cup {Done}
      <4> HIDE DEF i
      <4> QED BY <1>3, <1>5 DEF Reading
    <3>4. Set(q, x)
      BY <3>1, <3>2
    <3>5. req'[q] = x
      BY <1>1, <3>3, <3>4, SetOne
    <3>6. /\ rootLock' \in [Roots -> Requests \cup {None}] /\ rootLock'[r] = q
          /\ \A p \in Requests, y \in Roots : rootLock[y] = p => rootLock'[y] = p
      BY <1>3, <1>4, <2>1, <3>1, RowTaken
    <3>7. RequestHolds(q)'
      <4>1. item' = item /\ head' = head /\ root' = root
        BY <2>1 DEF objects
      <4>2. PatchMay(q)'
        BY <1>3, <2>2, <2>3, <3>1, <3>5, <3>6, <4>1 DEF PatchMay, Attached
      <4> QED BY <3>5, <4>2 DEF RequestHolds, Hashed
    <3>8. x.op # "attach"
      OBVIOUS
    <3> HIDE DEF x
    <3> QED BY <1>4, <2>1, <3>1, <3>3, <3>4, <3>6, <3>7, <3>8, RequestStep
  <2>4. CASE root[r] # "active"
    BY <1>7, <1>9, <2>1, <2>2, <2>4 DEF PinRoot
  <2> QED BY <2>3, <2>4
<1> QED BY <1>8, <1>9

\* The workspace row is locked, then the items are read.
LEMMA RecomputeStep ==
  ASSUME Inv, NEW q \in Requests, Recompute(q)
  PROVE  Inv'
<1> DEFINE fp == PrintOf(ItemsAfter(q), RootsAfter(q))
           pc == IF fp = stored THEN "looked" ELSE "hashed"
           x == [req[q] EXCEPT !.pc = pc, !.hash = fp]
<1>1. Types /\ RequestHolds(q) /\ Recomputes(q) /\ wsLock = None /\ wsLock' = q
      /\ UNCHANGED <<objects, item, stored, evidence, itemLock, rootLock, missed>>
  BY DEF Inv, Recompute
<1>2. SeenBy(q) = fp
  BY <1>1, SeenIs
<1>3. Set(q, x)
  BY <1>2 DEF Recompute
<1>4. fp \in Fingerprints /\ \A m \in Members : fp[m] <= Shown(ItemsAfter(q), m)
  BY PrintType
<1>5. req[q] \in Reading
  BY <1>1, Columns DEF Recomputes, Is, Done
<1>6. /\ x \in Reading /\ x.op = req[q].op /\ x.pc = pc /\ pc \in {"hashed", "looked"} /\ x.hash = fp
      /\ req[q].op = "attach" => x.item = req[q].item /\ x.root = req[q].root /\ x.pin = req[q].pin
      /\ req[q].op = "patch" => x.item = req[q].item /\ x.version = req[q].version /\ x.intent = req[q].intent
      /\ req[q].op = "delete" => x.root = req[q].root
  <2>0. pc \in {"hashed", "looked"}
    OBVIOUS
  <2> HIDE DEF fp, pc
  <2>1. CASE req[q].op = "attach"
    BY <1>4, <1>5, <2>0, <2>1 DEF Reading
  <2>2. CASE req[q].op = "patch"
    BY <1>4, <1>5, <2>0, <2>2 DEF Reading
  <2>3. CASE req[q].op = "delete"
    BY <1>4, <1>5, <2>0, <2>3 DEF Reading
  <2> QED BY <1>1, <2>0, <2>1, <2>2, <2>3 DEF Recomputes, Is
<1>7. req'[q] = x
  BY <1>1, <1>3, <1>6, SetOne
<1>8. /\ itemLock' \in [Items -> Requests \cup {None}] /\ rootLock' \in [Roots -> Requests \cup {None}]
      /\ wsLock' \in Requests \cup {None} /\ None \notin Requests
      /\ itemLock' = itemLock /\ rootLock' = rootLock /\ item' = item /\ root' = root /\ head' = head
  BY <1>1, MainboardBoundsAssumption DEF Types, objects
<1>9. RequestHolds(q)'
  <2> HIDE DEF x, pc
  <2>1. req[q].op = "attach" => AttachMay(q)'
    BY <1>1, <1>6, <1>7, <1>8 DEF RequestHolds, AttachMay, Attached
  <2>2. req[q].op = "delete" => DeleteMay(q)'
    BY <1>1, <1>6, <1>7, <1>8 DEF RequestHolds, DeleteMay
  <2>3. req[q].op = "patch" => PatchMay(q)'
    BY <1>1, <1>6, <1>7, <1>8 DEF RequestHolds, PatchMay, Attached, Recomputes, Is
  <2>4. ItemsAfter(q)' = ItemsAfter(q) /\ RootsAfter(q)' = RootsAfter(q)
    BY <1>6, <1>7, <1>8 DEF ItemsAfter, RootsAfter, Patched
  <2>5. HashHolds(q)'
    BY <1>1, <1>4, <1>6, <1>7, <2>4 DEF HashHolds
  <2> QED BY <1>6, <1>7, <2>1, <2>2, <2>3, <2>5 DEF RequestHolds
<1>10. x.op = "attach" => \A p \in Requests \ {q} : req[p].op = "attach" => req[p].item # x.item
  BY <1>6 DEF Inv, AttachedAlone
<1>11. UNCHANGED <<objects, item, stored, evidence, missed>>
  BY <1>1
<1> HIDE DEF x
<1> QED BY <1>1, <1>3, <1>6, <1>8, <1>9, <1>10, <1>11, RequestStep

\* The latest report is looked up.
LEMMA ReadLatestStep ==
  ASSUME Inv, NEW q \in Requests, ReadLatest(q)
  PROVE  Inv'
<1> DEFINE x == [req[q] EXCEPT !.pc = "looked", !.event = Named]
<1>1. /\ Types /\ RequestHolds(q) /\ Hashed(q) /\ req[q].pc = "hashed" /\ Set(q, x)
      /\ UNCHANGED <<objects, item, stored, evidence, locks, missed>>
  BY DEF Inv, ReadLatest, Hashed, Looked
<1>2. Named \in Nat
  BY <1>1 DEF Named, Types
<1>3. req[q] \in Reading
  BY <1>1, Columns DEF Hashed, Done
<1>4. /\ x \in Reading /\ x.op = req[q].op /\ x.pc = "looked" /\ x.hash = req[q].hash /\ x.after = req[q].after
      /\ x.event = Named /\ x.late = req[q].late
      /\ req[q].op = "attach" => x.item = req[q].item /\ x.root = req[q].root /\ x.pin = req[q].pin
      /\ req[q].op = "patch" => x.item = req[q].item /\ x.version = req[q].version /\ x.intent = req[q].intent
      /\ req[q].op = "delete" => x.root = req[q].root
  <2>1. CASE req[q].op = "attach"
    BY <1>2, <1>3, <2>1 DEF Reading
  <2>2. CASE req[q].op = "patch"
    BY <1>2, <1>3, <2>2 DEF Reading
  <2>3. CASE req[q].op = "delete"
    BY <1>2, <1>3, <2>3 DEF Reading
  <2> QED BY <1>1, <2>1, <2>2, <2>3 DEF Hashed
<1> HIDE DEF x
<1>5. req'[q] = x
  BY <1>1, <1>4, SetOne
<1>6. /\ itemLock' \in [Items -> Requests \cup {None}] /\ rootLock' \in [Roots -> Requests \cup {None}]
      /\ wsLock' \in Requests \cup {None} /\ itemLock' = itemLock /\ rootLock' = rootLock /\ wsLock' = wsLock
      /\ item' = item /\ root' = root /\ head' = head
  BY <1>1 DEF Types, objects, locks
<1>7. RequestHolds(q)'
  <2>1. req[q].op = "attach" => AttachMay(q)'
    BY <1>1, <1>4, <1>5, <1>6 DEF RequestHolds, AttachMay, Attached
  <2>2. req[q].op = "delete" => DeleteMay(q)'
    BY <1>1, <1>4, <1>5, <1>6 DEF RequestHolds, DeleteMay
  <2>3. req[q].op = "patch" => PatchMay(q)'
    BY <1>1, <1>4, <1>5, <1>6 DEF RequestHolds, PatchMay, Attached
  <2>4. ItemsAfter(q)' = ItemsAfter(q) /\ RootsAfter(q)' = RootsAfter(q)
    BY <1>4, <1>5, <1>6 DEF ItemsAfter, RootsAfter, Patched
  <2>5. HashHolds(q)'
    BY <1>1, <1>4, <1>5, <1>6, <2>4 DEF RequestHolds, HashHolds
  <2> QED BY <1>4, <1>5, <2>1, <2>2, <2>3, <2>5 DEF RequestHolds
<1>8. x.op = "attach" => \A p \in Requests \ {q} : req[p].op = "attach" => req[p].item # x.item
  BY <1>4 DEF Inv, AttachedAlone
<1>9. UNCHANGED <<objects, item, stored, evidence, missed>>
  BY <1>1
<1> QED BY <1>1, <1>4, <1>6, <1>7, <1>8, <1>9, RequestStep

\* Rows that a patch q holds are held by nobody else.
LEMMA PatchHolds ==
  ASSUME Inv, NEW q \in Requests, req[q].op = "patch", req[q].pc \in {"ready", "hashed", "looked"}
  PROVE  /\ req[q].item \in Items /\ Attached(req[q].item) /\ itemLock[req[q].item] = q
         /\ item[req[q].item].version = req[q].version /\ Patched(q) \in Item /\ req[q].intent \in Intents
         /\ Patched(q).root = item[req[q].item].root /\ Patched(q).attached = TRUE
         /\ Patched(q).pin <= head[Patched(q).root]
         /\ Patched(q).pin = IF req[q].intent.kind = "pin" THEN req[q].intent.rev ELSE item[req[q].item].pin
         /\ Patched(q).enabled = IF req[q].intent.kind = "enable" THEN req[q].intent.on ELSE item[req[q].item].enabled
         /\ req[q].intent.kind = "pin" => root[item[req[q].item].root] = "active"
<1>1. Types /\ PatchMay(q)
  BY DEF Inv, RequestHolds
<1>2. /\ req[q].item \in Items /\ Attached(req[q].item) /\ itemLock[req[q].item] = q
      /\ item[req[q].item].version = req[q].version /\ req[q].intent \in Intents
      /\ item[req[q].item].version < MaxVersion
      /\ req[q].intent.kind = "pin" => /\ req[q].intent.rev <= head[item[req[q].item].root]
                                       /\ root[item[req[q].item].root] = "active"
  BY <1>1, Columns DEF PatchMay
<1>3. item[req[q].item].pin <= head[item[req[q].item].root]
  BY <1>1, <1>2, Rows
<1> QED BY <1>1, <1>2, <1>3, PatchLeaves

\* reorder and set_label commit at once.
LEMMA LabelStep ==
  ASSUME Inv, NEW q \in Requests, LabelCommit(q)
  PROVE  Inv'
<1> DEFINE i == req[q].item
<1>1. /\ req[q].op = "patch" /\ req[q].pc = "ready" /\ req[q].intent.kind = "label"
      /\ item' = [item EXCEPT ![i] = Patched(q)] /\ itemLock' = [itemLock EXCEPT ![i] = None] /\ Set(q, Done)
      /\ root' = root /\ head' = head /\ changes' = changes /\ stored' = stored
      /\ reports' = reports /\ latest' = latest /\ rootLock' = rootLock /\ wsLock' = wsLock /\ missed' = missed
  BY DEF LabelCommit, Is, objects, evidence
<1>2. /\ i \in Items /\ Attached(i) /\ itemLock[i] = q /\ Patched(q) \in Item
      /\ Patched(q).root = item[i].root /\ Patched(q).attached = TRUE /\ Patched(q).pin = item[i].pin
      /\ Patched(q).enabled = item[i].enabled /\ Patched(q).pin <= head[Patched(q).root]
  BY <1>1, PatchHolds
<1>3. Types /\ item \in [Items -> {NoItem} \cup Item] /\ None \notin Requests
      /\ itemLock \in [Items -> Requests \cup {None}]
  BY MainboardBoundsAssumption DEF Inv, Types
<1>4. /\ item' \in [Items -> {NoItem} \cup Item] /\ item'[i] = Patched(q)
      /\ \A j \in Items \ {i} : item'[j] = item[j]
  BY <1>1, <1>2, <1>3
<1>5. /\ itemLock' \in [Items -> Requests \cup {None}]
      /\ \A p \in Requests \ {q}, j \in Items : itemLock[j] = p => itemLock'[j] = p /\ j # i
  BY <1>1, <1>2, <1>3
<1>6. Alike(item, item')
  BY <1>2, <1>4 DEF Alike, Attached
<1>7. Done \in Reading \cup {Done}
  OBVIOUS
<1>8. /\ req' \in [Requests -> Reading \cup {Done}] /\ req'[q] = Done
      /\ \A p \in Requests \ {q} : req'[p] = req[p]
  BY <1>1, <1>3, <1>7, SetOne
<1>9. Types'
  <2>1. \A j \in Items : Attached(j)' => item'[j].pin <= head'[item'[j].root]
    BY <1>1, <1>2, <1>3, <1>4, Rows DEF Attached
  <2> QED BY <1>1, <1>3, <1>4, <1>5, <1>8, <2>1 DEF Types
<1>10. ASSUME NEW p \in Requests, p # q PROVE RequestHolds(p)'
  <2>1. RequestHolds(p) /\ req'[p] = req[p]
    BY <1>8, <1>10 DEF Inv
  <2>2. head' \in [Roots -> 1 .. MaxHead]
    BY <1>9 DEF Types
  <2>3. \A x \in Roots : head[x] <= head'[x]
    BY <1>1, <2>2
  <2>4. \A j \in Items : Attached(j) => item'[j].attached /\ item'[j].root = item[j].root
    BY <1>2, <1>4 DEF Attached
  <2>5. req[p].op = "attach" => ~item'[req[p].item].attached
    <3> SUFFICES ASSUME req[p].op = "attach" PROVE ~item'[req[p].item].attached
      OBVIOUS
    <3>1. ~Attached(req[p].item) /\ req[p].item \in Items
      BY <1>3, <2>1, Columns DEF RequestHolds, AttachMay
    <3>2. req[p].item # i
      BY <1>2, <3>1
    <3> QED BY <1>4, <3>1, <3>2 DEF Attached
  <2>6. \A j \in Items : itemLock[j] = p => itemLock'[j] = p /\ item'[j] = item[j]
    BY <1>4, <1>5, <1>10
  <2>7. \A x \in Roots : rootLock[x] = p => rootLock'[x] = p /\ root'[x] = root[x]
    BY <1>1
  <2> QED BY <1>1, <1>3, <1>4, <1>6, <2>1, <2>2, <2>3, <2>4, <2>5, <2>6, <2>7, OtherRequest
<1>11. RequestHolds(q)'
  BY <1>8 DEF RequestHolds, Hashed, Done
<1>12. AttachedAlone'
  BY <1>8 DEF Inv, AttachedAlone, Done
<1>13. StoredIsThere' /\ Accounts'
  BY <1>1, <1>6, StoredKept DEF Inv
<1> QED BY <1>9, <1>10, <1>11, <1>12, <1>13 DEF Inv

\* An attach commits its item, enabled.
LEMMA AttachStep ==
  ASSUME Inv, NEW q \in Requests, AttachCommit(q)
  PROVE  Inv'
<1> DEFINE i == req[q].item
           new == [attached |-> TRUE, root |-> req[q].root, pin |-> req[q].pin, enabled |-> TRUE, version |-> 1]
<1>1. /\ req[q].op = "attach" /\ req[q].pc = "looked" /\ Hashed(q)
      /\ item' = [item EXCEPT ![i] = new] /\ StoreHash(q) /\ Set(q, Done)
      /\ root' = root /\ head' = head /\ changes' = changes /\ reports' = reports /\ latest' = latest
  BY DEF AttachCommit, Is, Hashed, objects, evidence
<1>2. Types /\ item \in [Items -> {NoItem} \cup Item] /\ root \in [Roots -> {"active", "deleted"}] /\ MaxVersion \in Nat \ {0}
  BY MainboardBoundsAssumption DEF Inv, Types
<1>3. i \in Items /\ req[q].root \in Roots /\ req[q].pin \in 1 .. MaxHead /\ ~Attached(i)
      /\ req[q].pin <= head[req[q].root] /\ HashHolds(q)
  BY <1>1, <1>2, Columns DEF Inv, RequestHolds, AttachMay
<1>4. new \in Item
  BY <1>2, <1>3 DEF Item
<1>5. /\ item' \in [Items -> {NoItem} \cup Item] /\ item'[i] = new /\ \A j \in Items \ {i} : item'[j] = item[j]
  BY <1>1, <1>2, <1>3, <1>4
<1>6. \A j \in Items : item'[j].attached => item'[j].pin <= head[item'[j].root]
  BY <1>2, <1>3, <1>5, Rows DEF Attached
<1>7. \A j \in Items : Attached(j) => item'[j].attached /\ item'[j].root = item[j].root
  BY <1>3, <1>5 DEF Attached
<1>8. ASSUME NEW p \in Requests, p # q
      PROVE  /\ req[p].op = "attach" => ~item'[req[p].item].attached
             /\ \A j \in Items : Attached(j) /\ itemLock[j] = p => item'[j] = item[j]
             /\ \A r \in Roots : rootLock[r] = p => root'[r] = root[r]
  <2>1. req[p].op = "attach" => req[p].item # i /\ ~Attached(req[p].item) /\ req[p].item \in Items
    BY <1>1, <1>2, <1>8, Columns DEF Inv, AttachedAlone, RequestHolds, AttachMay
  <2> QED BY <1>1, <1>3, <1>5, <2>1 DEF Attached
<1>9. \A m \in Members : req[q].hash[m] <= Shown(item', m)
  <2> TAKE m \in Members
  <2>1. req[q].hash[m] <= Shown(item, m)
    BY <1>1, <1>3 DEF HashHolds, ItemsAfter
  <2>2. Showing(item, m) \subseteq Showing(item', m) /\ Showing(item', m) \in SUBSET Items
    BY <1>3, <1>5 DEF Showing, Attached
  <2>3. IsFiniteSet(Showing(item', m)) /\ Shown(item', m) \in 0 .. Cardinality(Items) /\ Shown(item, m) \in 0 .. Cardinality(Items)
    BY <2>2, CountType, PrintType DEF Shown
  <2>4. Shown(item, m) <= Shown(item', m)
    BY <2>2, <2>3, FS_Subset DEF Shown
  <2>5. req[q].hash[m] \in 0 .. Cardinality(Items)
    BY <1>1, <1>2, Columns DEF Fingerprints
  <2> QED BY <2>1, <2>3, <2>4, <2>5
<1>10. missed' # {}
  BY <1>1 DEF StoreHash
<1>11. root' \in [Roots -> {"active", "deleted"}]
  BY <1>1, <1>2
<1> QED BY <1>1, <1>5, <1>6, <1>7, <1>8, <1>9, <1>10, <1>11, CommitStep

\* A patch commits its item.
LEMMA PatchStep ==
  ASSUME Inv, NEW q \in Requests, PatchCommit(q)
  PROVE  Inv'
<1> DEFINE i == req[q].item
<1>1. /\ req[q].op = "patch" /\ req[q].pc = "looked" /\ Hashed(q)
      /\ item' = [item EXCEPT ![i] = Patched(q)] /\ StoreHash(q) /\ Set(q, Done)
      /\ root' = root /\ head' = head /\ changes' = changes /\ reports' = reports /\ latest' = latest
  BY DEF PatchCommit, Is, Hashed, objects, evidence
<1>2. Types /\ item \in [Items -> {NoItem} \cup Item] /\ root \in [Roots -> {"active", "deleted"}]
  BY DEF Inv, Types
<1>3. /\ i \in Items /\ Attached(i) /\ itemLock[i] = q /\ Patched(q) \in Item
      /\ Patched(q).root = item[i].root /\ Patched(q).attached = TRUE /\ Patched(q).pin <= head[Patched(q).root]
  BY <1>1, PatchHolds
<1>4. item' \in [Items -> {NoItem} \cup Item] /\ item'[i] = Patched(q) /\ \A j \in Items \ {i} : item'[j] = item[j]
  BY <1>1, <1>2, <1>3
<1>5. \A j \in Items : item'[j].attached => item'[j].pin <= head[item'[j].root]
  BY <1>2, <1>3, <1>4, Rows DEF Attached
<1>6. \A j \in Items : Attached(j) => item'[j].attached /\ item'[j].root = item[j].root
  BY <1>3, <1>4 DEF Attached
<1>7. ASSUME NEW p \in Requests, p # q
      PROVE  /\ req[p].op = "attach" => ~item'[req[p].item].attached
             /\ \A j \in Items : Attached(j) /\ itemLock[j] = p => item'[j] = item[j]
             /\ \A r \in Roots : rootLock[r] = p => root'[r] = root[r]
  <2>1. req[p].op = "attach" => ~Attached(req[p].item) /\ req[p].item \in Items
    BY <1>2, Columns DEF Inv, RequestHolds, AttachMay
  <2> QED BY <1>1, <1>3, <1>4, <1>7, <2>1 DEF Attached
<1>8. ItemsAfter(q) = item' /\ RootsAfter(q) = root' /\ HashHolds(q)
  BY <1>1 DEF ItemsAfter, RootsAfter, Inv, RequestHolds
<1>9. missed' = req[q].after
  BY <1>1 DEF StoreHash
<1>10. root' \in [Roots -> {"active", "deleted"}]
  BY <1>1, <1>2
<1>11. (\A m \in Members : req[q].hash[m] <= Shown(item', m)) /\ (missed' = {} => req[q].hash = PrintOf(item', root'))
  BY <1>8, <1>9 DEF HashHolds
<1> QED BY <1>1, <1>4, <1>5, <1>6, <1>7, <1>10, <1>11, CommitStep

\* A delete commits the state of its root.
LEMMA DeleteStep ==
  ASSUME Inv, NEW q \in Requests, DeleteCommit(q)
  PROVE  Inv'
<1> DEFINE r == req[q].root
<1>1. /\ req[q].op = "delete" /\ req[q].pc = "looked" /\ Hashed(q)
      /\ root' = [root EXCEPT ![r] = "deleted"] /\ StoreHash(q) /\ Set(q, Done)
      /\ item' = item /\ head' = head /\ changes' = changes /\ reports' = reports /\ latest' = latest
  BY DEF DeleteCommit, Is, Hashed, evidence
<1>2. Types /\ item \in [Items -> {NoItem} \cup Item] /\ root \in [Roots -> {"active", "deleted"}]
  BY DEF Inv, Types
<1>3. r \in Roots /\ rootLock[r] = q
  BY <1>1, <1>2, Columns DEF Inv, RequestHolds, DeleteMay
<1>4. root' \in [Roots -> {"active", "deleted"}] /\ \A x \in Roots \ {r} : root'[x] = root[x]
  BY <1>1, <1>2, <1>3
<1>5. \A j \in Items : item'[j].attached => item'[j].pin <= head[item'[j].root]
  BY <1>1, <1>2, Rows DEF Attached
<1>6. \A j \in Items : Attached(j) => item'[j].attached /\ item'[j].root = item[j].root
  BY <1>1 DEF Attached
<1>7. ASSUME NEW p \in Requests, p # q
      PROVE  /\ req[p].op = "attach" => ~item'[req[p].item].attached
             /\ \A j \in Items : Attached(j) /\ itemLock[j] = p => item'[j] = item[j]
             /\ \A x \in Roots : rootLock[x] = p => root'[x] = root[x]
  <2>1. req[p].op = "attach" => ~Attached(req[p].item)
    BY DEF Inv, RequestHolds, AttachMay
  <2> QED BY <1>1, <1>3, <1>4, <1>7, <2>1 DEF Attached
<1>8. ItemsAfter(q) = item' /\ RootsAfter(q) = root' /\ HashHolds(q)
  BY <1>1 DEF ItemsAfter, RootsAfter, Inv, RequestHolds
<1>9. missed' = req[q].after
  BY <1>1 DEF StoreHash
<1>10. (\A m \in Members : req[q].hash[m] <= Shown(item', m)) /\ (missed' = {} => req[q].hash = PrintOf(item', root'))
  BY <1>8, <1>9 DEF HashHolds
<1>11. item' \in [Items -> {NoItem} \cup Item]
  BY <1>1, <1>2
<1> QED BY <1>1, <1>4, <1>5, <1>6, <1>7, <1>10, <1>11, CommitStep

-----------------------------------------------------------------------------
(* What is said of reports *)

\* What a request says of reports stays, where a step leaves it alone.
LEMMA EventStays ==
  ASSUME Types, Types', NEW p \in Requests, EventHolds(p),
         req'[p] # Done => /\ req[p] # Done /\ req'[p].op = req[p].op /\ req'[p].pc = req[p].pc
                           /\ req'[p].event = req[p].event /\ req'[p].hash = req[p].hash
                           /\ req'[p].late = req[p].late,
         Hashed(p) => stored' = stored,
         latest' = latest, Len(reports) <= Len(reports'),
         \A n \in 1 .. Len(reports) : reports'[n].fp = reports[n].fp
  PROVE  EventHolds(p)'
<1>1. CASE req'[p] = Done
  BY <1>1 DEF EventHolds, Hashed, Looked, Done
<1>2. CASE req'[p] # Done
  <2>1. /\ Len(reports) \in Nat /\ Len(reports') \in Nat /\ latest \in 0 .. Len(reports)
        /\ req[p].op # "none" => req[p].event \in Nat
    BY Columns DEF Types
  <2>2. Looked(p)' = Looked(p) /\ Hashed(p)' = Hashed(p) /\ (Looked(p) => Hashed(p))
    BY <1>2 DEF Looked, Hashed
  <2>3. req[p] # Done /\ ~Looked(p) => req'[p].event = 0
    BY <1>2 DEF EventHolds
  <2>4. Hashed(p) /\ ~Looked(p) => req'[p].hash # stored'
    BY <1>2 DEF EventHolds
  <2>5. latest # 0 => reports'[latest].fp = reports[latest].fp
    BY <2>1
  <2>6. ASSUME Looked(p), req[p].event # 0
        PROVE  req'[p].event \in 1 .. Len(reports') /\ reports'[req'[p].event].fp = stored' /\ req'[p].hash # stored'
    <3>1. req[p].event \in 1 .. Len(reports) /\ reports[req[p].event].fp = stored /\ req[p].hash # stored
      BY <2>6 DEF EventHolds
    <3> QED BY <1>2, <2>1, <2>2, <2>6, <3>1
  <2>7. ASSUME Looked(p), req'[p].hash # stored', latest' # 0, reports'[latest'].fp = stored'
        PROVE  req'[p].late \/ req'[p].event = latest'
    BY <1>2, <2>2, <2>5, <2>7 DEF EventHolds
  <2> QED BY <1>2, <2>2, <2>3, <2>4, <2>6, <2>7 DEF EventHolds
<1> QED BY <1>1, <1>2

\* A request that has computed nothing has nothing to say.
LEMMA EventBegins ==
  ASSUME NEW q, req'[q] = Done \/ (req'[q].event = 0 /\ req'[q].pc \notin {"hashed", "looked"})
  PROVE  EventHolds(q)'
BY DEF EventHolds, Hashed, Looked, Done

\* The steps of a request that neither compute nor look for the report.
LEMMA RequestEvents ==
  ASSUME Inv, NEW q \in Requests, EventHolds(q), Request(q), ~Recompute(q), ~ReadLatest(q)
  PROVE  EventHolds(q)'
<1>1. Types /\ req \in [Requests -> Reading \cup {Done}]
  BY DEF Inv, Types
<1>2. ASSUME NEW x, Set(q, x), x = Done \/ (x.event = 0 /\ x.pc \notin {"hashed", "looked"}) PROVE EventHolds(q)'
  <2>1. req'[q] = x
    BY <1>1, <1>2 DEF Set
  <2> QED BY <1>2, <2>1, EventBegins
<1>3. ASSUME NEW i \in Items, NEW r \in Roots, NEW v \in 1 .. MaxHead, AttachOpen(q, i, r, v) PROVE EventHolds(q)'
  BY <1>2, <1>3 DEF AttachOpen
<1>4. ASSUME NEW i \in Items, PatchOpen(q, i) PROVE EventHolds(q)'
  BY <1>2, <1>4 DEF PatchOpen
<1>5. ASSUME NEW r \in Roots, DeleteOpen(q, r) PROVE EventHolds(q)'
  BY <1>2, <1>5 DEF DeleteOpen
<1>6. ASSUME req[q].op = "patch", req[q].pc \in {"seen", "locked"} PROVE req[q] \in Reading /\ req[q].event = 0
  BY <1>1, <1>6, Columns DEF EventHolds, Looked, Done
<1>7. ASSUME NEW intent \in Intents, req[q].op = "patch", PatchLock(q, intent) PROVE EventHolds(q)'
  <2> DEFINE pc == IF intent.kind = "pin" THEN "locked" ELSE "ready"
             x == [req[q] EXCEPT !.pc = pc, !.intent = intent]
  <2>1. req[q].pc = "seen" /\ (Set(q, x) \/ Set(q, Done))
    BY <1>7 DEF PatchLock, Is
  <2>2. req[q] \in Reading /\ req[q].event = 0 /\ pc \notin {"hashed", "looked"}
    BY <1>6, <1>7, <2>1
  <2> HIDE DEF pc
  <2>3. x.event = 0 /\ x.pc = pc
    BY <1>7, <2>2 DEF Reading
  <2> QED BY <1>2, <2>1, <2>2, <2>3
<1>8. ASSUME PinRoot(q) PROVE EventHolds(q)'
  <2> DEFINE x == [req[q] EXCEPT !.pc = "ready"]
  <2>1. req[q].op = "patch" /\ req[q].pc = "locked" /\ (Set(q, x) \/ Set(q, Done))
    BY <1>8 DEF PinRoot, Is
  <2>2. req[q] \in Reading /\ req[q].event = 0
    BY <1>6, <2>1
  <2>3. x.event = 0 /\ x.pc = "ready"
    BY <2>1, <2>2 DEF Reading
  <2> QED BY <1>2, <2>1, <2>3
<1>9. ASSUME LabelCommit(q) \/ AttachCommit(q) \/ PatchCommit(q) \/ DeleteCommit(q) PROVE EventHolds(q)'
  BY <1>2, <1>9 DEF LabelCommit, AttachCommit, PatchCommit, DeleteCommit
<1> QED BY <1>3, <1>4, <1>5, <1>7, <1>8, <1>9 DEF Request

\* A fingerprint is computed: it is what is stored, or no report has been looked for.
LEMMA RecomputeEvents ==
  ASSUME Inv, NEW q \in Requests, EventHolds(q), Recompute(q)
  PROVE  EventHolds(q)'
<1> DEFINE pc == IF SeenBy(q) = stored THEN "looked" ELSE "hashed"
           x == [req[q] EXCEPT !.pc = pc, !.hash = SeenBy(q)]
<1>1. Types /\ Recomputes(q) /\ Set(q, x) /\ stored' = stored
  BY DEF Inv, Recompute
<1>2. req[q] \in Reading /\ req[q].op \in {"attach", "patch", "delete"} /\ req[q].event = 0
  <2>1. req[q].op \in {"attach", "patch", "delete"} /\ ~Looked(q)
    BY <1>1 DEF Recomputes, Is, Looked
  <2> QED BY <1>1, <2>1, Columns DEF EventHolds, Done
<1>3. x.event = 0 /\ x.pc = pc /\ x.hash = SeenBy(q) /\ x.op = req[q].op
  <2> DEFINE fp == SeenBy(q)
  <2> HIDE DEF pc, fp
  <2> QED BY <1>2 DEF Reading, fp
<1>4. req'[q] = x
  BY <1>1 DEF Types, Set
<1> HIDE DEF x
<1>5. req'[q].event = 0 /\ req'[q].pc = pc /\ req'[q].hash = SeenBy(q) /\ req'[q].op = req[q].op
  BY <1>3, <1>4
<1>6. CASE SeenBy(q) = stored
  BY <1>1, <1>5, <1>6 DEF EventHolds, Looked, Hashed
<1>7. CASE SeenBy(q) # stored
  BY <1>1, <1>5, <1>7 DEF EventHolds, Looked, Hashed
<1> QED BY <1>6, <1>7

\* The latest report is looked up: it is named if it is about what is stored.
LEMMA ReadLatestEvents ==
  ASSUME Inv, NEW q \in Requests, EventHolds(q), ReadLatest(q)
  PROVE  EventHolds(q)'
<1> DEFINE x == [req[q] EXCEPT !.pc = "looked", !.event = Named]
<1>1. /\ Types /\ Hashed(q) /\ ~Looked(q) /\ Set(q, x) /\ req[q].hash # stored
      /\ stored' = stored /\ reports' = reports /\ latest' = latest
  BY DEF Inv, ReadLatest, evidence, EventHolds
<1>2. req[q] \in Reading
  BY <1>1, Columns DEF Hashed, Done
<1>3. x.event = Named /\ x.hash = req[q].hash /\ x.op = req[q].op
  BY <1>1, <1>2 DEF Reading, Hashed
<1>4. req'[q] = x /\ req'[q].pc = "looked"
  <2>1. req'[q] = x
    BY <1>1 DEF Types, Set
  <2>2. x.pc = "looked"
    BY <1>1, <1>2 DEF Reading, Hashed
  <2> QED BY <2>1, <2>2
<1> HIDE DEF x
<1>5. latest # 0 => latest \in 1 .. Len(reports)
  BY <1>1 DEF Types
<1>6. req'[q].event = Named /\ req'[q].hash = req[q].hash /\ stored' = stored /\ latest' = latest /\ reports' = reports
  BY <1>1, <1>3, <1>4
<1>7. ASSUME Named # 0 PROVE Named \in 1 .. Len(reports) /\ reports[Named].fp = stored
  BY <1>5, <1>7 DEF Named
<1>8. ASSUME latest # 0, reports[latest].fp = stored PROVE Named = latest
  BY <1>8 DEF Named
<1>9. Looked(q)'
  BY <1>1, <1>3, <1>4 DEF Looked, Hashed
<1> QED BY <1>1, <1>5, <1>6, <1>7, <1>8, <1>9 DEF EventHolds

\* While a request holds the workspace, nobody stores another fingerprint.
LEMMA StoredByHolder ==
  ASSUME Inv, NEW q \in Requests, Request(q), NEW p \in Requests, p # q
  PROVE  /\ req'[p] = req[p] /\ reports' = reports /\ latest' = latest
         /\ Hashed(p) => stored' = stored
<1>1. req \in [Requests -> Reading \cup {Done}]
  BY DEF Inv, Types
<1>2. \E x : Set(q, x)
  BY DEF Request, AttachOpen, PatchOpen, PatchLock, PinRoot, LabelCommit, DeleteOpen, Recompute, ReadLatest,
         AttachCommit, PatchCommit, DeleteCommit
<1>3. req'[p] = req[p]
  BY <1>1, <1>2 DEF Set
<1>4. reports' = reports /\ latest' = latest
  BY DEF Request, AttachOpen, PatchOpen, PatchLock, PinRoot, LabelCommit, DeleteOpen, Recompute, ReadLatest,
         AttachCommit, PatchCommit, DeleteCommit, evidence
<1>5. CASE AttachCommit(q) \/ PatchCommit(q) \/ DeleteCommit(q)
  <2>1. Hashed(q)
    BY <1>5 DEF AttachCommit, PatchCommit, DeleteCommit, Is, Hashed
  <2>2. wsLock = q /\ ~Hashed(p)
    BY <2>1 DEF Inv, RequestHolds, HashHolds
  <2> QED BY <1>3, <1>4, <2>2
<1>6. CASE ~(AttachCommit(q) \/ PatchCommit(q) \/ DeleteCommit(q))
  <2>1. stored' = stored
    BY <1>6 DEF Request, AttachOpen, PatchOpen, PatchLock, PinRoot, LabelCommit, DeleteOpen, Recompute, ReadLatest
  <2> QED BY <1>3, <1>4, <2>1
<1> QED BY <1>5, <1>6

\* A report that is committed is named by no change that has looked before, and marks it.
LEMMA CheckEvents ==
  ASSUME Inv, Inv', NEW n \in 1 .. Len(reports), CheckCommit(n), NEW p \in Requests, EventHolds(p)
  PROVE  EventHolds(p)'
<1>1. /\ Types /\ stored' = stored /\ reports' = [reports EXCEPT ![n].stored = TRUE] /\ reports \in Seq(Report)
  BY DEF Inv, Types, CheckCommit
<1>2. Len(reports') = Len(reports) /\ \A k \in 1 .. Len(reports) : reports'[k].fp = reports[k].fp
  BY <1>1 DEF Report
<1>3. CASE req[p] = Done
  BY <1>1, <1>3, Marked, EventBegins
<1>4. CASE req[p] # Done
  <2>1. /\ req'[p].op = req[p].op /\ req'[p].pc = req[p].pc /\ req'[p].event = req[p].event
        /\ req'[p].hash = req[p].hash /\ req'[p].late = (req[p].late \/ (Looked(p) /\ latest' # latest))
        /\ req'[p] # Done
    BY <1>1, <1>4, Columns, Marked
  <2>2. CASE latest' = latest
    <3>1. req[p].late \in BOOLEAN
      BY <1>1, <1>4, Columns
    <3>2. req'[p].late = req[p].late
      BY <2>1, <2>2, <3>1
    <3>3. Len(reports) <= Len(reports') /\ Types'
      BY <1>1, <1>2 DEF Inv
    <3> QED BY <1>1, <1>2, <1>4, <2>1, <2>2, <3>2, <3>3, EventStays
  <2>3. CASE latest' # latest
    <3>1. Looked(p)' = Looked(p) /\ Hashed(p)' = Hashed(p)
      BY <2>1 DEF Looked, Hashed
    <3>2. Looked(p) => req'[p].late
      BY <2>1, <2>3
    <3>3. ASSUME Looked(p), req[p].event # 0
          PROVE  req'[p].event \in 1 .. Len(reports') /\ reports'[req'[p].event].fp = stored' /\ req'[p].hash # stored'
      BY <1>1, <1>2, <2>1, <3>3 DEF EventHolds
    <3> QED BY <1>1, <1>4, <2>1, <3>1, <3>2, <3>3 DEF EventHolds
  <2> QED BY <2>2, <2>3
<1> QED BY <1>3, <1>4

\* Every step keeps what is said of reports.
LEMMA EventsStay ==
  ASSUME Inv, Inv', EventsHold, [Next]_vars
  PROVE  EventsHold'
<1> SUFFICES ASSUME NEW p \in Requests PROVE EventHolds(p)'
  BY DEF EventsHold
<1>1. EventHolds(p) /\ Types /\ Types' /\ Len(reports) \in Nat
  BY DEF EventsHold, Inv, Types
<1>2. ASSUME req' = req, stored' = stored, reports' = reports, latest' = latest PROVE EventHolds(p)'
  <2>1. Len(reports) <= Len(reports')
    BY <1>1, <1>2
  <2> QED BY <1>1, <1>2, <2>1, EventStays
<1>3. CASE UNCHANGED vars
  BY <1>2, <1>3 DEF vars, evidence
<1>4. ASSUME NEW r \in Roots, AppendRevision(r) PROVE EventHolds(p)'
  BY <1>2, <1>4 DEF AppendRevision, evidence
<1>5. ASSUME NEW r \in Roots, DeleteOrRestoreElsewhere(r) PROVE EventHolds(p)'
  <2>1. /\ stored' = stored /\ reports' = reports /\ latest' = latest
        /\ req'[p] = IF Hashed(p) THEN [req[p] EXCEPT !.after = @ \cup {r}] ELSE req[p]
    BY <1>5 DEF DeleteOrRestoreElsewhere, RootChanges, evidence
  <2>2. Len(reports) <= Len(reports')
    BY <1>1, <2>1
  <2>3. CASE ~Hashed(p)
    BY <1>1, <2>1, <2>2, <2>3, EventStays
  <2>4. CASE Hashed(p)
    <3>1. req[p] \in Reading /\ req'[p] = [req[p] EXCEPT !.after = @ \cup {r}]
      BY <1>1, <2>1, <2>4, Columns DEF Hashed, Done
    <3>2. /\ req'[p].op = req[p].op /\ req'[p].pc = req[p].pc /\ req'[p].event = req[p].event
          /\ req'[p].hash = req[p].hash /\ req'[p].late = req[p].late
      <4>1. CASE req[p].op = "attach"
        BY <3>1, <4>1 DEF Reading
      <4>2. CASE req[p].op = "patch"
        BY <3>1, <4>2 DEF Reading
      <4>3. CASE req[p].op = "delete"
        BY <3>1, <4>3 DEF Reading
      <4> QED BY <2>4, <4>1, <4>2, <4>3 DEF Hashed
    <3>3. req[p] # Done
      BY <2>4 DEF Hashed, Done
    <3> QED BY <1>1, <2>1, <2>2, <3>2, <3>3, EventStays
  <2> QED BY <2>3, <2>4
<1>6. CASE CheckRead
  <2>1. /\ req' = req /\ stored' = stored /\ latest' = latest
        /\ reports' = Append(reports, [fp |-> Live, stored |-> FALSE])
    BY <1>6 DEF CheckRead
  <2>2. /\ Len(reports) <= Len(reports') /\ \A n \in 1 .. Len(reports) : reports'[n].fp = reports[n].fp
    <3>1. reports \in Seq(Report)
      BY <1>1 DEF Types
    <3> DEFINE new == [fp |-> Live, stored |-> FALSE]
    <3>2. reports' = Append(reports, new)
      BY <2>1
    <3> HIDE DEF new
    <3> QED BY <3>1, <3>2
  <2> QED BY <1>1, <2>1, <2>2, EventStays
<1>7. ASSUME NEW n \in 1 .. Len(reports), CheckCommit(n) PROVE EventHolds(p)'
  BY <1>1, <1>7, CheckEvents
<1>8. ASSUME NEW q \in Requests, Request(q) PROVE EventHolds(p)'
  <2>1. CASE p = q
    BY <1>1, <1>8, <2>1, RequestEvents, RecomputeEvents, ReadLatestEvents
  <2>2. CASE p # q
    <3>1. /\ req'[p] = req[p] /\ reports' = reports /\ latest' = latest
          /\ Hashed(p) => stored' = stored
      BY <1>8, <2>2, StoredByHolder
    <3>2. Len(reports) <= Len(reports')
      BY <1>1, <3>1
    <3> QED BY <1>1, <3>1, <3>2, EventStays
  <2> QED BY <2>1, <2>2
<1> QED BY <1>3, <1>4, <1>5, <1>6, <1>7, <1>8 DEF Next

-----------------------------------------------------------------------------
(* The invariant holds *)

\* Whatever requests, checks and deletions interleave.
LEMMA Invariant == Spec => [](Inv /\ EventsHold)
<1>1. Init => Inv /\ EventsHold
  <2> SUFFICES ASSUME Init PROVE Inv /\ EventsHold
    OBVIOUS
  <2>1. Nothing \in Fingerprints
    BY NothingType
  <2>2. /\ root = [r \in Roots |-> "active"] /\ head = [r \in Roots |-> 1] /\ changes = 0
        /\ item = [i \in Items |-> NoItem] /\ stored = Nothing /\ reports = <<>> /\ latest = 0
        /\ itemLock = [i \in Items |-> None] /\ rootLock = [r \in Roots |-> None] /\ wsLock = None
        /\ req = [q \in Requests |-> Done] /\ missed = {}
    BY DEF Init
  <2>3. MaxHead \in Nat \ {0} /\ MaxChanges \in Nat /\ 1 \in 1 .. MaxHead /\ 0 \in 0 .. MaxChanges
    BY MainboardBoundsAssumption
  <2>4. \A i \in Items : item[i] = NoItem /\ ~Attached(i)
    BY <2>2 DEF Attached, NoItem
  <2>5. Types
    BY <2>1, <2>2, <2>3, <2>4 DEF Types
  <2>6. \A q \in Requests : req[q] = Done /\ req[q].op = "none"
    BY <2>2 DEF Done
  <2>7. (\A q \in Requests : RequestHolds(q)) /\ AttachedAlone /\ EventsHold
    BY <2>6 DEF RequestHolds, Hashed, AttachedAlone, EventsHold, EventHolds, Looked
  <2>8. \A m \in Members : Showing(item, m) = {}
    BY <2>4 DEF Showing, Attached
  <2>9. \A m \in Members : Shown(item, m) = 0
    BY <2>8, FS_EmptySet DEF Shown
  <2>10. StoredIsThere /\ Accounts
    BY <2>2, <2>9 DEF StoredIsThere, Accounts, PrintOf, Nothing
  <2> QED BY <2>5, <2>7, <2>10 DEF Inv
<1>2. Inv /\ [Next]_vars => Inv'
  <2> SUFFICES ASSUME Inv, [Next]_vars PROVE Inv'
    OBVIOUS
  <2>1. CASE UNCHANGED vars
    BY <2>1, StutterStep
  <2>2. ASSUME NEW r \in Roots, AppendRevision(r) \/ DeleteOrRestoreElsewhere(r) PROVE Inv'
    BY <2>2, AppendStep, ElsewhereStep
  <2>3. CASE CheckRead
    BY <2>3, CheckReadStep
  <2>4. ASSUME NEW n \in 1 .. Len(reports), CheckCommit(n) PROVE Inv'
    BY <2>4, CheckCommitStep
  <2>5. ASSUME NEW q \in Requests, Request(q) PROVE Inv'
    BY <2>5, OpenStep, LockStep, LabelStep, RecomputeStep, ReadLatestStep, AttachStep, PatchStep, DeleteStep
    DEF Request
  <2> QED BY <2>1, <2>2, <2>3, <2>4, <2>5 DEF Next
<1>3. Inv /\ Inv' /\ EventsHold /\ [Next]_vars => EventsHold'
  BY EventsStay
<1> QED BY <1>1, <1>2, <1>3, PTL DEF Spec

\* The cached fingerprint accounts for every change of the mainboard but the attachments
\* and the deletions elsewhere since the last recompute, whatever requests interleave
\* (_recompute_composition_hash), and every variable keeps its type.
THEOREM NoUpdateIsLost == Spec => []FingerprintIsKept
<1>1. Inv /\ EventsHold => FingerprintIsKept
  <2> SUFFICES ASSUME Inv, EventsHold PROVE FingerprintIsKept
    OBVIOUS
  <2>1. Types
    BY DEF Inv
  <2>2. FingerprintAccountsForChanges
    BY <2>1, LiveIs DEF Inv, Accounts, FingerprintAccountsForChanges
  <2>3. ASSUME NEW q \in Requests, ~Idle(q)
        PROVE  req[q].pc \in Pcs /\ req[q].hash \in Fingerprints /\ req[q].event \in 0 .. Len(reports)
    <3>1. req[q].op # "none" /\ Len(reports) \in Nat
      BY <2>1, <2>3, Columns DEF Idle, Types
    <3>2. req[q].pc \in Pcs /\ req[q].hash \in Fingerprints
      BY <2>1, <3>1, Columns DEF Pcs
    <3>3. req[q].event = 0 \/ req[q].event \in 1 .. Len(reports)
      BY <2>3 DEF EventsHold, EventHolds, Idle
    <3> QED BY <3>1, <3>2, <3>3
  <2>4. TypeOK
    BY <2>1, <2>3 DEF Types, TypeOK, Item, Report
  <2> QED BY <2>2, <2>4 DEF FingerprintIsKept
<1> QED BY <1>1, Invariant, PTL

-----------------------------------------------------------------------------
(* What steps do *)

\* What a step does to the rows of the mainboard.
LEMMA RowStep ==
  ASSUME Inv, [Next]_vars, NEW i \in Items, Attached(i), item'[i] # item[i]
  PROVE  \E q \in Requests :
           /\ req[q].op = "patch" /\ req[q].item = i /\ req[q].version = item[i].version
           /\ item'[i].pin # item[i].pin => root[item[i].root] = "active"
<1>1. item \in [Items -> {NoItem} \cup Item]
  BY DEF Inv, Types
<1>2. ASSUME NEW q \in Requests, LabelCommit(q) \/ PatchCommit(q)
      PROVE  /\ req[q].op = "patch" /\ req[q].item = i /\ req[q].version = item[i].version
             /\ item'[i].pin # item[i].pin => root[item[i].root] = "active"
  <2>1. req[q].op = "patch" /\ req[q].pc \in {"ready", "looked"} /\ item' = [item EXCEPT ![req[q].item] = Patched(q)]
    BY <1>2 DEF LabelCommit, PatchCommit, Is
  <2>2. req[q].item = i
    BY <1>1, <2>1
  <2>3. item'[i] = Patched(q)
    BY <1>1, <2>1, <2>2
  <2>4. /\ item[i].version = req[q].version
        /\ Patched(q).pin = IF req[q].intent.kind = "pin" THEN req[q].intent.rev ELSE item[i].pin
        /\ req[q].intent.kind = "pin" => root[item[i].root] = "active"
    BY <2>1, <2>2, PatchHolds
  <2> QED BY <2>1, <2>2, <2>3, <2>4
<1>3. ASSUME NEW q \in Requests PROVE ~AttachCommit(q)
  <2> SUFFICES ASSUME AttachCommit(q) PROVE FALSE
    OBVIOUS
  <2>1. req[q].op = "attach" /\ \E n : item' = [item EXCEPT ![req[q].item] = n]
    BY DEF AttachCommit, Is
  <2>2. req[q].item = i
    BY <1>1, <2>1
  <2> QED BY <2>1, <2>2 DEF Inv, RequestHolds, AttachMay
<1>4. ASSUME NEW q \in Requests, Request(q) PROVE LabelCommit(q) \/ PatchCommit(q)
  BY <1>3, <1>4 DEF Request, AttachOpen, PatchOpen, PatchLock, PinRoot, DeleteOpen, Recompute, ReadLatest, DeleteCommit
<1>5. \E q \in Requests : Request(q)
  BY DEF Next, vars, AppendRevision, DeleteOrRestoreElsewhere, CheckRead, CheckCommit
<1> QED BY <1>2, <1>4, <1>5

\* reorder and set_label change nothing that a fingerprint shows.
LEMMA LabelShowsAlike ==
  ASSUME Inv, NEW q \in Requests, LabelCommit(q)
  PROVE  PrintOf(item', root') = PrintOf(item, root)
<1> DEFINE i == req[q].item
<1>1. /\ req[q].op = "patch" /\ req[q].pc = "ready" /\ req[q].intent.kind = "label"
      /\ item' = [item EXCEPT ![i] = Patched(q)] /\ root' = root
  BY DEF LabelCommit, Is, objects
<1>2. /\ i \in Items /\ Attached(i) /\ Patched(q).root = item[i].root /\ Patched(q).attached = TRUE
      /\ Patched(q).pin = item[i].pin /\ Patched(q).enabled = item[i].enabled
  BY <1>1, PatchHolds
<1>3. item \in [Items -> {NoItem} \cup Item]
  BY DEF Inv, Types
<1>4. item'[i] = Patched(q) /\ \A j \in Items \ {i} : item'[j] = item[j]
  BY <1>1, <1>2, <1>3
<1>5. Attached(i) = TRUE /\ item[i].attached = TRUE
  <2>1. item[i] \in {NoItem} \cup Item
    BY <1>2, <1>3
  <2> QED BY <1>2, <2>1 DEF Attached, Item, NoItem
<1>6. Alike(item', item)
  BY <1>2, <1>4, <1>5 DEF Alike
<1> QED BY <1>1, <1>6, AlikeShowAlike

\* Only a commit ends a request that has looked for the latest report.
LEMMA CommitIs ==
  ASSUME Inv, [Next]_vars, NEW q \in Requests, Commits(q)
  PROVE  AttachCommit(q) \/ PatchCommit(q) \/ DeleteCommit(q)
<1>1. Looked(q) /\ req'[q] = Done /\ req[q] # Done /\ req[q].pc = "looked" /\ Hashed(q)
  BY DEF Commits, Looked, Hashed, Done
<1>2. req \in [Requests -> Reading \cup {Done}] /\ Types
  BY DEF Inv, Types
<1>3. ~UNCHANGED vars /\ ~CheckRead /\ \A r \in Roots : ~AppendRevision(r)
  BY <1>1 DEF vars, CheckRead, AppendRevision
<1>4. ASSUME NEW r \in Roots PROVE ~DeleteOrRestoreElsewhere(r)
  <2> SUFFICES ASSUME DeleteOrRestoreElsewhere(r) PROVE FALSE
    OBVIOUS
  <2>1. req'[q] = [req[q] EXCEPT !.after = @ \cup {r}]
    BY <1>1 DEF DeleteOrRestoreElsewhere, RootChanges
  <2>2. req[q] \in Reading
    BY <1>1, <1>2
  <2>3. req'[q].op = req[q].op
    <3>1. CASE req[q].op = "attach"
      BY <2>1, <2>2, <3>1 DEF Reading
    <3>2. CASE req[q].op = "patch"
      BY <2>1, <2>2, <3>2 DEF Reading
    <3>3. CASE req[q].op = "delete"
      BY <2>1, <2>2, <3>3 DEF Reading
    <3> QED BY <1>1, <3>1, <3>2, <3>3 DEF Looked
  <2> QED BY <1>1, <2>3 DEF Looked, Done
<1>5. ASSUME NEW n PROVE ~CheckCommit(n)
  BY <1>1, <1>2, Marked
<1>6. PICK p \in Requests : Request(p)
  BY <1>3, <1>4, <1>5 DEF Next
<1>7. p = q
  BY <1>1, <1>6, StoredByHolder
<1> QED BY <1>1, <1>6, <1>7
    DEF Request, AttachOpen, PatchOpen, PatchLock, PinRoot, LabelCommit, DeleteOpen, Recompute, Recomputes, ReadLatest, Is

\* An attach that is announced changes what is live: its item counts, or would not.
LEMMA AttachAnnounces ==
  ASSUME Inv, NEW q \in Requests, AttachCommit(q), req[q].hash # stored, req[q].after = {}
  PROVE  PrintOf(item', root') # stored
<1> DEFINE i == req[q].item
           own == <<req[q].root, req[q].pin>>
           new == [attached |-> TRUE, root |-> req[q].root, pin |-> req[q].pin, enabled |-> TRUE, version |-> 1]
<1>1. /\ req[q].op = "attach" /\ req[q].pc = "looked" /\ Hashed(q)
      /\ item' = [item EXCEPT ![i] = new] /\ root' = root
  BY DEF AttachCommit, Is, Hashed, objects
<1>2. Types /\ item \in [Items -> {NoItem} \cup Item]
  BY DEF Inv, Types
<1>3. i \in Items /\ own \in Members /\ ~Attached(i) /\ HashHolds(q)
  BY <1>1, <1>2, Columns DEF Inv, RequestHolds, AttachMay, Members
<1>4. item'[i] = new /\ \A j \in Items \ {i} : item'[j] = item[j]
  BY <1>1, <1>2, <1>3
<1>5. req[q].hash = PrintOf(item, root)
  BY <1>1, <1>3 DEF HashHolds, ItemsAfter, RootsAfter
<1>6. \A m \in Members : Showing(item', m) = IF m = own THEN Showing(item, m) \cup {i} ELSE Showing(item, m)
  BY <1>3, <1>4 DEF Showing, Attached
<1>7. i \notin Showing(item, own) /\ Showing(item, own) \in SUBSET Items
  BY <1>3 DEF Showing, Attached
<1>8. Shown(item', own) = Shown(item, own) + 1
  <2>1. IsFiniteSet(Showing(item, own))
    BY <1>7, CountType
  <2>2. Cardinality(Showing(item, own) \cup {i}) = Cardinality(Showing(item, own)) + 1
    BY <1>7, <2>1, FS_AddElement
  <2> QED BY <1>3, <1>6, <2>2 DEF Shown
<1>9. CASE root[own[1]] = "active"
  <2>1. PrintOf(item', root')[own] = Shown(item, own) + 1
    BY <1>1, <1>3, <1>8, <1>9 DEF PrintOf
  <2>2. stored[own] <= Shown(item, own) /\ Shown(item, own) \in 0 .. Cardinality(Items)
    BY <1>3, PrintType DEF Inv, StoredIsThere
  <2>3. stored[own] \in Int
    BY <1>2, <1>3 DEF Types, Fingerprints
  <2> QED BY <2>1, <2>2, <2>3
<1>10. CASE root[own[1]] # "active"
  <2>1. \A m \in Members : PrintOf(item', root')[m] = PrintOf(item, root)[m]
    BY <1>1, <1>6, <1>10 DEF PrintOf, Shown
  <2>2. PrintOf(item', root') = PrintOf(item, root)
    BY <2>1 DEF PrintOf
  <2> QED BY <1>5, <2>2
<1> QED BY <1>9, <1>10

\* A commit stores what it has computed; unless a root has changed elsewhere, that is what
\* it leaves live, but for the item an attach adds.
LEMMA CommitLeaves ==
  ASSUME Inv, NEW q \in Requests, AttachCommit(q) \/ PatchCommit(q) \/ DeleteCommit(q), missed' \cap Roots = {}
  PROVE  /\ Looked(q) /\ Commits(q) /\ req[q].after = {}
         /\ AttachCommit(q) => missed' # {}
         /\ ~AttachCommit(q) => req[q].hash = PrintOf(item', root')
<1>1. StoreHash(q) /\ Hashed(q) /\ Looked(q) /\ Set(q, Done)
  BY DEF AttachCommit, PatchCommit, DeleteCommit, Is, Hashed, Looked
<1>2. Commits(q)
  BY <1>1 DEF Commits, Set, Inv, Types
<1>3. req[q].after = {}
  <2>1. req[q].after \subseteq Roots
    BY <1>1, Columns DEF Inv, Hashed
  <2>2. req[q].after \subseteq missed'
    BY <1>1 DEF StoreHash
  <2> QED BY <2>1, <2>2
<1>4. AttachCommit(q) => missed' # {}
  BY <1>1 DEF AttachCommit, Is, StoreHash
<1>5. ASSUME ~AttachCommit(q) PROVE req[q].hash = PrintOf(item', root')
  <2>1. ItemsAfter(q) = item' /\ RootsAfter(q) = root'
    BY <1>5 DEF PatchCommit, DeleteCommit, Is, ItemsAfter, RootsAfter, objects
  <2>2. HashHolds(q)
    BY <1>1 DEF Inv, RequestHolds
  <2> QED BY <1>3, <2>1, <2>2 DEF HashHolds
<1> QED BY <1>1, <1>2, <1>3, <1>4, <1>5

\* An event names a report that is no longer about what is live.
LEMMA AnnounceStep ==
  ASSUME Inv, EventsHold, [Next]_vars, NEW q \in Requests, Commits(q), req[q].event # 0, missed' \cap Roots = {}
  PROVE  reports[req[q].event].fp # PrintOf(item', root')
<1>1. AttachCommit(q) \/ PatchCommit(q) \/ DeleteCommit(q)
  BY CommitIs
<1>2. reports[req[q].event].fp = stored /\ req[q].hash # stored
  BY DEF Commits, EventsHold, EventHolds
<1>3. req[q].after = {} /\ (~AttachCommit(q) => req[q].hash = PrintOf(item', root'))
  BY <1>1, CommitLeaves
<1> QED BY <1>2, <1>3, AttachAnnounces

\* A change that makes the latest report stale names it, or has looked before it came.
LEMMA SilenceStep ==
  ASSUME Inv, EventsHold, [Next]_vars, latest # 0, reports[latest].fp = PrintOf(item, root),
         PrintOf(item', root') # PrintOf(item, root), missed = {}, missed' = {}
  PROVE  \E q \in Requests : Commits(q) /\ (req[q].event = latest \/ req[q].late)
<1>1. stored = PrintOf(item, root)
  BY DEF Inv, Accounts
<1>2. ~(item' = item /\ root' = root)
  OBVIOUS
<1>3. ~UNCHANGED vars /\ ~CheckRead /\ (\A n : ~CheckCommit(n)) /\ \A r \in Roots : ~AppendRevision(r)
  BY <1>2 DEF vars, objects, CheckRead, CheckCommit, AppendRevision
<1>4. \A r \in Roots : ~DeleteOrRestoreElsewhere(r)
  BY DEF DeleteOrRestoreElsewhere
<1>5. PICK q \in Requests : Request(q)
  BY <1>3, <1>4 DEF Next
<1>6. ~LabelCommit(q)
  BY LabelShowsAlike
<1>7. AttachCommit(q) \/ PatchCommit(q) \/ DeleteCommit(q)
  BY <1>2, <1>5, <1>6
  DEF Request, AttachOpen, PatchOpen, PatchLock, PinRoot, DeleteOpen, Recompute, ReadLatest, objects
<1>8. Looked(q) /\ Commits(q) /\ req[q].hash = PrintOf(item', root')
  BY <1>7, CommitLeaves
<1>9. req[q].late \/ req[q].event = latest
  BY <1>1, <1>8 DEF EventsHold, EventHolds
<1> QED BY <1>8, <1>9

\* Requests that change items, pins and reports never act on what another has replaced: a
\* pin is committed only while its root is active (_apply_pin), a patch only on the row its
\* client has seen (patch_mainboard_item), and readiness.became_stale names a report that
\* is no longer about what is live, and the one that just went stale, but for those that
\* were stored after the change had looked (_emit_readiness_became_stale).
THEOREM NobodyIsOverwritten == Spec => NothingIsOverwritten
<1> DEFINE Pins == \A i \in Items : Attached(i) /\ item'[i].pin # item[i].pin => root[item[i].root] = "active"
           Patches == \A i \in Items : Attached(i) /\ item'[i] # item[i]
             => \E q \in Requests : req[q].op = "patch" /\ req[q].item = i /\ req[q].version = item[i].version
           Stale == \A q \in Requests : Commits(q) /\ req[q].event # 0
             => reports[req[q].event].fp # Live' \/ missed' \cap Roots # {}
           Told == latest # 0 /\ reports[latest].fp = Live /\ Live' # Live /\ missed = {} /\ missed' = {}
             => \E q \in Requests : Commits(q) /\ (req[q].event = latest \/ req[q].late)
<1>1. Inv /\ [Next]_vars => [Pins]_vars
  <2> SUFFICES ASSUME Inv, [Next]_vars, NEW i \in Items, Attached(i), item'[i].pin # item[i].pin
               PROVE  root[item[i].root] = "active"
    OBVIOUS
  <2> QED BY RowStep
<1>2. Inv /\ [Next]_vars => [Patches]_vars
  BY RowStep
<1>3. Inv' => Live' = PrintOf(item', root')
  <2>1. Inv => (Live = PrintOf(item, root))
    BY LiveIs DEF Inv
  <2>2. Inv' => (Live = PrintOf(item, root))'
    BY <2>1, PTL
  <2> QED BY <2>2
<1>4. Inv /\ Inv' /\ EventsHold /\ [Next]_vars => [Stale]_vars
  BY <1>3, AnnounceStep
<1>5. Inv /\ Inv' /\ EventsHold /\ [Next]_vars => [Told]_vars
  <2>1. Inv => Live = PrintOf(item, root)
    BY LiveIs DEF Inv
  <2> QED BY <1>3, <2>1, SilenceStep
<1>6. Spec => [][Pins]_vars
  BY <1>1, Invariant, PTL DEF Spec
<1>7. Spec => [][Patches]_vars
  BY <1>2, Invariant, PTL DEF Spec
<1>8. Spec => [][Stale]_vars
  BY <1>4, Invariant, PTL DEF Spec
<1>9. Spec => [][Told]_vars
  BY <1>5, Invariant, PTL DEF Spec
<1> QED BY <1>6, <1>7, <1>8, <1>9
    DEF NothingIsOverwritten, PinsOnlyActiveRoots, NoLostPatch, AnnouncedIsStale, StaleIsAnnounced
=============================================================================
