--------------------------- MODULE PortfolioReplay ---------------------------
(***************************************************************************)
(* The shared-capital replay of several strategies: iter_portfolio of       *)
(* domain/backtest/portfolio_engine, which walks the merged axis of the     *)
(* items' bars and takes every instant through the ordered phases           *)
(*                                                                         *)
(*   P1 carry   P3 mandatory exits   PV publish E(t), ledger frozen         *)
(*   P4 intents   P5 conflicts   P6b capacity   P7 apply   P9 commit        *)
(*                                                                         *)
(* and P10, once, when the data has ended.  Inside a phase the items are    *)
(* asked one at a time in their pinned order, so a step is one item's turn  *)
(* in one phase.  Money is booked twice: in the ledger of the pool and in   *)
(* the ledger each item's stepper keeps; the participant adapter mirrors    *)
(* the one into the other.                                                  *)
(*                                                                         *)
(* What the items' own replay decides is chosen freely: the funding due,    *)
(* the exits and what they realize, the entries, their direction and size.  *)
(* Money, prices and sizes are integers, a direction is 1 or -1; a quantum  *)
(* of size is 1, and rounding to it is half-even as in the code.  A share   *)
(* is a number of parts of Whole.                                           *)
(***************************************************************************)
EXTENDS Integers, Sequences, FiniteSets, FiniteSetsExt, Functions

CONSTANTS N,          \* items, named by their pin ordinal
          Streams,    \* Streams[i]: the instants at which item i has a bar
          Instrument, \* Instrument[i], or Unknown
          Unknown,
          Price,      \* Price[i]: what a unit of item i's instrument costs
          Share,      \* Share[i]: parts of Whole of the allocatable pool
          Whole,
          Pool,       \* P0
          Reserve,    \* R0
          Plans,      \* [compound, block, cap]: compounding mode, conflict policy,
                      \* and Max Total Exposure, NoCap for none
          NoCap,
          Fee,        \* commission of one fill
          Fundings, Gains, Sizes, \* what a carry, an exit and an entry may amount to
          StaleAfter  \* MARK_STALE_AFTER_MS

Ordinals == 1..N
Axis == UNION {Streams[i] : i \in Ordinals}

ASSUME PlanAssumption ==
  /\ N \in Nat \ {0}
  /\ \A i \in Ordinals : Streams[i] \subseteq Nat \ {0} /\ Share[i] \in Nat /\ Price[i] \in Nat \ {0}
  /\ Pool \in Nat \ {0} /\ Reserve \in Nat /\ Fee \in Nat /\ Whole \in Nat \ {0}
  /\ Fundings \subseteq Int /\ Gains \subseteq Int /\ Sizes \subseteq Nat
  /\ NoCap \notin Nat /\ Plans \subseteq [compound : BOOLEAN, block : BOOLEAN, cap : Nat \cup {NoCap}]

VARIABLES
  pinned,    \* the pinned plan of the run
  phase,     \* where the loop is, or how it ended
  todo,      \* items whose turn in this phase is still to come
  now,       \* the instant of the tick, 0 before the first
  equity, peak,          \* E(t) and its running maximum
  bucket,                \* realized_pnl, fees and funding of the pool
  attribution,           \* the same, tagged with the item that caused them
  positions,             \* the open positions of the pool's ledger
  own,                   \* each item's stepper ledger: its net result, entries filled, position
  snap,                  \* the PortfolioSnapshot of the tick, and its valuation
  intents, decisions,    \* P4 and P5/P6b of the tick
  committed,             \* notional the admissions of this tick commit
  points,                \* the equity curve
  rows, lots             \* _walk_trades over the finished ticks: rows, and lots awaiting one

ledger == <<equity, peak, bucket, attribution, positions>>
portfolioVars == <<pinned, phase, todo, now, ledger, own, snap, intents, decisions, committed,
          points, rows, lots>>

Flat == [dir |-> 0, size |-> 0, price |-> 0]
NoIntent == [dir |-> 0, size |-> 0]
Undecided == [outcome |-> "none", units |-> 0, by |-> 0]
NoSnap == [equity |-> 0, unmarked |-> {}, stale |-> {}]
Nothing == [realized |-> 0, fees |-> 0, funding |-> 0]

Ended == {"done", "cancelled", "failed"}

Most(x, y) == IF x < y THEN y ELSE x
Least(x, y) == IF x < y THEN x ELSE y

\* Decimal.quantize with ROUND_HALF_EVEN of a / b, to a quantum of 1.
HalfEven(a, b) ==
  LET q == a \div b
      r == 2 * (a % b)
  IN  IF r < b \/ (r = b /\ q % 2 = 0) THEN q ELSE q + 1

-----------------------------------------------------------------------------
(* The capital of the pool *)

Held == {i \in Ordinals : positions[i] # Flat}
Notional(p) == p.price * p.size
GrossExposure == SumFunction([i \in Ordinals |-> Notional(positions[i])])

\* A(t) of an equity.
Allocatable(e) == Most(0, e - Reserve)

\* What the pool can still commit without borrowing.
AvailableCapital == Most(0, Allocatable(equity) - GrossExposure)

\* Ci(t) of an equity, in parts of Whole.
SleeveCapacity(i, e) ==
  (IF pinned.compound THEN Allocatable(e) ELSE Allocatable(Pool)) * Share[i]

\* The same figure as the item derives it for its own sizing.
SleeveCapital(i, e) == SleeveCapacity(i, e)

\* The sleeve that item i has left at the published valuation, in parts of Whole.
RemainingSleeve(i) ==
  Most(0, SleeveCapacity(i, snap.equity) - Whole * Notional(positions[i]))

\* One write to E(t), with the attribution that explains it.
Book(i, realized, fees, funding) ==
  /\ equity' = equity + realized - fees - funding
  /\ peak' = Most(peak, equity')
  /\ bucket' = [realized |-> bucket.realized + realized, fees |-> bucket.fees + fees,
                funding |-> bucket.funding + funding]
  /\ attribution' = [attribution EXCEPT
       ![i] = [realized |-> @.realized + realized, fees |-> @.fees + fees,
               funding |-> @.funding + funding]]

\* Mutation: only a trade moves the peak.
BookFundingBelowPeak(i, amount) ==
  /\ equity' = equity - amount /\ peak' = peak
  /\ bucket' = [bucket EXCEPT !.funding = @ + amount]
  /\ attribution' = [attribution EXCEPT ![i].funding = @ + amount]

BookFunding(i, amount) == Book(i, 0, 0, amount)
BookTrade(i, gross) == Book(i, gross, Fee, 0)
ClosePosition(i) == positions' = [positions EXCEPT ![i] = Flat]

\* Mutation: the close bills the whole round trip, as before commissions were per fill.
ItemClosesRoundTrip(i, gross) ==
  own' = [own EXCEPT ![i].net = @ + gross - 2 * Fee, ![i].pos = Flat]

\* The item books the close in its own ledger, and states to the pool what that changed.
ItemCloses(i, gross) == own' = [own EXCEPT ![i].net = @ + gross - Fee, ![i].pos = Flat]

\* The projection's walk over the ticks: a close is the row of the lot it ends, and an
\* admission opens the lot of a later row.
CloseLot(i, net) == rows' = [rows EXCEPT !.n = @ + 1, !.net = @ + net] /\ lots' = lots \ {i}
OpenLot(i) == lots' = lots \cup {i}

-----------------------------------------------------------------------------
(* The axis *)

Later == {t \in Axis : t > now}
Fresh(i) == now \in Streams[i]

\* staleness_ms of an item: the age of its last closed bar, none before its first.
LastClosed(i) == {t \in Streams[i] : t <= now}
Staleness(i) == now - Max(LastClosed(i))

\* A mark is refused for its age alone, or is not there at all.
StaleRefused == {i \in Held : LastClosed(i) # {} /\ Staleness(i) > StaleAfter}
Usable(i) == LastClosed(i) # {} /\ ~(Staleness(i) > StaleAfter)
Unmarked == {i \in Held : ~Usable(i)}

-----------------------------------------------------------------------------
InitPortfolio ==
  /\ pinned \in Plans
  /\ phase = "idle" /\ todo = {} /\ now = 0
  /\ equity = Pool /\ peak = Pool /\ bucket = Nothing
  /\ attribution = [i \in Ordinals |-> Nothing]
  /\ positions = [i \in Ordinals |-> Flat]
  /\ own = [i \in Ordinals |-> [net |-> 0, fills |-> 0, pos |-> Flat]]
  /\ snap = NoSnap
  /\ intents = [i \in Ordinals |-> NoIntent]
  /\ decisions = [i \in Ordinals |-> Undecided]
  /\ committed = 0
  /\ points = <<[t |-> 0, equity |-> Pool, drawdown |-> 0]>>
  /\ rows = [n |-> 0, net |-> 0, final |-> 0]
  /\ lots = {}

\* The next item of the phase, in the pinned order.
Turn(p, i) == phase = p /\ todo # {} /\ i = Min(todo) /\ todo' = todo \ {i} /\ phase' = p

Enter(from, to, whom) == phase = from /\ todo = {} /\ phase' = to /\ todo' = whom

-----------------------------------------------------------------------------
(* P1 and P3: what happens to an item before the tick has a valuation *)

\* The next instant of the merged axis, and its carry phase.  The adapter charges an
\* item only for a position it holds.
StartTick ==
  /\ Later # {}
  /\ now' = Min(Later)
  /\ Enter("idle", "P1", {i \in Held : now' \in Streams[i]})
  /\ UNCHANGED <<pinned, ledger, own, snap, intents, decisions, committed, points, rows, lots>>

Carry(i) ==
  /\ Turn("P1", i)
  /\ \E amount \in Fundings :
       /\ BookFunding(i, amount)
       /\ own' = [own EXCEPT ![i].net = @ - amount]
  /\ UNCHANGED <<pinned, now, positions, snap, intents, decisions, committed, points, rows, lots>>

StartExits ==
  /\ Enter("P1", "P3", {i \in Held : Fresh(i)})
  /\ UNCHANGED <<pinned, now, ledger, own, snap, intents, decisions, committed, points, rows, lots>>

\* A stop or an exit the item's own priorities resolved: the capital is released, the
\* result is booked, and the projection pairs the close with the lot it ends.
MandatoryExit(i) ==
  /\ Turn("P3", i)
  /\ \E gross \in Gains :
       /\ ClosePosition(i)
       /\ BookTrade(i, gross)
       /\ ItemCloses(i, gross)
       /\ CloseLot(i, gross - Fee)
  /\ UNCHANGED <<pinned, now, snap, intents, decisions, committed, points>>

NoExit(i) ==
  /\ Turn("P3", i)
  /\ UNCHANGED <<pinned, now, ledger, own, snap, intents, decisions, committed, points, rows, lots>>

-----------------------------------------------------------------------------
(* PV and P4: one valuation, and every intent against it *)

PublishSnapshot ==
  /\ Enter("P3", "P4", {i \in Ordinals : now \in Streams[i]})
  /\ snap' = [equity |-> equity, unmarked |-> Unmarked, stale |-> StaleRefused]
  /\ UNCHANGED <<pinned, now, ledger, own, intents, decisions, committed, points, rows, lots>>

\* The adapter asks the stepper for an entry only when the item is flat in both books.
\* The size is the strategy's: it may be 0, and more than the sleeve.
FormIntent(i) ==
  /\ Turn("P4", i)
  /\ positions[i] = Flat /\ own[i].pos = Flat
  /\ \E dir \in {1, -1}, size \in Sizes :
       intents' = [intents EXCEPT ![i] = [dir |-> dir, size |-> size]]
  /\ UNCHANGED <<pinned, now, ledger, own, snap, decisions, committed, points, rows, lots>>

NoEntry(i) ==
  /\ Turn("P4", i)
  /\ UNCHANGED <<pinned, now, ledger, own, snap, intents, decisions, committed, points, rows, lots>>

-----------------------------------------------------------------------------
(* P5 and P6b: arbitration against the frozen ledger *)

Intending == {i \in Ordinals : intents[i] # NoIntent}
Outcome(o) == {i \in Ordinals : decisions[i].outcome = o}

Opposes(d, e) == d * e = -1

\* Two known and different instruments cannot conflict; anything else may.
MayBeSame(i, j) == Instrument[i] = Instrument[j] \/ Unknown \in {Instrument[i], Instrument[j]}

\* The holders and the earlier survivors of this tick that oppose an intent.
OpposingHolders(i) ==
  {j \in Held \ {i} : Opposes(intents[i].dir, positions[j].dir) /\ MayBeSame(i, j)}
\* Mutation: an intent that was itself blocked still stands in the way.
OpposingEarlier(i) ==
  {j \in Outcome("survived") \cup Outcome("blocked") :
     Opposes(intents[i].dir, intents[j].dir) /\ MayBeSame(i, j)}

OpposingSurvivors(i) ==
  {j \in Outcome("survived") : Opposes(intents[i].dir, intents[j].dir) /\ MayBeSame(i, j)}

\* Holders come first; the counterparty is the first of them in the pinned order.
Counterparty(i) ==
  IF ~pinned.block \/ (OpposingHolders(i) = {} /\ OpposingSurvivors(i) = {}) THEN 0
  ELSE IF OpposingHolders(i) # {} THEN Min(OpposingHolders(i)) ELSE Min(OpposingSurvivors(i))

StartConflicts ==
  /\ Enter("P4", "P5", Intending)
  /\ UNCHANGED <<pinned, now, ledger, own, snap, intents, decisions, committed, points, rows, lots>>

ResolveConflict(i) ==
  /\ Turn("P5", i)
  /\ decisions' = [decisions EXCEPT ![i] =
       IF Counterparty(i) = 0 THEN [outcome |-> "survived", units |-> 0, by |-> 0]
       ELSE [outcome |-> "blocked", units |-> 0, by |-> Counterparty(i)]]
  /\ UNCHANGED <<pinned, now, ledger, own, snap, intents, committed, points, rows, lots>>

StartCapacity ==
  /\ Enter("P5", "P6", Outcome("survived"))
  /\ UNCHANGED <<pinned, now, ledger, own, snap, intents, decisions, committed, points, rows, lots>>

\* Mutation: the earlier admissions of the tick are not counted.
ExposureHeadroomFrozen == Most(0, pinned.cap - GrossExposure)

\* The units each cap layer allows.  The exposure cap is net of this tick's admissions.
ExposureHeadroom == Most(0, pinned.cap - committed - GrossExposure)
Allowed(i) ==
  {HalfEven(RemainingSleeve(i), Whole * Price[i])}
    \cup (IF pinned.cap = NoCap THEN {} ELSE {HalfEven(ExposureHeadroom, Price[i])})

\* The caps clamp; the solvency of the pool, net of this tick's admissions, only rejects.
Granted(i) ==
  LET units == Min(Allowed(i) \cup {intents[i].size})
  IN  IF units * Price[i] > AvailableCapital - committed THEN 0 ELSE units

ResolveCapacity(i) ==
  /\ Turn("P6", i)
  /\ LET units == Granted(i)
     IN  /\ decisions' = [decisions EXCEPT ![i] =
              [outcome |-> IF units = 0 THEN "rejected"
                           ELSE IF units < intents[i].size THEN "capped" ELSE "admitted",
               units |-> units, by |-> 0]]
         /\ committed' = committed + units * Price[i]
  /\ UNCHANGED <<pinned, now, ledger, own, snap, intents, points, rows, lots>>

-----------------------------------------------------------------------------
(* P7 and P9: apply what was admitted, and commit the tick *)

BeginApply ==
  /\ Enter("P6", "P7", Outcome("admitted") \cup Outcome("capped"))
  /\ UNCHANGED <<pinned, now, ledger, own, snap, intents, decisions, committed, points, rows, lots>>

Opened(i) == [dir |-> intents[i].dir, size |-> decisions[i].units, price |-> Price[i]]

\* The size the item's own chain plans, against the E(t) its intent was formed with.
PlannedSize(i) ==
  Least(intents[i].size, HalfEven(SleeveCapital(i, snap.equity), Whole * Price[i]))

\* settle: what the item opens when it is told what it was granted.
Settled(i) == Least(PlannedSize(i), decisions[i].units)

\* The ledger refuses to borrow, and the adapter an item that did not book the grant.
CanApply(i) ==
  /\ Notional(Opened(i)) <= AvailableCapital
  /\ Settled(i) = decisions[i].units

\* The item pays the commission of its entry fill in its own ledger only.  Either refusal
\* stops the run, and the worker fails it.
Apply(i) ==
  /\ phase = "P7" /\ todo # {} /\ i = Min(todo)
  /\ IF CanApply(i)
     THEN /\ todo' = todo \ {i} /\ phase' = "P7"
          /\ positions' = [positions EXCEPT ![i] = Opened(i)]
          /\ own' = [own EXCEPT ![i] = [net |-> @.net - Fee, fills |-> @.fills + 1,
                                        pos |-> Opened(i)]]
          /\ OpenLot(i)
     ELSE /\ phase' = "failed" /\ todo' = {}
          /\ UNCHANGED <<positions, own, lots>>
  /\ UNCHANGED <<pinned, now, equity, peak, bucket, attribution, snap, intents, decisions,
                 committed, points, rows>>

\* A point is appended when E(t) moved since the last one.
Committed(t) ==
  IF equity = points[Len(points)].equity THEN points
  ELSE Append(points, [t |-> t, equity |-> equity, drawdown |-> peak - equity])

CommitTick ==
  /\ Enter("P7", "idle", {})
  /\ points' = Committed(now)
  /\ snap' = NoSnap
  /\ intents' = [i \in Ordinals |-> NoIntent]
  /\ decisions' = [i \in Ordinals |-> Undecided]
  /\ committed' = 0
  /\ UNCHANGED <<pinned, now, ledger, own, rows, lots>>

\* The worker's checkpoint between two committed ticks finds the run cancelled.
Cancel ==
  /\ now > 0
  /\ Enter("idle", "cancelled", {})
  /\ UNCHANGED <<pinned, now, ledger, own, snap, intents, decisions, committed, points, rows, lots>>

-----------------------------------------------------------------------------
(* P10: the data has ended *)

StartFinalize ==
  /\ Later = {} /\ now > 0
  /\ Enter("idle", "P10", {i \in Held : LastClosed(i) # {}})
  /\ UNCHANGED <<pinned, now, ledger, own, snap, intents, decisions, committed, points, rows, lots>>

\* The close that the end of the data forces.  No trade row is projected from it.
FinalClose(i) ==
  /\ Turn("P10", i)
  /\ \E gross \in Gains :
       /\ ClosePosition(i)
       /\ BookTrade(i, gross)
       /\ ItemCloses(i, gross)
       /\ rows' = [rows EXCEPT !.final = @ + gross - Fee]
  /\ UNCHANGED <<pinned, now, snap, intents, decisions, committed, points, lots>>

\* fold_tick: the point of the last instant is replaced, not followed by a second one.
Folded ==
  IF equity # points[Len(points)].equity /\ points[Len(points)].t = now
  THEN [points EXCEPT ![Len(points)] = [t |-> now, equity |-> equity, drawdown |-> peak - equity]]
  ELSE Committed(now)

Finish ==
  /\ Enter("P10", "done", {})
  /\ points' = Folded
  /\ UNCHANGED <<pinned, now, ledger, own, snap, intents, decisions, committed, rows, lots>>

Stop == phase \in Ended /\ UNCHANGED portfolioVars

NextPortfolio ==
  \/ StartTick \/ StartExits \/ PublishSnapshot \/ StartConflicts \/ StartCapacity
  \/ BeginApply \/ CommitTick \/ Cancel \/ StartFinalize \/ Finish \/ Stop
  \/ \E i \in Ordinals :
       \/ Carry(i) \/ MandatoryExit(i) \/ NoExit(i) \/ FormIntent(i) \/ NoEntry(i)
       \/ ResolveConflict(i) \/ ResolveCapacity(i) \/ Apply(i) \/ FinalClose(i)

SpecPortfolio == InitPortfolio /\ [][NextPortfolio]_portfolioVars

-----------------------------------------------------------------------------
(* Properties *)

AtRest == phase \in {"idle", "done", "cancelled"}

Positions == [dir : {-1, 0, 1}, size : Nat, price : Nat]
Buckets == [realized : Int, fees : Nat, funding : Int]
Outcomes == {"none", "survived", "blocked", "rejected", "capped", "admitted"}

\* The types of the state: the ledger of PortfolioLedger, the participants' ledgers and
\* the records of one tick.
TypeOKPortfolio ==
  /\ pinned \in Plans
  /\ phase \in {"idle", "P1", "P3", "P4", "P5", "P6", "P7", "P10"} \cup Ended
  /\ todo \subseteq Ordinals
  /\ now \in Axis \cup {0}
  /\ equity \in Int /\ peak \in Int
  /\ bucket \in Buckets /\ attribution \in [Ordinals -> Buckets]
  /\ positions \in [Ordinals -> Positions]
  /\ own \in [Ordinals -> [net : Int, fills : Nat, pos : Positions]]
  /\ snap \in [equity : Int, unmarked : SUBSET Ordinals, stale : SUBSET Ordinals]
  /\ intents \in [Ordinals -> [dir : {-1, 0, 1}, size : Nat]]
  /\ decisions \in [Ordinals -> [outcome : Outcomes, units : Nat, by : Ordinals \cup {0}]]
  /\ committed \in Nat
  /\ points \in Seq([t : Axis \cup {0}, equity : Int, drawdown : Int])
  /\ rows \in [n : Nat, net : Int, final : Int]
  /\ lots \subseteq Ordinals

\* accounting_identity, always equal to equity, and the attribution accounts for every
\* bucket of the pool: no booking moves E(t) without a line that an item owns.
BooksBalance ==
  /\ equity = Pool + bucket.realized - bucket.fees - bucket.funding
  /\ bucket.realized = SumFunction([i \in Ordinals |-> attribution[i].realized])
  /\ bucket.fees = SumFunction([i \in Ordinals |-> attribution[i].fees])
  /\ bucket.funding = SumFunction([i \in Ordinals |-> attribution[i].funding])

\* The pool and the items' own ledgers hold the same positions, and the results they
\* record part by exactly the commissions of the entry fills, which settle has no way to
\* state to the pool (tests/unit/oracles/test_oracle_engine_participant.py:219).
BooksPartByTheEntryFees ==
  \A i \in Ordinals :
    /\ own[i].pos = positions[i]
    /\ own[i].net = attribution[i].realized - attribution[i].fees - attribution[i].funding
                    - Fee * own[i].fills

\* BLOCK_OPPOSITE: no two items ever hold opposing positions on what may be one
\* instrument, whichever of a held position and an earlier intent stood in the way.
NoOpposingBooks ==
  pinned.block =>
    \A i, j \in Held : i # j /\ MayBeSame(i, j) => ~Opposes(positions[i].dir, positions[j].dir)

\* Of a conflict exactly one side gives way: what blocked an item is a position held
\* before the tick or an intent that itself passed P5, never another blocked one.
OneSideGivesWay ==
  \A i \in Outcome("blocked") :
    LET j == decisions[i].by
    IN  /\ j \in Ordinals \ {i}
        /\ decisions[j].outcome # "blocked"
        /\ decisions[j].outcome = "none" => positions[j] # Flat

\* What arbitration grants against the frozen ledger can always be applied: the ledger
\* never has to refuse a borrow, and the size the item plans for itself is the granted one.
\* Neither LedgerSolvencyViolation nor ParticipantDivergenceError ends a run.
GrantsAreApplicable == phase # "failed"

\* Between ticks and at the end the curve ends at the settled equity, with one point per
\* instant in ascending order, the end-of-data closes included.
CurveIsTheLedger ==
  /\ AtRest => points[Len(points)].equity = equity
  /\ \A k \in 1..Len(points) - 1 : points[k].t < points[k + 1].t

\* No point understates its drawdown: it is at least the fall from any earlier point,
\* also when the point was folded and whatever kind of booking raised the equity.
DrawdownCoversTheCurve ==
  \A k \in 1..Len(points) : \A j \in 1..k :
    points[k].drawdown >= points[j].equity - points[k].equity

\* _walk_trades: every lot that awaits a row is a held position, and the rows state the
\* whole of E(t) except funding and what the end-of-data closes realized, which no row states.
RowsAndFinalClosesAreTheEquity ==
  /\ phase # "P10" => equity = Pool + rows.net + rows.final - bucket.funding
  /\ phase \notin {"P10", "done"} => lots = Held /\ rows.final = 0
  /\ phase = "done" => Held = {}

\* A held position goes unmarked only because its last bar is too old: the diagnostic
\* counter of OD-2(a) counts every unmarked position.
UnmarkedOnlyByAge == snap.unmarked = snap.stale

-----------------------------------------------------------------------------
(* The replay implements the pool its items share. *)
Capital == INSTANCE CapitalPool WITH
  Strategies <- Ordinals,
  plan <- pinned,
  exposure <- GrossExposure,
  open <- positions

\* Whatever the phases of a tick do in between, and however many items are granted capital
\* from one frozen ledger: what is opened fits the pool without borrowing, the sleeve and the
\* cap and opposes nobody, a position ends as it was opened, and the equity moves only for
\* items that hold one.
ImplementsPool == Capital!PoolSpec

\* The pool's books and the items' books tell one story, the trade rows tell it too, and
\* what is granted between them can be carried out.
LedgersAgree ==
  TypeOKPortfolio /\ BooksBalance /\ BooksPartByTheEntryFees /\ RowsAndFinalClosesAreTheEquity
    /\ GrantsAreApplicable

\* Where items oppose each other one side gives way, and it is the right one.
ConflictsLeaveOneSide == NoOpposingBooks /\ OneSideGivesWay

\* The equity curve is the ledger's, and its drawdowns and gaps are what they claim to be.
CurveIsSound == CurveIsTheLedger /\ DrawdownCoversTheCurve /\ UnmarkedOnlyByAge
=============================================================================
