----------------------------- MODULE ItemReplay -----------------------------
(***************************************************************************)
(* The bar replay of one strategy: _build_stepper of domain/backtest, which *)
(* holds one position, the orders that wait to open it and the exits that   *)
(* wait to close it, and takes every bar through the same ordered phases.   *)
(*                                                                         *)
(* A phase is an operator from the state of the replay to its next state,  *)
(* and a bar is their composition: nothing else runs in between, so a bar  *)
(* is one step.  What varies is the strategy (cfg, chosen once) and the    *)
(* bars: their prices, their prints, and what the parts left out make of   *)
(* them - the signals of the indicators, the verdict of the restrictions,  *)
(* the size the sizing chain plans and the size the portfolio cap leaves.  *)
(*                                                                         *)
(* A direction is 1 (long) or -1 (short), 0 for none; prices and sizes are *)
(* positive integers, 0 for none.  Distances are absolute where the code   *)
(* has percentages; costs, PnL, funding and logic stops are left out.      *)
(***************************************************************************)
EXTENDS Integers, Sequences, FiniteSets, FiniteSetsExt, Functions

CONSTANTS Configs,  \* the strategies of the model
          Bars,     \* the bars it may be shown
          MaxBars   \* bound: bars of a replay

Directions == {1, -1}
Protections == {"percentage", "trailing", "absolute"}

\* A strategy, as its configuration is validated.
Strategy ==
  [dirs : SUBSET Directions, order : {"market", "limit", "stop", "stop_limit"},
   entry : {"immediate", "touch", "next_open", "next_close"},
   exit : {"immediate", "touch", "next_open", "next_close"},
   offset : Int, activation : Int, validity : Nat, unfilled : {"cancel", "convert", "reprice"},
   partial : {"not_allowed", "allowed", "minimum", "market", "cancel_remaining"},
   tickEntry : BOOLEAN, stopLimitSim : BOOLEAN, half : BOOLEAN, aftermath : {"entry", "lock", "trail"},
   exitFirst : BOOLEAN, stopExit : {"stop_has_priority", "exit_has_priority"}, opposite : BOOLEAN,
   stacking : {"ignore", "replace", "stack"}, hedge : {"ignore", "close"},
   pct : Nat, abs : Nat, gap : Nat, lock : Nat, rank : [Protections -> Nat], requireAll : BOOLEAN,
   resolution : {"conservative", "priority", "first"},
   distance : Nat, layer : Nat, maxLayers : Nat, maxSize : Nat]

\* A bar with its prints, each a price and a size; validate_ohlcv_row lets no other through.
Bar ==
  [open : Nat \ {0}, high : Nat \ {0}, low : Nat \ {0}, close : Nat \ {0},
   prints : Seq((Nat \ {0}) \X Nat), signal : Directions \cup {0}, exitHit : BOOLEAN,
   blocked : BOOLEAN, plan : Nat, room : Nat]

ASSUME ReplayBoundsAssumption ==
  /\ MaxBars \in Nat /\ Configs \subseteq Strategy /\ Bars \subseteq Bar
  /\ \A b \in Bars : b.low <= b.open /\ b.open <= b.high /\ b.low <= b.close /\ b.close <= b.high

VARIABLES cfg,   \* the pinned strategy configuration
          st,    \* the state of the stepper and of its ledger
          over   \* whether the data has ended

replayVars == <<cfg, st, over>>

NoPosition == [id |-> 0, born |-> 0, live |-> 0, dir |-> 0, entry |-> 0, size |-> 0,
         stop |-> 0, anchor |-> 0, layers |-> 0, ref |-> 0]
NoPending == [kind |-> "none", atOpen |-> FALSE, at |-> 0, dir |-> 0]
NoLimit == [dir |-> 0, price |-> 0, live |-> 0, expires |-> 0,
            rest |-> 0, of |-> 0, placed |-> 0, got |-> 0, plan |-> 0]
NoTrigger == [dir |-> 0, price |-> 0, live |-> 0, limit |-> 0]
NoTouch == [price |-> 0, placed |-> 0, of |-> 0]

Start ==
  [seq |-> 0,             \* led.bars_seen
   opens |-> 0,           \* position_seq
   pos |-> NoPosition,          \* position
   pending |-> NoPending, \* a fill deferred to the next bar
   limit |-> NoLimit,     \* working_limit
   trigger |-> NoTrigger, \* working_stop
   touch |-> NoTouch,     \* exit_touch
   signal |-> 0,          \* entry_signal, of the bar being replayed
   prev |-> 0,            \* prev_entry_signal
   cut |-> FALSE,         \* a trade row was booked on this bar
   shut |-> FALSE,        \* history: the held phase of the last bar closed the position
   due |-> 0,             \* history: entry signals traced, less those traced to their end
   units |-> 0,           \* history: units filled less units closed
   fair |-> TRUE,         \* history: no fill was better than what its bar traded at
   excess |-> 0]          \* history: the most a growth left above the room of its bar

InitReplay == cfg \in Configs /\ st = Start /\ over = FALSE

-----------------------------------------------------------------------------
(* Prices, seen from a direction *)

Lesser(x, y) == IF x < y THEN x ELSE y
Greater(x, y) == IF x < y THEN y ELSE x

\* The price of a bar that an order of direction d buying low waits for.
Dip(d, b) == IF d = 1 THEN b.low ELSE b.high
Peak(d, b) == Dip(-d, b)

\* Whether a price is at the level or beyond it, for one who buys (1) or sells (-1).
Touching(d, level, price) == d * (level - price) >= 0

\* The less favourable of two fills of direction d.
Worse(d, x, y) == IF d * (x - y) >= 0 THEN x ELSE y

\* The more favourable extreme of a position of direction d.
Better(d, x, y) == Worse(d, x, y)

\* The prints, by their place, at which an order resting at the level fills.
TouchingPrints(prints, d, level) == {i \in DOMAIN prints : Touching(d, level, prints[i][1])}

LimitPrice(reference, offset) == reference + offset

TotalSize(prints, places) == SumFunction([i \in places |-> prints[i][2]])

Holding(s) == s.pos.id # 0
Working(s) == s.limit.dir # 0

\* The bar, on its candle or in a print, traded at the price or beyond it.
Attainable(d, price, b) ==
  Touching(d, price, Dip(d, b)) \/ TouchingPrints(b.prints, d, price) # {}

\* Units bought (1) or sold (-1) at price in bar b.
Trade(s, b, d, price, n) ==
  [s EXCEPT !.units = @ + n, !.fair = @ /\ Attainable(d, price, b)]

-----------------------------------------------------------------------------
(* Opening, growing and closing the position *)

\* What _open books: the planned size, under the portfolio cap, under the override.
BookedSize(b, cap) ==
  LET allowed == Lesser(b.plan, b.room)
  IN  IF cap = 0 THEN allowed ELSE Lesser(allowed, cap)

PctStop(d, entry) == IF cfg.pct = 0 THEN 0 ELSE entry - d * cfg.pct

\* _do_open: the signal it answers is traced to its end, filled or blocked.
DoOpen(s, b, d, price, cap, live) ==
  LET n == BookedSize(b, cap)
      done == [s EXCEPT !.due = @ - 1]
  IN  IF n = 0 THEN [done EXCEPT !.pos = NoPosition]
      ELSE [Trade(done, b, d, price, n) EXCEPT
              !.opens = @ + 1,
              !.pos = [id |-> s.opens + 1, born |-> s.seq, live |-> live, dir |-> d,
                       entry |-> price, size |-> n, stop |-> PctStop(d, price),
                       anchor |-> price, layers |-> 0, ref |-> price]]

\* A lot folds into the position at the size-weighted average.
Grow(s, b, price, add) ==
  LET size == s.pos.size + add
  IN  [Trade(s, b, s.pos.dir, price, add) EXCEPT
         !.pos.entry = (s.pos.entry * s.pos.size + price * add) \div size,
         !.pos.size = size,
         !.excess = Greater(@, size - b.room)]

Close(s, b, price) ==
  [Trade(s, b, -s.pos.dir, price, -s.pos.size) EXCEPT !.pos = NoPosition, !.cut = TRUE]

\* Mutation: the lock is set again without comparing it with the one in place.
AftermathUnratcheted(pos, price) ==
  LET d == pos.dir IN
  CASE cfg.aftermath = "entry" -> [pos EXCEPT !.stop = pos.entry]
    [] cfg.aftermath = "lock" -> [pos EXCEPT !.stop = price]
    [] cfg.aftermath = "trail" -> [pos EXCEPT !.anchor = Better(d, @, pos.entry + d * cfg.lock)]

\* The remainder of a partial close: its stop moves to the entry, or to the price
\* just taken, or its trailing rule starts.
Aftermath(pos, price) ==
  LET d == pos.dir IN
  CASE cfg.aftermath = "entry" -> [pos EXCEPT !.stop = pos.entry]
    [] cfg.aftermath = "lock" ->
         [pos EXCEPT !.stop = IF @ = 0 THEN price ELSE Better(d, @, price)]
    [] cfg.aftermath = "trail" ->
         [pos EXCEPT !.anchor = Better(d, @, pos.entry + d * cfg.lock)]

\* An exit signal closes the configured share of the position.
CloseShare(s, b, price) ==
  IF ~cfg.half THEN Close(s, b, price)
  ELSE LET n == s.pos.size \div 2
       IN  [Trade(s, b, -s.pos.dir, price, -n) EXCEPT
              !.pos = Aftermath([s.pos EXCEPT !.size = @ - n], price),
              !.cut = TRUE]

-----------------------------------------------------------------------------
(* Phase 1, admission: the signal of the bar *)

\* An entry and an exit confirmed by the same bar while flat: only exit_first admits
\* the entry.
Admit(s, b) ==
  LET collide == ~Holding(s) /\ b.signal # 0 /\ b.exitHit
  IN  [s EXCEPT !.seq = @ + 1, !.cut = FALSE, !.shut = FALSE,
                !.signal = IF collide /\ ~cfg.exitFirst THEN 0 ELSE b.signal]

-----------------------------------------------------------------------------
(* Phase 2, fills of what earlier bars committed *)

Deferred(s, b, atOpen) ==
  LET price == IF atOpen THEN b.open ELSE b.close
      p == s.pending
      filled == CASE p.kind = "entry" /\ ~Holding(s) -> DoOpen(s, b, p.dir, price, 0, p.at)
                  [] p.kind = "exit" /\ Holding(s) -> CloseShare(s, b, price)
                  [] OTHER -> s
  IN  IF p.kind # "none" /\ p.at = s.seq /\ p.atOpen = atOpen
      THEN [filled EXCEPT !.pending = NoPending] ELSE s

\* Under a tick-backed entry timing the prints of a bar decide, if it has any.
LimitTouched(l, b) ==
  IF b.prints # <<>> /\ cfg.tickEntry
  THEN TouchingPrints(b.prints, l.dir, l.price) # {}
  ELSE Touching(l.dir, l.price, Dip(l.dir, b))

\* What the sizes printed at the level fill of the plan; without a size, all of it.
FillDecision(b, available) ==
  IF cfg.partial = "not_allowed" \/ available = 0 \/ available >= b.plan THEN "full"
  ELSE IF cfg.partial = "minimum" /\ available * 2 < b.plan THEN "rejected" ELSE "partial"

\* A touched order fills, and the policy disposes of what is left of it.
FillLimit(s, b, places) ==
  LET l == s.limit
      available == TotalSize(b.prints, places)
      decision == FillDecision(b, available)
      t == DoOpen(s, b, l.dir, l.price, IF decision = "full" THEN 0 ELSE available, l.live)
      done == [t EXCEPT !.limit = NoLimit]
      resting == [l EXCEPT !.rest = b.plan - available, !.of = t.pos.id, !.placed = s.seq,
                           !.got = t.pos.size, !.plan = b.plan]
  IN  CASE decision = "rejected" -> s
        [] decision = "partial" /\ Holding(t) /\ cfg.partial = "market" ->
             Grow(done, b, b.close, b.plan - available)
        [] decision = "partial" /\ Holding(t) /\ cfg.partial \in {"allowed", "minimum"} ->
             [t EXCEPT !.limit = resting]
        [] OTHER -> done

Expired(s) == s.limit.expires # 0 /\ s.seq >= s.limit.expires

Reprice(s, b) ==
  IF cfg.unfilled = "reprice" THEN [s EXCEPT !.limit.price = LimitPrice(b.close, cfg.offset)] ELSE s

\* The whole order at the end of its validity.
ExpireLimit(s, b) ==
  LET gone == [s EXCEPT !.limit = NoLimit]
  IN  IF cfg.unfilled = "convert" THEN DoOpen(gone, b, s.limit.dir, b.close, 0, s.limit.live)
      ELSE [gone EXCEPT !.due = @ - 1]

RestingLimit(s, b) ==
  LET t == IF LimitTouched(s.limit, b)
           THEN FillLimit(s, b, TouchingPrints(b.prints, s.limit.dir, s.limit.price)) ELSE s
  IN  CASE ~Working(s) \/ s.limit.rest # 0 \/ Holding(s) -> s
        [] OTHER -> CASE ~Working(t) \/ Holding(t) -> t
                      [] Working(t) /\ ~Holding(t) /\ Expired(t) -> ExpireLimit(t, b)
                      [] OTHER -> Reprice(t, b)

\* Mutation: the remainder of the order is not reduced by what was filled.
TopUpUncounted(s, b, price, n) ==
  LET left == [s.limit EXCEPT !.got = @ + n, !.placed = s.seq]
  IN  [Grow(s, b, price, n) EXCEPT !.limit = IF n = s.limit.rest THEN NoLimit ELSE left]

\* A lot of the remainder, added to the position it belongs to.
TopUp(s, b, price, n) ==
  LET left == [s.limit EXCEPT !.rest = @ - n, !.got = @ + n, !.placed = s.seq]
  IN  [Grow(s, b, price, n) EXCEPT !.limit = IF n = s.limit.rest THEN NoLimit ELSE left]

\* The remainder rests against its position and dies with it.
Remainder(s, b) ==
  LET l == s.limit
      size == TotalSize(b.prints, TouchingPrints(b.prints, l.dir, l.price))
      t == IF LimitTouched(l, b) THEN TopUp(s, b, l.price, IF size = 0 THEN l.rest ELSE Lesser(size, l.rest))
           ELSE s
      gone == [t EXCEPT !.limit = NoLimit]
  IN  CASE ~Working(s) \/ l.rest = 0 \/ (s.pos.id = l.of /\ l.placed = s.seq) -> s
        [] Working(s) /\ l.rest # 0 /\ s.pos.id # l.of -> [s EXCEPT !.limit = NoLimit]
        [] OTHER -> CASE ~Working(t) -> t
                      [] Working(t) /\ Expired(t) ->
                           IF cfg.unfilled = "convert" THEN Grow(gone, b, b.close, t.limit.rest) ELSE gone
                      [] OTHER -> Reprice(t, b)

\* A fired stop fills at its level, or at the open of a bar that gapped past it; that
\* of a stop-limit arms the limit, which the bar itself fills only on later prints.
StopEntry(s, b) ==
  LET w == s.trigger
      gone == [s EXCEPT !.trigger = NoTrigger]
      armed == [gone EXCEPT !.limit =
                  [NoLimit EXCEPT !.dir = w.dir, !.price = w.limit, !.live = s.seq + 1,
                     !.expires = IF cfg.validity = 0 THEN 0 ELSE s.seq + cfg.validity]]
      firing == TouchingPrints(b.prints, -w.dir, w.price)
      later == IF ~cfg.stopLimitSim \/ firing = {} THEN {}
               ELSE {i \in TouchingPrints(b.prints, w.dir, w.limit) : i > Min(firing)}
  IN  CASE w.dir = 0 \/ Holding(s) \/ ~Touching(-w.dir, w.price, Peak(w.dir, b)) -> s
        [] OTHER -> CASE w.limit = 0 -> DoOpen(gone, b, w.dir, Worse(w.dir, w.price, b.open), 0, w.live)
                      [] w.limit # 0 /\ later = {} -> armed
                      [] OTHER -> FillLimit([armed EXCEPT !.limit.live = s.seq], b, later)

\* Mutation: the resting limit is looked at after the stop that arms it.
OpenFillsStopFirst(s, b) == RestingLimit(Remainder(StopEntry(Deferred(s, b, TRUE), b), b), b)

OpenFills(s, b) == StopEntry(Remainder(RestingLimit(Deferred(s, b, TRUE), b), b), b)

-----------------------------------------------------------------------------
(* Phase 3, protection and exit of a held position *)

\* Once the profit has reached the lock, the trailing rule follows the best price seen.
Trailing(pos) ==
  cfg.gap # 0 /\ Touching(-pos.dir, pos.entry + pos.dir * cfg.lock, pos.anchor)
TrailLevel(pos) == pos.anchor - pos.dir * cfg.gap

\* The levels of the rules in force, 0 for a rule that is not.
StopLevels(pos) ==
  [percentage |-> pos.stop, trailing |-> IF Trailing(pos) THEN TrailLevel(pos) ELSE 0,
   absolute |-> cfg.abs]

\* The first print that reaches a level decides, and of the levels it reaches at once
\* the one nearest to the prices before.
FirstTouched(pos, levels, fired, prints, rank) ==
  LET reached(i) == {k \in fired : Touching(pos.dir, levels[k], prints[i][1])}
      touching == {i \in DOMAIN prints : reached(i) # {}}
      keys == reached(Min(touching))
      before(j, k) == \/ pos.dir * (levels[j] - levels[k]) > 0
                      \/ levels[j] = levels[k] /\ rank[j] <= rank[k]
  IN  IF touching = {} THEN {} ELSE {j \in keys : \A k \in keys : before(j, k)}

\* The rule nearest to the entry price, the ranking breaking ties.
NearestToEntry(pos, levels, fired, rank) ==
  LET distance(k) == IF levels[k] > pos.entry THEN levels[k] - pos.entry ELSE pos.entry - levels[k]
      before(j, k) == \/ distance(j) < distance(k)
                      \/ distance(j) = distance(k) /\ rank[j] <= rank[k]
  IN  {j \in fired : \A k \in fired : before(j, k)}

\* The level, or the open of a bar that had already gapped past it.
AttainableStopFill(pos, level, b) == Worse(-pos.dir, level, b.open)

\* The executable price of the rule that wins, or 0 when protection does not fire.
StopOutcome(pos, b) ==
  LET levels == StopLevels(pos)
      enabled == {k \in DOMAIN levels : levels[k] # 0}
      fired == {k \in enabled : Touching(pos.dir, levels[k], Dip(pos.dir, b))}
      rank == cfg.rank
      seen == IF cfg.resolution = "first" THEN FirstTouched(pos, levels, fired, b.prints, rank) ELSE {}
      winners == CASE seen # {} -> seen
                   [] cfg.resolution = "priority" -> {j \in fired : \A k \in fired : rank[j] <= rank[k]}
                   [] OTHER -> NearestToEntry(pos, levels, fired, rank)
  IN  IF fired = {} \/ (cfg.requireAll /\ fired # enabled) THEN 0
      ELSE AttainableStopFill(pos, levels[CHOOSE k \in winners : TRUE], b)

ExitWanted(s, b) ==
  /\ s.pending.kind = "none" /\ s.touch.placed = 0
  /\ b.exitHit \/ (cfg.opposite /\ s.signal = -s.pos.dir)

TouchExitReached(s, b) ==
  LET d == -s.pos.dir
  IN  IF b.prints # <<>> THEN TouchingPrints(b.prints, d, s.touch.price) # {}
      ELSE Touching(d, s.touch.price, Dip(d, b))

PlaceExit(s, b) ==
  CASE cfg.exit = "immediate" -> CloseShare(s, b, b.close)
    [] cfg.exit = "touch" ->
         [s EXCEPT !.touch = [price |-> b.close, placed |-> s.seq, of |-> s.pos.id]]
    [] OTHER -> [s EXCEPT !.pending = [kind |-> "exit", atOpen |-> cfg.exit = "next_open",
                                       at |-> s.seq + 1, dir |-> 0]]

\* One arm is taken: a stop pre-empts every exit, but an immediate exit signal on the
\* same bar when the policy prefers it.
HeldPhase(s, b) ==
  LET h == [s EXCEPT !.pos.anchor = Better(s.pos.dir, @, Peak(s.pos.dir, b))]
      stop == StopOutcome(h.pos, b)
      preferred == cfg.stopExit = "exit_has_priority" /\ cfg.exit = "immediate" /\ ExitWanted(h, b)
      t == CASE stop # 0 /\ preferred -> Close(h, b, b.close)
             [] stop # 0 /\ ~preferred -> [Close(h, b, stop) EXCEPT !.pending = NoPending]
             [] stop = 0 /\ h.touch.placed # 0 /\ h.seq > h.touch.placed ->
                  IF TouchExitReached(h, b) THEN [CloseShare(h, b, h.touch.price) EXCEPT !.touch = NoTouch]
                  ELSE h
             [] stop = 0 /\ ExitWanted(h, b) -> PlaceExit(h, b)
             [] OTHER -> h
  IN  [t EXCEPT !.shut = ~Holding(t)]

-----------------------------------------------------------------------------
(* Phase 4, a fresh entry while flat and uncommitted *)

\* Nothing is on its way to a position.
Uncommitted(s) == s.pending.kind = "none" /\ ~Working(s) /\ s.trigger.dir = 0

EntryWanted(s, b) == Uncommitted(s) /\ s.signal \in cfg.dirs /\ ~b.blocked

NewLimit(s, price) ==
  [NoLimit EXCEPT !.dir = s.signal, !.price = price, !.live = s.seq + 1,
     !.expires = IF cfg.validity = 0 THEN 0 ELSE s.seq + cfg.validity]

\* The order type governs before the timing does.
PlaceEntry(s, b) ==
  LET t == [s EXCEPT !.due = @ + 1] IN
  CASE cfg.order = "limit" -> [t EXCEPT !.limit = NewLimit(s, LimitPrice(b.close, cfg.offset))]
    [] cfg.order \in {"stop", "stop_limit"} ->
         [t EXCEPT !.trigger = [dir |-> s.signal, price |-> LimitPrice(b.close, cfg.activation), live |-> s.seq + 1,
                                limit |-> IF cfg.order = "stop" THEN 0 ELSE LimitPrice(b.close, cfg.offset)]]
    [] cfg.order = "market" /\ cfg.entry = "touch" -> [t EXCEPT !.limit = NewLimit(s, b.close)]
    [] cfg.order = "market" /\ cfg.entry = "immediate" -> DoOpen(t, b, s.signal, b.close, 0, s.seq)
    [] OTHER -> [t EXCEPT !.pending = [kind |-> "entry", atOpen |-> cfg.entry = "next_open",
                                       at |-> s.seq + 1, dir |-> s.signal]]

EntryPhase(s, b) == IF EntryWanted(s, b) THEN PlaceEntry(s, b) ELSE s

\* A bar that closes a position in the held phase is not offered an entry.
HeldOrEntry(s, b) == IF Holding(s) THEN HeldPhase(s, b) ELSE EntryPhase(s, b)

-----------------------------------------------------------------------------
(* Phase 5, the tail: conflicts, the scale ladder, the end of the bar *)

\* Whether the caps accept a lot on top of the position.
Accepted(s, b, n) == n > 0 /\ s.pos.size + n <= cfg.maxSize /\ n <= b.room - s.pos.size

\* The held position is closed and a fresh one opened, at this bar's close.
Replace(s, b) ==
  DoOpen(Close([s EXCEPT !.due = @ + 1], b, b.close), b, s.signal, b.close, 0, s.seq)

Stack(s, b) == IF Accepted(s, b, b.plan) THEN Grow(s, b, b.close, b.plan) ELSE s

\* An opposite signal that no exit answered; the flat rules take over on the next bar.
Oppose(s, b) == IF cfg.hedge = "close" THEN Close(s, b, b.close) ELSE s

\* A new signal edge while a position is held that this bar neither opened nor cut.
Conflict(s, b) ==
  LET edge == /\ Holding(s) /\ s.pos.born # s.seq /\ s.pending.kind = "none" /\ ~s.cut
              /\ s.signal # 0 /\ s.signal # s.prev
      same == s.signal = s.pos.dir
  IN  CASE edge /\ same /\ cfg.stacking = "replace" /\ ~b.blocked -> Replace(s, b)
        [] edge /\ same /\ cfg.stacking = "stack" /\ ~b.blocked -> Stack(s, b)
        [] edge /\ ~same -> Oppose(s, b)
        [] OTHER -> s

\* Each crossing is one candidate, and moves the reference whether or not it is taken.
Scale(s, b) ==
  LET crossed == /\ Holding(s) /\ s.pending.kind = "none" /\ ~s.cut
                 /\ s.pos.layers < cfg.maxLayers
                 /\ Touching(s.pos.dir, s.pos.ref - s.pos.dir * cfg.distance, b.close)
      t == [s EXCEPT !.pos.ref = b.close]
  IN  CASE crossed /\ Accepted(s, b, cfg.layer) ->
             [Grow(t, b, b.close, cfg.layer) EXCEPT !.pos.layers = @ + 1]
        [] crossed /\ ~Accepted(s, b, cfg.layer) -> t
        [] OTHER -> s

\* The touch exit dies with its position.
EndOfBar(s) ==
  [s EXCEPT !.prev = s.signal, !.signal = 0, !.touch = IF Holding(s) THEN @ ELSE NoTouch]

TailPhase(s, b) == EndOfBar(Scale(Conflict(Deferred(s, b, FALSE), b), b))

-----------------------------------------------------------------------------
(* The replay *)

Step(b) ==
  /\ ~over /\ st.seq < MaxBars
  /\ st' = TailPhase(HeldOrEntry(OpenFills(Admit(st, b), b), b), b)
  /\ UNCHANGED <<cfg, over>>

\* At the end of the data the resting orders are cancelled and the position is closed;
\* a deferred fill is not looked at.
Finalize ==
  LET whole == (IF Working(st) /\ st.limit.rest = 0 THEN 1 ELSE 0) + (IF st.trigger.dir # 0 THEN 1 ELSE 0)
  IN  /\ ~over /\ st.seq > 0 /\ over' = TRUE
      /\ st' = [st EXCEPT !.limit = NoLimit, !.trigger = NoTrigger, !.due = @ - whole,
                          !.pos = NoPosition, !.units = @ - st.pos.size]
      /\ UNCHANGED cfg

NextReplay == (\E b \in Bars : Step(b)) \/ Finalize

SpecReplay == InitReplay /\ [][NextReplay]_replayVars

-----------------------------------------------------------------------------
(* Properties *)

\* The record keeps its shape: sizes, counters and sequence numbers of _build_stepper
\* stay in range, and nothing happens on a bar that has not come.
TypeOKReplay ==
  /\ cfg \in Configs /\ over \in BOOLEAN
  /\ st.seq \in 0 .. MaxBars /\ st.opens \in 0 .. st.seq /\ st.pos.id \in 0 .. st.opens
  /\ st.pos.dir \in {-1, 0, 1} /\ (st.pos.id = 0 <=> st.pos = NoPosition)
  /\ st.pos.size \in Nat /\ st.pos.layers \in 0 .. cfg.maxLayers
  /\ st.pending.kind \in {"none", "entry", "exit"} /\ st.pending.at \in 0 .. st.seq + 1
  /\ st.limit.dir \in {-1, 0, 1} /\ st.limit.rest \in Nat
  /\ st.trigger.dir \in {-1, 0, 1} /\ st.touch.placed \in 0 .. st.seq
  /\ st.signal = 0 /\ st.prev \in {-1, 0, 1} /\ st.cut \in BOOLEAN

\* A replay commits itself once: entry orders exist only while flat, deferred and
\* touch exits only while holding, and never two at a time (_Pending, _WorkingLimit,
\* _WorkingStop, "at most one is ever outstanding").
CommitmentsFitPosition ==
  LET entries == {k \in {"pending", "limit", "stop"} :
                    \/ k = "pending" /\ st.pending.kind = "entry"
                    \/ k = "limit" /\ st.limit.dir # 0
                    \/ k = "stop" /\ st.trigger.dir # 0}
  IN  over \/
      /\ Cardinality(entries) <= 1
      /\ st.pending.kind = "entry" \/ st.trigger.dir # 0 \/ (Working(st) /\ st.limit.rest = 0) => ~Holding(st)
      /\ st.pending.kind = "exit" \/ st.touch.placed # 0 => Holding(st)
      /\ ~(st.pending.kind = "exit" /\ st.touch.placed # 0)

\* Every entry signal traced is filled, blocked, cancelled or still waiting: the
\* decision trace has no silent gap and no order is answered twice.
SignalsAccounted ==
  st.due = (IF st.pending.kind = "entry" THEN 1 ELSE 0)
         + (IF Working(st) /\ st.limit.rest = 0 THEN 1 ELSE 0)
         + (IF st.trigger.dir # 0 THEN 1 ELSE 0)

\* No order fills before the first bar after its decision: what a signal at a close
\* commits is never filled from prices that came before it.
NoLookAhead == Holding(st) => st.pos.born >= st.pos.live

\* No fill is better than the prices its bar traded at: a buyer never pays less than
\* the least of them, a seller never gets more than the greatest.
FillsAttainable == st.fair

\* A bar whose protection or exit closed the position in the held phase ends flat and
\* with no new order: the risk event dominates the entry of the same bar.
HeldCloseEndsTheBar == st.shut /\ ~over => ~Holding(st) /\ (Uncommitted(st) \/ st.limit.rest # 0)

\* The remainder of a partly filled order never tops its position up beyond the size
\* that was planned.
RemainderNeverOverfills == st.limit.rest # 0 => st.limit.got + st.limit.rest <= st.limit.plan

\* A touch exit closes the position it was placed for (engine.py: a later position
\* never inherits a stale touch level), unless a signal replaced that position.
TouchExitOwned ==
  st.touch.placed # 0 /\ ~over => Holding(st) /\ (st.touch.of = st.pos.id \/ cfg.stacking = "replace")

\* What stacks and layers add stays under the portfolio cap of their bar; the
\* remainders of partial fills are not capped again.
GrowthWithinCap == cfg.partial = "not_allowed" => st.excess = 0

\* Units filled less units closed are the position, and none are left at the end.
UnitsAddUp == st.units = st.pos.size /\ (over => st.units = 0)

\* While a position's basis stands, its trailing rule stays in force and its trailing level
\* and its stop only tighten; a stop may only be moved elsewhere to the entry.
ProtectionRatchets ==
  [][LET p == st.pos
         q == st'.pos
         tighter(x, y) == p.dir * (y - x) >= 0
     IN  Holding(st) /\ q.id = p.id /\ q.entry = p.entry =>
           /\ Trailing(p) => Trailing(q) /\ tighter(TrailLevel(p), TrailLevel(q))
           /\ p.stop # 0 => q.stop = q.entry \/ (q.stop # 0 /\ tighter(p.stop, q.stop))]_replayVars

\* The books of one position: one commitment at a time, every signal answered, every unit
\* accounted for, and nothing grown past its plan or its cap.
PositionIsAccounted ==
  TypeOKReplay /\ CommitmentsFitPosition /\ SignalsAccounted /\ UnitsAddUp
    /\ RemainderNeverOverfills /\ GrowthWithinCap

\* No fill comes before its order could fill, is better than its bar, is that of another
\* position's exit, or follows the close that ended the bar.
FillsAreHonest == NoLookAhead /\ FillsAttainable /\ TouchExitOwned /\ HeldCloseEndsTheBar
=============================================================================
