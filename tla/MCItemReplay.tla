---------------------------- MODULE MCItemReplay ----------------------------
(***************************************************************************)
(* Instances of ItemReplay: strategies that between them select every       *)
(* order type, timing, policy and stop rule, over bars around a price of   *)
(* 10 that gap, touch and reverse.                                          *)
(***************************************************************************)
EXTENDS ItemReplay, TLC

\* A strategy with every option at its default.
Plain ==
  [dirs |-> {1, -1}, entry |-> "immediate", exit |-> "immediate", order |-> "market",
   offset |-> 0, activation |-> 0, validity |-> 0, unfilled |-> "cancel", partial |-> "not_allowed",
   tickEntry |-> FALSE, stopLimitSim |-> FALSE, half |-> FALSE, aftermath |-> "entry",
   exitFirst |-> FALSE, stopExit |-> "stop_has_priority", opposite |-> FALSE,
   stacking |-> "ignore", hedge |-> "ignore",
   pct |-> 0, abs |-> 0, gap |-> 0, lock |-> 0,
   rank |-> [percentage |-> 1, trailing |-> 2, absolute |-> 3],
   requireAll |-> FALSE, resolution |-> "conservative",
   distance |-> 0, layer |-> 2, maxLayers |-> 0, maxSize |-> 16]

Strategies ==
  {[Plain EXCEPT !.entry = "next_open", !.exit = "next_close", !.pct = 2, !.stacking = "stack",
                 !.hedge = "close", !.exitFirst = TRUE],
   [Plain EXCEPT !.entry = "next_close", !.exit = "next_open", !.half = TRUE, !.stacking = "replace",
                 !.pct = 3],
   [Plain EXCEPT !.half = TRUE, !.aftermath = "lock", !.opposite = TRUE, !.pct = 3, !.gap = 2, !.lock = 2,
                 !.stopExit = "exit_has_priority", !.resolution = "priority"],
   [Plain EXCEPT !.half = TRUE, !.aftermath = "trail", !.gap = 1, !.lock = 2, !.abs = 8, !.dirs = {1},
                 !.resolution = "first", !.pct = 3, !.exit = "touch"],
   [Plain EXCEPT !.order = "limit", !.offset = -1, !.validity = 2, !.unfilled = "convert",
                 !.partial = "allowed", !.tickEntry = TRUE, !.pct = 4],
   [Plain EXCEPT !.order = "limit", !.offset = -2, !.unfilled = "reprice", !.partial = "minimum",
                 !.gap = 2, !.abs = 7, !.requireAll = TRUE, !.dirs = {1}],
   [Plain EXCEPT !.order = "limit", !.validity = 1, !.partial = "market", !.stacking = "stack"],
   [Plain EXCEPT !.order = "stop", !.activation = 1, !.distance = 2, !.maxLayers = 2, !.dirs = {1},
                 !.hedge = "close"],
   [Plain EXCEPT !.order = "stop_limit", !.activation = 1, !.validity = 1, !.stopLimitSim = TRUE,
                 !.partial = "cancel_remaining", !.dirs = {1}],
   [Plain EXCEPT !.stacking = "stack", !.gap = 4, !.lock = 3, !.dirs = {1}],
   [Plain EXCEPT !.half = TRUE, !.aftermath = "lock", !.requireAll = TRUE, !.abs = 5, !.pct = 3,
                 !.dirs = {1}],
   [Plain EXCEPT !.entry = "touch", !.exit = "touch", !.tickEntry = TRUE, !.stacking = "replace"]}

Prices ==
  {[open |-> 10, high |-> 11, low |-> 9, close |-> 10],
   [open |-> 10, high |-> 13, low |-> 10, close |-> 12],
   [open |-> 11, high |-> 12, low |-> 8, close |-> 8],
   [open |-> 7, high |-> 8, low |-> 6, close |-> 7],
   [open |-> 13, high |-> 14, low |-> 12, close |-> 13]}

Quiet == [prints |-> <<>>, signal |-> 0, exitHit |-> FALSE, blocked |-> FALSE, plan |-> 8, room |-> 16]

Decisions ==
  {Quiet, [Quiet EXCEPT !.signal = 1], [Quiet EXCEPT !.signal = -1], [Quiet EXCEPT !.exitHit = TRUE],
   [Quiet EXCEPT !.signal = 1, !.exitHit = TRUE]}

Special ==
  {[Quiet EXCEPT !.prints = <<<<9, 2>>, <<11, 0>>>>], [Quiet EXCEPT !.prints = <<<<11, 4>>, <<9, 4>>>>],
   [Quiet EXCEPT !.prints = <<<<10, 0>>>>], [Quiet EXCEPT !.prints = <<<<6, 3>>, <<14, 3>>>>],
   [Quiet EXCEPT !.plan = 0], [Quiet EXCEPT !.room = 4],
   [Quiet EXCEPT !.room = 0], [Quiet EXCEPT !.signal = 1, !.room = 12],
   [Quiet EXCEPT !.signal = 1, !.blocked = TRUE]}

BarsAround10 ==
  {p @@ d : p \in Prices, d \in Decisions}
    \cup {p @@ d : p \in {q \in Prices : q.low <= 9 /\ q.high >= 11}, d \in Special}
=============================================================================
