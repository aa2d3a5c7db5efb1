---------------------------- MODULE CapitalPool ----------------------------
(***************************************************************************)
(* What a pool of shared capital promises the strategies that draw on it,  *)
(* and nothing of bars, ticks, phases, intents or decisions.  A strategy   *)
(* has one position at most, opened whole and closed whole: it is never    *)
(* resized or turned.  It opens only if the capital settled at that moment *)
(* carries it together with everything open, within the strategy's sleeve  *)
(* and the exposure cap, and if it stands against nobody.  The settled     *)
(* capital moves only on account of a strategy that has a position.        *)
(***************************************************************************)
EXTENDS Integers

CONSTANTS Strategies,
          Instrument, Unknown, \* what a strategy trades, if that is known
          Price,               \* of a unit of it
          Share, Whole,        \* its part of the pool, in parts of Whole
          Pool, Reserve,       \* the capital at first, and what of it is kept back
          Plans, NoCap         \* [compound, block, cap], a cap being NoCap for none

VARIABLES plan,
          equity,   \* the settled capital
          exposure, \* the cost of all that is open
          open      \* the position of each strategy

poolVars == <<plan, equity, exposure, open>>

Closed == [dir |-> 0, size |-> 0, price |-> 0]
Cost(p) == p.price * p.size
Allocatable(e) == IF e > Reserve THEN e - Reserve ELSE 0

PoolInit ==
  /\ plan \in Plans
  /\ equity = Pool /\ exposure = 0
  /\ open = [s \in Strategies |-> Closed]

\* The pool carries it without borrowing; the sleeve and the cap are counted in units, so
\* they give way by the half unit that rounding adds.
Fits(s, p) ==
  /\ exposure + Cost(p) <= Allocatable(equity)
  /\ 2 * (Whole * Cost(p))
       <= 2 * (Allocatable(IF plan.compound THEN equity ELSE Pool) * Share[s]) + Whole * Price[s]
  /\ plan.cap # NoCap => 2 * (exposure + Cost(p)) <= 2 * plan.cap + Price[s]

MayMeet(s, q) == Instrument[s] = Instrument[q] \/ Unknown \in {Instrument[s], Instrument[q]}

\* Nobody holds the other side of what may be the same instrument.
Unopposed(s, p) ==
  plan.block => \A q \in Strategies \ {s} :
                  open[q] # Closed /\ MayMeet(s, q) => open[q].dir * p.dir # -1

Open(s) ==
  /\ open[s] = Closed
  /\ \E d \in {1, -1}, n \in 1 .. Allocatable(equity) :
       LET p == [dir |-> d, size |-> n, price |-> Price[s]]
       IN  /\ Fits(s, p) /\ Unopposed(s, p)
           /\ open' = [open EXCEPT ![s] = p]
           /\ exposure' = exposure + Cost(p)
  /\ UNCHANGED <<plan, equity>>

\* What it costs, or earns, to hold a position.
Charge(s) ==
  /\ open[s] # Closed
  /\ equity' \in Int
  /\ UNCHANGED <<plan, exposure, open>>

Close(s) ==
  /\ open[s] # Closed
  /\ open' = [open EXCEPT ![s] = Closed]
  /\ exposure' = exposure - Cost(open[s])
  /\ equity' \in Int
  /\ UNCHANGED plan

PoolNext == \E s \in Strategies : Open(s) \/ Charge(s) \/ Close(s)

PoolSpec == PoolInit /\ [][PoolNext]_poolVars
=============================================================================
