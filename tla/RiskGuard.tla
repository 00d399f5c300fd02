------------------------------ MODULE RiskGuard ------------------------------
(***************************************************************************)
(* The arithmetic of a bot's five risk limits: what the guard remembers,   *)
(* how an observation changes it, and the verdict on an equity and on an   *)
(* order.  Amounts are integers in one unit and times are ticks since the  *)
(* epoch; a day is known by its number, which is all that comparing two    *)
(* UTC midnights tells.                                                    *)
(***************************************************************************)
LOCAL INSTANCE Integers
LOCAL INSTANCE Sequences

CONSTANTS
  Day,           \* ticks in a UTC day
  Minute         \* ticks in the order-rate window

ASSUME DayAssumption == Day \in Nat \ {0}
ASSUME MinuteAssumption == Minute \in Nat \ {0}

(* limits: [position, dailyLoss, drawdown, leverage, rate], the drawdown a *)
(* percentage.  memory: [day, dayStart, peak], the UTC day the guard is    *)
(* in, the equity it started with and the highest equity seen.  The recent *)
(* orders are a sequence of times beside it.                               *)

Greater(x, y) == IF x > y THEN x ELSE y
Lesser(x, y) == IF x < y THEN x ELSE y

DayOf(at) == at \div Day

-----------------------------------------------------------------------------
(* Damage: what an equity says on its own.                                 *)

(* Mutant: a new day keeps the equity the old one started with.             *)
ObserveKeepingDayStart(memory, equity, at) ==
  [memory EXCEPT !.day = Greater(@, DayOf(at)), !.peak = Greater(@, equity)]

(* The day rolls at the boundary, and the peak follows the equity up.      *)
Observe(memory, equity, at) ==
  [day |-> Greater(memory.day, DayOf(at)),
   dayStart |-> IF DayOf(at) > memory.day THEN equity ELSE memory.dayStart,
   peak |-> Greater(memory.peak, equity)]

LosesDay(limits, memory, equity) == memory.dayStart - equity >= limits.dailyLoss

DrawsDown(limits, memory, equity) ==
  memory.peak > 0 /\ (memory.peak - equity) * 100 >= limits.drawdown * memory.peak

(* The verdict on an equity.  The guard's memory becomes Observe(...),     *)
(* whatever the verdict.                                                   *)
CheckEquity(limits, memory, equity, at) ==
  LET seen == Observe(memory, equity, at) IN
  IF LosesDay(limits, seen, equity) THEN "daily_loss"
  ELSE IF DrawsDown(limits, seen, equity) THEN "max_drawdown"
  ELSE "ok"

(* Mutant: the daily bar measures from the peak.                           *)
DailyLossUsedFromPeak(limits, memory, equity) ==
  Lesser(100, (Greater(0, memory.peak - equity) * 100) \div limits.dailyLoss)

(* The two bars of a bot card, as whole percentages.                       *)
DailyLossUsed(limits, memory, equity) ==
  Lesser(100, (Greater(0, memory.dayStart - equity) * 100) \div limits.dailyLoss)

DrawdownUsed(limits, memory, equity) ==
  IF memory.peak <= 0 THEN 0
  ELSE Lesser(100, (Greater(0, memory.peak - equity) * 100 * 100)
                     \div (memory.peak * limits.drawdown))

-----------------------------------------------------------------------------
(* Pace: the orders of the last minute, oldest first.                      *)

(* Orders are dropped from the front while they are a minute old or more.  *)
Trim(recent, at) ==
  LET fresh == {i \in 1..Len(recent) : at - recent[i] < Minute}
      first == CHOOSE i \in fresh : \A k \in fresh : i <= k
  IN  IF fresh = {} THEN <<>> ELSE SubSeq(recent, first, Len(recent))

RecordOrder(recent, at) == Trim(Append(recent, at), at)

-----------------------------------------------------------------------------
(* The verdict on an order.                                                *)

(* Verdicts that halt the bot; the others only skip one order.             *)
Halting == {"daily_loss", "max_drawdown", "leverage_too_high"}

(* Mutants: one order too many a minute, and the room left by what is held *)
(* is forgotten.                                                           *)
TooFastByOne(limits, recent, at) == Len(Trim(recent, at)) > limits.rate
TooLargeAlone(limits, held, notional) == notional > limits.position

TooFast(limits, recent, at) == Len(Trim(recent, at)) >= limits.rate
TooLarge(limits, held, notional) == held + notional > limits.position

(* order: [reduceOnly, notional].  damage is CheckEquity's verdict on the  *)
(* equity given with the order, held the notional of the positions given   *)
(* with it.  A limit never blocks an exit.                                 *)
CheckOrder(limits, order, damage, leverage, recent, held, at) ==
  CASE order.reduceOnly                                 -> "ok"
    [] ~order.reduceOnly /\ damage # "ok"               -> damage
    [] ~order.reduceOnly /\ damage = "ok"               ->
         IF leverage > limits.leverage                  THEN "leverage_too_high"
         ELSE IF TooFast(limits, recent, at)            THEN "rate_limited"
         ELSE IF TooLarge(limits, held, order.notional) THEN "position_too_large"
         ELSE "ok"
=============================================================================
