------------------------------- MODULE BarLoop -------------------------------
(***************************************************************************)
(* The bar loop of the backtest engine (quanta_engine/backtest/engine.py): *)
(* one pass over the bars of a history, one step per bar, whatever its     *)
(* signals are.  A step fills what the last bar's close queued, moves and  *)
(* tests the exit levels, pays funding, takes the signals, which fill at   *)
(* the next open, and marks to market.                                     *)
(*                                                                         *)
(* Prices and money are integers.  Slippage is a number of ticks, rates    *)
(* are per thousand and a division rounds down.                            *)
(***************************************************************************)
EXTENDS Numbers

CONSTANTS
  InitialCapital,        \* initial_capital
  MarginPercent,  \* margin_percent
  Leverage,       \* leverage
  Fee,            \* entry_fee_rate and exit_fee_rate, per thousand
  Slip,           \* slippage_bps, as ticks of price
  Tiers,          \* the maintenance ladder: [from, to, rate (per thousand), amount]
  FundingEvery,   \* FUNDING_INTERVAL_MS
  Rates,          \* time -> funding rate, per thousand; an absent time has none
  BarTime         \* the time from one bar to the next

ASSUME BacktestAssumption ==
  /\ InitialCapital \in Nat \ {0} /\ MarginPercent \in 1..100 /\ Leverage \in Nat \ {0} /\ Slip \in Nat
  /\ Fee \in Int /\ FundingEvery \in Nat \ {0} /\ BarTime \in Nat \ {0}
  /\ Tiers \in Seq([from : Int, to : Int, rate : Int, amount : Int]) /\ Len(Tiers) > 0
  /\ \A t \in DOMAIN Rates : Rates[t] \in Int

VARIABLES
  run,      \* what is tested: strategy, bars, magnifier, and the signals read
  done,     \* how many bars are done
  account,  \* equity, what is pending, the position, the trades, the curve
  cut,      \* history: the same run without its last bar
  shorter   \* history: and the account it keeps

backtestVars == <<run, done, account, cut, shorter>>

-----------------------------------------------------------------------------
(* What there is to run: bars whose prices lie in their range, the 1m bars *)
(* inside them if they are loaded, a signal of each side and the ATR at    *)
(* each bar, and exit rules as ExitRules takes them.                       *)
Candle == [time : Int, open : Int, high : Int, low : Int, close : Int, volume : Int]
Minute1 == [time : Int, high : Int, low : Int]
Given(set) == set \cup {NaN}

WellFormed(bar) == bar.open \in bar.low..bar.high /\ bar.close \in bar.low..bar.high

IsRun(r) ==
  LET exits == r.strategy.exits IN
  /\ r.bars \in Seq(Candle) /\ \A i \in DOMAIN r.bars : WellFormed(r.bars[i])
  /\ r.fine \in Seq(Minute1) /\ \A k \in DOMAIN r.fine : r.fine[k].low <= r.fine[k].high
  /\ r.longs \in [DOMAIN r.bars -> BOOLEAN] /\ r.shorts \in [DOMAIN r.bars -> BOOLEAN]
  /\ r.atr \in [DOMAIN r.bars -> Given(Nat)]
  /\ exits.stopAtr \in Given(Nat) /\ exits.takeR \in Given(Nat) /\ exits.trailAtr \in Given(Int)
  /\ exits.breakEvenR \in Given(Int) /\ exits.timeBars \in Given(Int)

\* The same run before its last bar was there.
Shortened(r) ==
  [strategy |-> r.strategy, bars |-> Front(r.bars), fine |-> r.fine,
   longs |-> Front(r.longs), shorts |-> Front(r.shorts), atr |-> Front(r.atr)]

-----------------------------------------------------------------------------
NoPosition == [side |-> "none"]
NoExit == [reason |-> "none", price |-> NaN]
Signed(side, x) == IF side = "long" THEN x ELSE -x
Slipped(price, buying) == IF buying THEN price + Slip ELSE price - Slip

StartingAccount == [equity |-> InitialCapital, pending |-> "none", position |-> NoPosition, trades |-> <<>>, path |-> <<>>]

-----------------------------------------------------------------------------
(* liquidation.py: the tier of a notional, and where equity falls to the   *)
(* maintenance margin.                                                     *)
TierOf(notional) ==
  LET fitting == {k \in DOMAIN Tiers : Tiers[k].from <= notional /\ notional < Tiers[k].to}
  IN  Tiers[IF fitting = {} THEN Len(Tiers) ELSE Min(fitting)]

Maintenance(notional) ==
  (notional * TierOf(notional).rate) \div 1000 - TierOf(notional).amount

LiquidationPrice(side, entry, quantity, backing) ==
  LET cushion == (backing - Maintenance(entry * quantity)) \div quantity
  IN  IF side = "long" THEN Max({entry - cushion, 0})
      ELSE IF entry + cushion > 0 THEN entry + cushion ELSE Inf

-----------------------------------------------------------------------------
Position(r, side, i, equity) ==
  LET exits == r.strategy.exits
      entry == Slipped(r.bars[i].open, side = "long")
      margin == (equity * MarginPercent) \div 100
      quantity == IF entry > 0 THEN (margin * Leverage) \div entry ELSE 0
      atr == IF i = 1 THEN NaN ELSE r.atr[i - 1]
      risk == IF Known(exits.stopAtr) /\ Known(atr) THEN atr * exits.stopAtr ELSE 0
      stopped == Known(exits.stopAtr) /\ Known(atr)
  IN  [side |-> side, entryAt |-> i, entry |-> entry, margin |-> margin, quantity |-> quantity,
       liquidation |-> IF quantity > 0
                       THEN LiquidationPrice(side, entry, quantity,
                                             IF r.strategy.cross THEN equity ELSE margin)
                       ELSE 0,
       fee |-> (margin * Leverage * Fee) \div 1000,
       paid |-> 0,
       nextFunding |-> (r.bars[i].time \div FundingEvery + 1) * FundingEvery,
       peak |-> entry, risk |-> risk, armed |-> FALSE,
       stop |-> IF stopped THEN entry - Signed(side, risk) ELSE NaN,
       take |-> IF stopped /\ Known(exits.takeR) THEN entry + Signed(side, risk * exits.takeR) ELSE NaN,
       runUp |-> 0, drawdown |-> 0]

\* 1. What the last close queued fills at this open.
Opened(r, a, i) ==
  IF a.pending # "none" /\ a.position = NoPosition
  THEN [a EXCEPT !.pending = "none", !.position = Position(r, a.pending, i, a.equity)]
  ELSE a

-----------------------------------------------------------------------------
Peaked(p, bar) ==
  [p EXCEPT !.peak = IF p.side = "long" THEN Max({@, bar.high}) ELSE Min({@, bar.low})]

Tighter(side, x, y) == IF side = "long" THEN Max({x, y}) ELSE Min({x, y})

BreakEven(exits, p) ==
  IF /\ Known(exits.breakEvenR) /\ p.risk > 0 /\ ~p.armed
     /\ Signed(p.side, p.peak - p.entry) >= p.risk * exits.breakEvenR
  THEN [p EXCEPT !.stop = p.entry, !.armed = TRUE]
  ELSE p

\* Mutant: the stop follows the peak at the distance of the day.
TrailedFreely(exits, p, atr) ==
  IF Known(exits.trailAtr) /\ Known(atr)
  THEN [p EXCEPT !.stop = p.peak - Signed(p.side, atr * exits.trailAtr)]
  ELSE p

Trailed(exits, p, atr) ==
  IF Known(exits.trailAtr) /\ Known(atr)
  THEN LET candidate == p.peak - Signed(p.side, atr * exits.trailAtr)
       IN  [p EXCEPT !.stop = IF Known(@) THEN Tighter(p.side, @, candidate) ELSE candidate]
  ELSE p

\* _update_position: the levels follow this bar before this bar tests them.
UpdatedPosition(r, p, i) ==
  Trailed(r.strategy.exits, BreakEven(r.strategy.exits, Peaked(p, r.bars[i])), r.atr[i])

Above(level, range) == Known(level) /\ range.high >= level
Below(level, range) == Known(level) /\ range.low <= level

LiquidationHit(p, range) ==
  IF p.side = "long" THEN p.liquidation > 0 /\ range.low <= p.liquidation
  ELSE p.liquidation < Inf /\ range.high >= p.liquidation

StopHit(p, range) == IF p.side = "long" THEN Below(p.stop, range) ELSE Above(p.stop, range)
TakeHit(p, range) == IF p.side = "long" THEN Above(p.take, range) ELSE Below(p.take, range)

\* Mutant: the better exit is assumed to come first.
ExitInBest(p, range) ==
  IF TakeHit(p, range) THEN [reason |-> "take_profit", price |-> p.take]
  ELSE IF LiquidationHit(p, range) THEN [reason |-> "liquidation", price |-> p.liquidation]
  ELSE IF StopHit(p, range) THEN [reason |-> "stop_loss", price |-> p.stop]
  ELSE NoExit

\* The first exit inside one range of prices, the worst one if it holds two.
ExitIn(p, range) ==
  IF LiquidationHit(p, range) THEN [reason |-> "liquidation", price |-> p.liquidation]
  ELSE IF StopHit(p, range) THEN [reason |-> "stop_loss", price |-> p.stop]
  ELSE IF TakeHit(p, range) THEN [reason |-> "take_profit", price |-> p.take]
  ELSE NoExit

\* The first exit on a way through some of the ranges.
Walked(p, ranges, some) ==
  LET hits == {k \in some : ExitIn(p, ranges[k]) # NoExit}
  IN  IF hits = {} THEN NoExit ELSE ExitIn(p, ranges[Min(hits)])

EndOf(bars, i) == IF i < Len(bars) THEN bars[i + 1].time ELSE bars[i].time + 1

\* _resolve_intrabar: the 1m bars inside this one, or the bar itself.
Resolved(r, p, i) ==
  LET inside == {k \in DOMAIN r.fine : r.bars[i].time <= r.fine[k].time /\ r.fine[k].time < EndOf(r.bars, i)}
  IN  IF inside = {} THEN ExitIn(p, r.bars[i]) ELSE Walked(p, r.fine, inside)

-----------------------------------------------------------------------------
Closed(r, a, i, price, reason) ==
  LET p == a.position
      exit == IF reason = "liquidation" THEN price ELSE Slipped(price, p.side = "short")
      gross == Signed(p.side, (exit - p.entry) * p.quantity)
      made == gross - p.fee - (exit * p.quantity * Fee) \div 1000 - p.paid
      backing == IF r.strategy.cross THEN a.equity ELSE p.margin
      net == IF reason = "liquidation" THEN Max({made, -backing}) ELSE made
  IN  [a EXCEPT !.equity = @ + net, !.position = NoPosition,
         !.trades = Append(@, [side |-> p.side, entryAt |-> p.entryAt, exitAt |-> i,
                               exit |-> exit, reason |-> reason, net |-> net,
                               runUp |-> p.runUp, drawdown |-> p.drawdown])]

\* Every settlement of this bar is paid at the bar's close.
Funded(r, p, i) ==
  LET end == EndOf(r.bars, i)
      due == IF p.nextFunding < end THEN (end - 1 - p.nextFunding) \div FundingEvery + 1 ELSE 0
      Settles(k) == p.nextFunding + (k - 1) * FundingEvery
      charges == [k \in 1..due |->
                   IF Settles(k) >= r.bars[i].time /\ Settles(k) \in DOMAIN Rates
                   THEN (r.bars[i].close * p.quantity * Rates[Settles(k)]) \div 1000 ELSE 0]
  IN  [p EXCEPT !.nextFunding = @ + FundingEvery * due, !.paid = @ + Signed(p.side, Total(charges))]

Tracked(p, bar) ==
  LET best == Signed(p.side, (IF p.side = "long" THEN bar.high ELSE bar.low) - p.entry) * p.quantity
      worst == Signed(p.side, (IF p.side = "long" THEN bar.low ELSE bar.high) - p.entry) * p.quantity
  IN  [p EXCEPT !.runUp = Max({@, best}), !.drawdown = Min({@, worst})]

\* 2. The open position within this bar.
Managed(r, a, i) ==
  IF a.position = NoPosition THEN a
  ELSE LET p == UpdatedPosition(r, a.position, i)
           hit == Resolved(r, p, i)
       IN  IF hit # NoExit
           THEN Closed(r, [a EXCEPT !.position = p], i, hit.price, hit.reason)
           ELSE [a EXCEPT !.position = Tracked(Funded(r, p, i), r.bars[i])]

SignalExit(r, p, i) ==
  LET exits == r.strategy.exits IN
  IF Known(exits.timeBars) /\ i - p.entryAt >= exits.timeBars THEN "time_exit"
  ELSE IF exits.opposite /\ (IF p.side = "long" THEN r.shorts[i] ELSE r.longs[i])
  THEN "opposite_signal" ELSE "none"

Wanted(r, i) == IF r.longs[i] THEN "long" ELSE IF r.shorts[i] THEN "short" ELSE "none"

\* 3. The signals of this close fill at the next open, an exit among them.
Signalled(r, a, i) ==
  IF a.position # NoPosition
  THEN LET reason == SignalExit(r, a.position, i)
           closed == Closed(r, a, i + 1, r.bars[i + 1].open, reason)
       IN  IF reason = "none" \/ i = Len(r.bars) THEN a
           ELSE IF reason = "opposite_signal" THEN [closed EXCEPT !.pending = Wanted(r, i)]
           ELSE closed
  ELSE IF a.pending = "none" THEN [a EXCEPT !.pending = Wanted(r, i)]
  ELSE a

\* 4. Mark to market.
Marked(r, a, i) ==
  LET p == a.position
      open == IF p = NoPosition THEN 0 ELSE Signed(p.side, (r.bars[i].close - p.entry) * p.quantity)
  IN  [a EXCEPT !.path = Append(@, a.equity + open)]

BarDone(r, a, i) == Marked(r, Signalled(r, Managed(r, Opened(r, a, i), i), i), i)

\* What is still open after the last bar closes at its close.
ClosedAtEnd(r, a) ==
  LET n == Len(r.bars)
      closed == Closed(r, a, n, r.bars[n].close, "end_of_data")
  IN  IF a.position = NoPosition THEN a ELSE [closed EXCEPT !.path[n] = closed.equity]

-----------------------------------------------------------------------------
LoopInit ==
  /\ IsRun(run) /\ cut = Shortened(run)
  /\ done = 0
  /\ account = StartingAccount
  /\ shorter = StartingAccount

NextBar ==
  /\ done < Len(run.bars)
  /\ done' = done + 1
  /\ account' = BarDone(run, account, done + 1)
  /\ shorter' = IF done' < Len(cut.bars) THEN BarDone(cut, shorter, done + 1) ELSE shorter
  /\ UNCHANGED <<run, cut>>

EndOfData ==
  /\ done = Len(run.bars)
  /\ done' = done + 1
  /\ account' = ClosedAtEnd(run, account)
  /\ UNCHANGED <<run, cut, shorter>>

LoopNext == NextBar \/ EndOfData

LoopSpec == LoopInit /\ [][LoopNext]_backtestVars

-----------------------------------------------------------------------------
(* What is known at a bar: the run without its last bar reads the same     *)
(* signals and the same ATR, keeps the same account as long as the last    *)
(* bar is not the next one, at whose open an exit fills, and opens the     *)
(* same positions.                                                         *)
FollowsThePast ==
  /\ done = 0 => IsRun(run) /\ cut = Shortened(run)
  /\ done < Len(cut.bars) => /\ shorter = account
                             /\ Opened(cut, shorter, done + 1) = Opened(run, account, done + 1)

Paths(b) == {<<b.open, b.low, b.high, b.close>>, <<b.open, b.high, b.low, b.close>>}

Legs(path) ==
  [k \in 1..(Len(path) - 1) |-> [high |-> Max({path[k], path[k + 1]}), low |-> Min({path[k], path[k + 1]})]]

(* Without 1m bars the exit of a bar is no better than on any path the     *)
(* price may have taken through it, walked with the levels that stood when *)
(* the bar opened -- unless the bar itself has moved the stop, which then  *)
(* tests prices from before the move (the docstring of engine.py: an       *)
(* optimistic guess is indistinguishable from a profitable strategy).      *)
CoarseIsWorst ==
  LET i == done + 1
      p == Opened(run, account, i).position
      moved == UpdatedPosition(run, p, i)
      coarse == ExitIn(moved, run.bars[i])
  IN  i <= Len(run.bars) /\ p # NoPosition /\ moved.stop = p.stop =>
        \A path \in Paths(run.bars[i]) :
          LET real == Walked(p, Legs(path), 1..3)
          IN  real # NoExit => /\ coarse # NoExit
                               /\ Signed(p.side, coarse.price) <= Signed(p.side, real.price)

(* A stop moves only in the trade's favour, but for the step that arms     *)
(* break-even, which sets it to the entry wherever it was (the comment of  *)
(* _update_position: a trailing stop only ever moves in the trade's favour)*)
StopNeverLoosens ==
  [][LET p == account.position
         q == account'.position
     IN  p # NoPosition /\ q # NoPosition /\ Known(p.stop) =>
           \/ q.entryAt # p.entryAt
           \/ Known(q.stop) /\ Signed(p.side, q.stop) >= Signed(p.side, p.stop)
           \/ q.armed /\ ~p.armed]_account
=============================================================================
