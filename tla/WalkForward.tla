---------------------------- MODULE WalkForward ----------------------------
(***************************************************************************)
(* Walk-forward analysis (quanta_engine/forward/walkforward.py): parameters*)
(* are chosen on each in-sample stretch by running the backtester on it,   *)
(* and traded on the stretch that follows.  One step per backtest.         *)
(***************************************************************************)
EXTENDS Backtester

CONSTANTS
  InSample,     \* in_sample_days, as time
  OutOfSample,  \* out_of_sample_days, as time
  MaxWindows,   \* max_windows
  MinTrades     \* MIN_TRADES_FOR_SELECTION

ASSUME WalkAssumption == InSample > 0 /\ OutOfSample > 0 /\ MaxWindows \in Nat

VARIABLE walk   \* what is analysed, and how far it has come

NoWalk == [stage |-> "none"]

(* Windows roll by the out-of-sample length while they end by `end`.       *)
BuildWindows(start, end) ==
  LET Opens(k) == start + k * OutOfSample
      fitting == {k \in 0..(MaxWindows - 1) : Opens(k) + InSample + OutOfSample <= end}
  IN  [k \in 1..Cardinality(fitting) |->
        [from |-> Opens(k - 1), test |-> Opens(k - 1) + InSample,
         to |-> Opens(k - 1) + InSample + OutOfSample]]

Slice(bars, start, end) == SelectSeq(bars, LAMBDA b : start <= b.time /\ b.time < end)

WithParams(strategy, params) == [strategy EXCEPT !.params = [n \in DOMAIN @ |->
  IF n \in DOMAIN params THEN params[n] ELSE @[n]]]

\* compute_stats: the numbers a window is judged by.
NetPercent(result) == ((Last(result.path) - InitialCapital) * 100) \div InitialCapital

Unchosen(strategy) == [selected |-> FALSE, params |-> strategy.params, score |-> 0]

\* Only a better score replaces a choice, so the first of equals is kept.
Better(best, params, result) ==
  IF Len(result.trades) < MinTrades \/ (best.selected /\ NetPercent(result) <= best.score) THEN best
  ELSE [selected |-> TRUE, params |-> params, score |-> NetPercent(result)]

\* One parameter set tried on a stretch.
Judged(best, strategy, point, bars) ==
  LET tried == WithParams(strategy, point)
  IN  Better(best, tried.params, Backtest(tried, bars))

WalkInit(strategies, grids, histories) ==
  \E s \in strategies, g \in grids, h \in histories :
    LET windows == BuildWindows(h.bars[1].time, Last(h.bars).time)
    IN  walk = [stage |-> IF windows = <<>> THEN "refused" ELSE "choosing",
                strategy |-> s, grid |-> g, bars |-> h.bars, windows |-> windows,
                k |-> 1, tried |-> 0, best |-> Unchosen(s), results |-> <<>>,
                capital |-> InitialCapital, chain |-> <<>>, efficiency |-> NaN]

Current == walk.windows[walk.k]
InBars == Slice(walk.bars, Current.from, Current.test)
OutBars == Slice(walk.bars, Current.test, Current.to)
Enough == Len(InBars) >= 2 /\ Len(OutBars) >= 2
Choosing == walk.stage = "choosing" /\ walk.k <= Len(walk.windows)

Result(net, best) ==
  [window |-> Current, selected |-> best.selected, params |-> best.params,
   fitted |-> best.score, net |-> net]

Followed(w, result) ==
  [w EXCEPT !.k = @ + 1, !.tried = 0, !.best = Unchosen(w.strategy), !.results = Append(@, result)]

SkipWindow ==
  /\ Choosing /\ ~Enough
  /\ walk' = Followed(walk, Result(0, Unchosen(walk.strategy)))

\* The next parameter set, on the in-sample stretch.
TryCandidate ==
  /\ Choosing /\ Enough
  /\ walk.tried < Len(walk.grid)
  /\ walk' = [walk EXCEPT !.tried = @ + 1,
                !.best = Judged(@, walk.strategy, walk.grid[walk.tried + 1], InBars)]

\* The curves of the windows follow each other, scaled to what the last one left.
Chained(w, curve) ==
  LET points == [j \in DOMAIN curve |-> (w.capital * curve[j]) \div curve[1]]
  IN  [w EXCEPT !.chain = @ \o points, !.capital = Last(points)]

Tested(w, result) == Chained(Followed(w, Result(NetPercent(result), w.best)), result.path)

\* The choice, or the strategy as it came, on the stretch that follows.
TestWindow ==
  /\ Choosing /\ Enough
  /\ walk.tried = Len(walk.grid)
  /\ walk' = Tested(walk, Backtest([walk.strategy EXCEPT !.params = walk.best.params], OutBars))

Report ==
  /\ walk.stage = "choosing" /\ walk.k > Len(walk.windows)
  /\ LET Sum(Of(_)) == FoldLeft(LAMBDA total, r : total + Of(r), 0, walk.results)
         fitted == Sum(LAMBDA r : r.fitted)
     IN  walk' = [walk EXCEPT !.stage = "done",
                    !.efficiency = IF fitted > 0 THEN (Sum(LAMBDA r : r.net) * 100) \div fitted ELSE NaN]

WalkNext == SkipWindow \/ TryCandidate \/ TestWindow \/ Report

-----------------------------------------------------------------------------
(* What a choice may rest on: the bars from the start of its window up to  *)
(* the last one before its test.                                           *)
Earlier(r) == SelectSeq(walk.bars, LAMBDA b : r.window.from <= b.time /\ b.time < r.window.test)

BestOf(bars) ==
  FoldLeft(LAMBDA best, point : Judged(best, walk.strategy, point, bars), Unchosen(walk.strategy), walk.grid)

ChosenBlind ==
  walk.stage = "done" => \A k \in DOMAIN walk.results :
    LET r == walk.results[k] IN
    /\ r.selected => BestOf(Earlier(r)) = [selected |-> TRUE, params |-> r.params, score |-> r.fitted]
    /\ k > 1 => walk.results[k - 1].window.to <= r.window.test
=============================================================================
