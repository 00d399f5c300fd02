------------------------------ MODULE MCEngine ------------------------------
(* Small instances of the engine: backtests, walk-forward analyses and       *)
(* searches over every history of a few bar shapes.                          *)
EXTENDS WalkForward, Discovery

CONSTANTS HeldBars, TurningBars, WalkBars, SearchCycles   \* bounds: the bars of a history

vars == <<run, done, account, cut, shorter, walk, search>>

Bar(time, open, high, low, close) ==
  [time |-> time, open |-> open, high |-> high, low |-> low, close |-> close, volume |-> high - low]

\* What a bar does after a close.
Shape(name, c, t) ==
  CASE name = "up" -> Bar(t, c, c + 3, c - 1, c + 2)
    [] name = "down" -> Bar(t, c, c + 1, c - 3, c - 2)
    [] name = "swing" -> Bar(t, c, c + 6, c - 6, c)
    [] name = "crash" -> Bar(t, c - 9, c - 8, c - 11, c - 10)
    [] name = "later" -> Bar(t + BarTime, c + 1, c + 2, c - 1, c + 1)

First == Bar(0, 40, 42, 39, 41)

Bars(shapes) ==
  FoldLeft(LAMBDA bars, name : Append(bars, Shape(name, Last(bars).close, Last(bars).time + BarTime)),
           <<First>>, shapes)

Histories(names, size) == {Bars(shapes) : shapes \in [1..(size - 1) -> names]}

\* A pattern over and over, after which a search has enough signals.
Cycles(names, size) ==
  {Bars(FlattenSeq([k \in 1..size |-> pattern])) : pattern \in [1..3 -> names]}

\* The 1m bars of a bar, by which of its extremes came first, or only the first of them.
Minutes(b, order) ==
  CASE order = "none" -> <<>>
    [] order = "lowFirst" -> <<[time |-> b.time, high |-> b.open, low |-> b.low],
                               [time |-> b.time + 1, high |-> b.high, low |-> Min({b.close, b.low + 1})]>>
    [] order = "highFirst" -> <<[time |-> b.time, high |-> b.high, low |-> b.open],
                                [time |-> b.time + 1, high |-> Max({b.close, b.high - 1}), low |-> b.low]>>
    [] order = "patchy" -> <<[time |-> b.time, high |-> b.open, low |-> b.open]>>

Magnified(bars, order) == [bars |-> bars, fine |-> FlattenSeq([i \in DOMAIN bars |-> Minutes(bars[i], order)])]

-----------------------------------------------------------------------------
N(x) == [op |-> "number", value |-> x]
V(name) == [op |-> "name", name |-> name]
F(fn, args) == [op |-> "call", fn |-> fn, args |-> args]
B(left, op, right) == [op |-> op, left |-> left, right |-> right]
Not(e) == [op |-> "not", arg |-> e]

C == V("close")
Was(n) == F("shift", <<C, n>>)
Always == B(N(1), "<", N(2))
Never == B(N(1), "==", B(N(3), "%", N(2)))
NoRule == B(N(2), "<", N(1))

Exits(opposite, stop, take, even, trail, time) ==
  [opposite |-> opposite, stopAtr |-> stop, takeR |-> take, breakEvenR |-> even, trailAtr |-> trail,
   timeBars |-> time, atrLength |-> 2]

Rules(long, short, exits, cross) ==
  [long |-> long, short |-> short, exits |-> exits, cross |-> cross, params |-> [len |-> 1]]

\* Exit rules, held long or short from the start.
Held ==
  {Rules(l[1], l[2], e, FALSE) : l \in {<<Always, NoRule>>, <<NoRule, Always>>},
     e \in {Exits(FALSE, 1, 1, NaN, NaN, NaN), Exits(FALSE, 2, NaN, 1, 1, NaN), Exits(FALSE, NaN, NaN, NaN, 2, NaN)}}

\* Signals that turn, and that read every kind of expression.
Turning ==
  {Rules(B(C, ">", Was(V("len"))), B(C, "<", Was(V("len"))), Exits(TRUE, NaN, NaN, NaN, NaN, NaN), TRUE),
   Rules(F("crossover", <<C, F("sma", <<C, N(2)>>)>>), F("crossunder", <<C, N(39)>>), Exits(TRUE, 2, NaN, NaN, NaN, 2), FALSE),
   Rules(B(B(F("rsi", <<C, N(2)>>), ">", N(50)), "and", F("rising", <<C>>)), F("falling", <<C, N(2)>>),
         Exits(TRUE, NaN, NaN, NaN, NaN, 1), FALSE),
   Rules(B(C, ">", F("ema", <<V("hl2"), N(2)>>)), B(C, "<", F("shift", <<F("lowest", <<V("low"), N(2)>>)>>)),
         Exits(TRUE, NaN, NaN, NaN, NaN, NaN), FALSE),
   Rules(B(B(C, "/", B(C, "-", Was(N(1)))), ">", N(20)), B(F("stdev", <<C, N(2)>>), ">=", N(2)),
         Exits(FALSE, NaN, NaN, NaN, NaN, 2), FALSE),
   Rules(B(F("max", <<C, Was(N(2))>>), ">", F("min", <<V("open"), F("highest", <<V("high"), N(3)>>)>>)),
         B(F("abs", <<[op |-> "minus", arg |-> B(C, "*", N(2))]>>), "<=", B(Was(N(1)), "+", C)),
         Exits(TRUE, 1, 2, NaN, NaN, NaN), FALSE),
   Rules(B(Was(N(2)), "and", B(C, ">", V("open"))), B(F("stdev", <<C, N(3)>>), "or", B(C, "<", V("low"))),
         Exits(FALSE, NaN, NaN, NaN, NaN, 1), FALSE),
   \* the ones that are true of bars they have not seen
   Rules(Not(B(C, "<", F("sma", <<C, N(3)>>))), B(C, "!=", Was(N(2))), Exits(TRUE, NaN, NaN, NaN, NaN, NaN), FALSE),
   Rules(B(C, ">", F("sma", <<Was(N(2)), N(2)>>)), Never, Exits(FALSE, NaN, NaN, NaN, NaN, 1), FALSE)}

Grid == <<[len |-> 1], [len |-> 2]>>

Choice(key, id, input, params) == [key |-> key, id |-> id, input |-> input, params |-> params]

Charts == {
  [choices |-> <<Choice("i1", "sma", Price.key, [length |-> 2])>>, mix |-> FALSE, require |-> {}],
  [choices |-> <<Choice("i1", "rsi", Price.key, [length |-> 2]), Choice("i2", "ema", <<"i1", "rsi">>, [length |-> 2])>>,
   mix |-> TRUE, require |-> {"i1", "i2"}],
  [choices |-> <<Choice("i1", "bb", Price.key, [length |-> 2, multiplier |-> 1])>>, mix |-> FALSE, require |-> {"i1"}],
  [choices |-> <<Choice("i1", "macd", Price.key, [fast |-> 1, slow |-> 2, signal |-> 2]),
                 Choice("i2", "roc", Price.key, [length |-> 1])>>, mix |-> TRUE, require |-> {"i1", "i2"}],
  [choices |-> <<Choice("i1", "stoch", Price.key, [length |-> 2, smooth |-> 1, signal |-> 2]),
                 Choice("i2", "cci", Price.key, [length |-> 2])>>,
   mix |-> TRUE, require |-> {"i1", "i2"}],
  [choices |-> <<Choice("i1", "atr", Price.key, [length |-> 2]), Choice("i2", "volume", Price.key, [length |-> 1])>>,
   mix |-> TRUE, require |-> {}]}

MCTiers == <<[from |-> 0, to |-> 3000, rate |-> 5, amount |-> 0], [from |-> 3000, to |-> Inf, rate |-> 25, amount |-> 60]>>
MCRates == 4 :> 10 @@ 8 :> -5
MCLevels == [s \in {"price", "bounded_100", "centered_0", "centered_100", "volatility", "volume"} |->
  CASE s = "bounded_100" -> {50} [] s = "centered_0" -> {0} [] s = "centered_100" -> {100} [] OTHER -> {}]
MCLookbacks == [extreme |-> 3, divergence |-> 3, spread |-> 2]
MCPSteps == <<[from |-> 1, p |-> 317], [from |-> 4, p |-> 45], [from |-> 9, p |-> 3], [from |-> 25, p |-> 0]>>

-----------------------------------------------------------------------------
IdleBacktest ==
  /\ run = [bars |-> <<>>] /\ cut = [bars |-> <<>>]
  /\ done = 1 /\ account = StartingAccount /\ shorter = StartingAccount

MCBacktests ==
  \/ BacktestInit(Held, {Magnified(h, order) : h \in Histories({"up", "down", "swing", "crash"}, HeldBars),
                                               order \in {"none", "lowFirst", "highFirst", "patchy"}})
  \/ BacktestInit(Turning, {Magnified(h, "none") : h \in Histories({"up", "down", "later", "crash"}, TurningBars)})

Init ==
  \/ MCBacktests /\ walk = NoWalk /\ search = NoSearch
  \/ /\ IdleBacktest /\ search = NoSearch
     /\ WalkInit(Turning, {Grid}, {[bars |-> h] : h \in UNION {Histories({"up", "down", "later"}, size) : size \in {4, WalkBars}}})
  \/ /\ IdleBacktest /\ walk = NoWalk
     /\ SearchInit(Charts, {[bars |-> h] : h \in Cycles({"up", "down", "later"}, SearchCycles)})

Next ==
  \/ (NextBar \/ EndOfData) /\ UNCHANGED <<walk, search>>
  \/ WalkNext /\ UNCHANGED <<backtestVars, search>>
  \/ SearchNext /\ UNCHANGED <<backtestVars, walk>>

Spec == Init /\ [][Next]_vars

(* Nothing rests on what comes after it: an account on bars before the     *)
(* last, the parameters of a window on bars before its test, and a screen  *)
(* on bars before the split and its horizons (the docstrings of engine.py, *)
(* walkforward.py and search.py).                                          *)
NoLookahead == FollowsThePast /\ ChosenBlind /\ ScreenedBlind
=============================================================================
