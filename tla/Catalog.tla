------------------------------ MODULE Catalog ------------------------------
(***************************************************************************)
(* The indicators a search may use (quanta_engine/discover/catalog.py) and *)
(* the lines they draw: each is computed from the bars, or from a line     *)
(* drawn before it.  A line is [key, source, price, scale], its data a     *)
(* series.  Labels and the checks of what a user may ask for are left out. *)
(***************************************************************************)
EXTENDS Indicators, TLC

Price == [key |-> <<"close", "">>, source |-> "price", price |-> TRUE, scale |-> "price"]

Stochastic(bars, length, smooth, signal) ==
  LET top == Highest(Column(bars, "high"), length)
      bottom == Lowest(Column(bars, "low"), length)
      raw == [i \in DOMAIN bars |->
               IF i < length THEN NaN
               ELSE IF top[i] > bottom[i]
               THEN (100 * (bars[i].close - bottom[i])) \div (top[i] - bottom[i]) ELSE 50]
      k == Dense(raw, LAMBDA v : Sma(v, smooth))
  IN  <<k, Dense(k, LAMBDA v : Sma(v, signal))>>

Cci(bars, length) ==
  LET typical == [i \in DOMAIN bars |-> (bars[i].high + bars[i].low + bars[i].close) \div 3]
      Off(w) == Total([k \in DOMAIN w |-> Abs(w[k] - Mean(w))]) \div length
  IN  Rolling(typical, length,
        LAMBDA w : IF Off(w) > 0 THEN ((Last(w) - Mean(w)) * 1000) \div (15 * Off(w)) ELSE 0)

Roc(s, length) ==
  [i \in DOMAIN s |-> IF i > length /\ Known(s[i]) /\ Known(s[i - length]) /\ s[i - length] # 0
                      THEN (100 * (s[i] - s[i - length])) \div s[i - length] ELSE NaN]

\* What an indicator draws: for each output its scale ("" is its input's) and its series.
Drawn(id, p, x, bars) ==
  CASE id = "ema" -> "ema" :> [scale |-> "", data |-> Dense(x, LAMBDA v : Ema(v, p.length))]
    [] id = "sma" -> "sma" :> [scale |-> "", data |-> Dense(x, LAMBDA v : Sma(v, p.length))]
    [] id = "bb" ->
         LET Band(k) == [scale |-> "", data |-> Dense(x, LAMBDA v : Bollinger(v, p.length, p.multiplier)[k])]
         IN  "basis" :> Band(1) @@ "upper" :> Band(2) @@ "lower" :> Band(3)
    [] id = "rsi" -> "rsi" :> [scale |-> "bounded_100", data |-> Dense(x, LAMBDA v : Rsi(v, p.length))]
    [] id = "macd" ->
         LET Line(k) == [scale |-> "centered_0",
                         data |-> Dense(x, LAMBDA v : Macd(v, p.fast, p.slow, p.signal)[k])]
         IN  "macd" :> Line(1) @@ "signal" :> Line(2)
    [] id = "roc" -> "roc" :> [scale |-> "centered_0", data |-> Dense(x, LAMBDA v : Roc(v, p.length))]
    [] id = "stoch" ->
         LET Line(k) == [scale |-> "bounded_100", data |-> Stochastic(bars, p.length, p.smooth, p.signal)[k]]
         IN  "k" :> Line(1) @@ "d" :> Line(2)
    [] id = "cci" -> "cci" :> [scale |-> "centered_100", data |-> Cci(bars, p.length)]
    [] id = "atr" -> "atr" :> [scale |-> "volatility", data |-> Atr(bars, p.length)]
    [] id = "volume" -> "volume" :> [scale |-> "volume", data |-> Column(bars, "volume")]

InputOf(built, choice) == SelectSeq(built.lines, LAMBDA l : l.key = choice.input)[1]

LineOf(choice, output, scale, input) ==
  [key |-> <<choice.key, output>>, source |-> choice.key, price |-> FALSE,
   scale |-> IF scale = "" THEN input.scale ELSE scale]

WithLines(built, choice, drawn) ==
  LET outputs == SetToSeq(DOMAIN drawn)
  IN  [lines |-> built.lines \o
         [k \in DOMAIN outputs |->
           LineOf(choice, outputs[k], drawn[outputs[k]].scale, InputOf(built, choice))],
       data |-> [key \in {<<choice.key, o>> : o \in DOMAIN drawn} |-> drawn[key[2]].data] @@ built.data]

\* One choice added to what is built: its lines, after the ones before it.
Added(built, choice, bars) ==
  WithLines(built, choice, Drawn(choice.id, choice.params, built.data[choice.input], bars))

NotBuilt == [lines |-> <<Price>>, data |-> <<>>]

Build(choices, bars) ==
  FoldLeft(LAMBDA built, choice : Added(built, choice, bars),
           [NotBuilt EXCEPT !.data = Price.key :> Column(bars, "close")], choices)
=============================================================================
