----------------------------- MODULE Indicators -----------------------------
(***************************************************************************)
(* The series functions of the engine (quanta_engine/series.py).  A series *)
(* has one value per bar, a number or NaN while it warms up.               *)
(*                                                                         *)
(* Numbers are integers and a division rounds down, which keeps the order  *)
(* of what is compared; numpy's rule that NaN makes a result NaN is kept.  *)
(***************************************************************************)
EXTENDS Numbers, Functions

Unknown(s) == [i \in DOMAIN s |-> NaN]
Column(bars, name) == [i \in DOMAIN bars |-> bars[i][name]]
Window(s, i, length) == SubSeq(s, i - length + 1, i)
Complete(window) == \A x \in Range(window) : Known(x)

\* Mutant: values are moved towards the past.
ShiftBack(s, periods) ==
  [i \in DOMAIN s |-> IF i + periods \in DOMAIN s THEN s[i + periods] ELSE NaN]

Shift(s, periods) ==
  [i \in DOMAIN s |-> IF i > periods THEN s[i - periods] ELSE NaN]

\* What every rolling function does: NaN until a window is full.
Rolling(s, length, Value(_)) ==
  [i \in DOMAIN s |-> IF i < length THEN NaN ELSE Value(Window(s, i, length))]

(* nancumsum counts a NaN as nothing: the average of a window that holds   *)
(* one is a number all the same.                                           *)
Sma(s, length) ==
  Rolling(s, length, LAMBDA w : Total([k \in DOMAIN w |-> IF Known(w[k]) THEN w[k] ELSE 0]) \div length)

Mean(window) == IF Complete(window) THEN Total(window) \div Len(window) ELSE NaN

(* Seeded with the mean of the first window; each value moves the last one.*)
Smoothed(s, length, Moved(_, _)) ==
  FoldLeft(LAMBDA done, x :
             Append(done, IF Len(done) < length - 1 THEN NaN
                          ELSE IF Len(done) = length - 1 THEN Mean(Window(s, length, length))
                          ELSE Both(Last(done), x, Moved(Last(done), x))),
           <<>>, s)

Ema(s, length) ==
  Smoothed(s, length, LAMBDA last, x : (2 * x + (length - 1) * last) \div (length + 1))

Wilder(s, length) ==
  Smoothed(s, length, LAMBDA last, x : ((length - 1) * last + x) \div length)

Change(s) == [i \in 1..(Len(s) - 1) |-> Both(s[i], s[i + 1], s[i + 1] - s[i])]
Positive(x) == IF ~Known(x) THEN NaN ELSE IF x > 0 THEN x ELSE 0
Negated(x) == IF Known(x) THEN -x ELSE NaN

Rsi(s, length) ==
  LET change == Change(s)
      gain == Wilder([i \in DOMAIN change |-> Positive(change[i])], length)
      loss == Wilder([i \in DOMAIN change |-> Positive(Negated(change[i]))], length)
      Strength(i) == IF ~Known(gain[i]) THEN NaN
                     ELSE IF loss[i] = 0 THEN 100
                     ELSE (100 * gain[i]) \div (gain[i] + loss[i])
  IN  IF Len(s) <= length THEN Unknown(s)
      ELSE [i \in DOMAIN s |-> IF i = 1 THEN NaN ELSE Strength(i - 1)]

Extreme(s, length, Pick(_)) ==
  Rolling(s, length, LAMBDA w : IF Complete(w) THEN Pick(Range(w)) ELSE NaN)

Highest(s, length) == Extreme(s, length, Max)
Lowest(s, length) == Extreme(s, length, Min)

Root(v) == CHOOSE r \in 0..v : r * r <= v /\ (r + 1) * (r + 1) > v

Stdev(s, length) ==
  Rolling(s, length, LAMBDA w :
    IF Complete(w) THEN Root(Total([k \in DOMAIN w |-> (w[k] - Mean(w)) * (w[k] - Mean(w))]) \div length)
    ELSE NaN)

Abs(x) == IF x < 0 THEN -x ELSE x
Flag(holds) == IF holds THEN 1 ELSE 0

Crossover(a, b) ==
  LET before == <<Shift(a, 1), Shift(b, 1)>>
  IN  [i \in DOMAIN a |->
        Flag(/\ Known(a[i]) /\ Known(b[i]) /\ Known(before[1][i]) /\ Known(before[2][i])
             /\ before[1][i] <= before[2][i] /\ a[i] > b[i])]

Crossunder(a, b) == Crossover(b, a)

Rising(s, length) ==
  [i \in DOMAIN s |->
    Flag(\A step \in 0..(length - 1) :
           /\ Known(Shift(s, step)[i]) /\ Known(Shift(s, step + 1)[i])
           /\ Shift(s, step)[i] > Shift(s, step + 1)[i])]

Falling(s, length) == Rising([i \in DOMAIN s |-> Negated(s[i])], length)

TrueRange(bars) ==
  [i \in DOMAIN bars |->
    LET last == IF i = 1 THEN bars[1].close ELSE bars[i - 1].close
        range == bars[i].high - bars[i].low
    IN  IF i = 1 THEN range ELSE Max({range, Abs(bars[i].high - last), Abs(bars[i].low - last)})]

Atr(bars, length) == Wilder(TrueRange(bars), length)
Less(a, b) == [i \in DOMAIN a |-> Both(a[i], b[i], a[i] - b[i])]
Plus(a, b) == [i \in DOMAIN a |-> Both(a[i], b[i], a[i] + b[i])]

(* A function applied from the first known value on, NaN before it.        *)
Dense(s, Of(_)) ==
  LET known == {i \in DOMAIN s : Known(s[i])}
      start == Min(known)
      dense == Of(SubSeq(s, start, Len(s)))
  IN  IF known = {} THEN Unknown(s)
      ELSE [i \in DOMAIN s |-> IF i < start THEN NaN ELSE dense[i - start + 1]]

\* The MACD line and its signal.
Macd(s, fast, slow, signal) ==
  LET line == Less(Ema(s, fast), Ema(s, slow))
  IN  <<line, Dense(line, LAMBDA v : Ema(v, signal))>>

\* Middle, upper and lower bands.
Bollinger(s, length, multiplier) ==
  LET middle == Sma(s, length)
      width == [i \in DOMAIN s |-> LET d == Stdev(s, length)[i] IN IF Known(d) THEN multiplier * d ELSE NaN]
  IN  <<middle, Plus(middle, width), Less(middle, width)>>

=============================================================================
