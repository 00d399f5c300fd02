----------------------------- MODULE Discovery -----------------------------
(***************************************************************************)
(* A Discover search (quanta_engine/discover): primitives are built from   *)
(* the lines of a chart, compiled to masks, joined to rules; each rule is  *)
(* screened on the first part of the history, the screen is corrected for  *)
(* the number of tests, and the survivors are scored on the rest.          *)
(*                                                                         *)
(* Labels, the order of the rules and progress reports are left out; the  *)
(* p-value, a falling function of the t statistic, takes the values PSteps *)
(* gives.                                                                  *)
(***************************************************************************)
EXTENDS Catalog

CONSTANTS
  Levels,       \* SCALE_LEVELS
  Oscillators,  \* OSCILLATOR_SCALES
  Lookbacks,    \* EXTREME_LOOKBACK, DIVERGENCE_LOOKBACK, SPREAD_LOOKBACK
  Horizons,
  MinSignals,
  MaxFilters,
  SharePercent, \* in_sample_share
  Alpha,        \* FDR_ALPHA, per thousand
  Cost,         \* cost_percent
  PSteps        \* bound: the values a p-value takes: [from (t squared), p (per thousand)]

VARIABLE search

NoSearch == [stage |-> "none"]

-----------------------------------------------------------------------------
\* primitives.py
Primitive(kind, on, way, level, subject) ==
  [kind |-> kind, on |-> on, way |-> way, level |-> level, subject |-> subject]

Triggers == {"turn", "extreme", "level_cross", "pair_cross", "divergence"}
IsTrigger(p) == p.kind \in Triggers

OfLine(l) ==
     {Primitive("slope", <<l>>, way, NaN, <<"slope", l.key>>) : way \in {"rising", "falling"}}
  \cup {Primitive("turn", <<l>>, way, NaN, <<"slope", l.key>>) : way \in {"up", "down"}}
  \cup {Primitive("extreme", <<l>>, way, NaN, <<"extreme", l.key>>) : way \in {"high", "low"}}
  \cup {Primitive(kind, <<l>>, way, level, <<"level", l.key, level>>) :
          kind \in {"level", "level_cross"}, way \in {"above", "below"}, level \in Levels[l.scale]}

OfPair(l, r) ==
     {Primitive("position", <<l, r>>, way, NaN, <<"position", l.key, r.key>>) : way \in {"above", "below"}}
  \cup {Primitive("pair_cross", <<l, r>>, way, NaN, <<"position", l.key, r.key>>) : way \in {"above", "below"}}
  \cup {Primitive("spread", <<l, r>>, way, NaN, <<"spread", l.key, r.key>>) :
          way \in {"converging", "diverging"}}

OfGroup(group) ==
  IF Len(group) < 3 THEN {}
  ELSE {Primitive("stack", order, "", NaN, <<"stack", group[1].scale>>) :
          order \in {o \in [DOMAIN group -> Range(group)] : IsInjective(o)}}

OfDivergence(l, r) ==
  {Primitive("divergence", <<l, r>>, way, NaN, <<"divergence", l.key, r.key, way>>) :
     way \in {"regular", "hidden"} \X {"bullish", "bearish"}}

BuildPrimitives(lines) ==
  LET Group(scale) == SelectSeq(lines, LAMBDA l : l.scale = scale)
      scales == {lines[k].scale : k \in DOMAIN lines}
      pairs == {p \in (DOMAIN lines) \X (DOMAIN lines) : p[1] < p[2] /\ lines[p[1]].scale = lines[p[2]].scale}
      crossing == {p \in (DOMAIN lines) \X (DOMAIN lines) :
                     /\ lines[p[1]].price /\ lines[p[1]].scale # lines[p[2]].scale
                     /\ lines[p[2]].scale \in Oscillators}
  IN  UNION {OfLine(lines[k]) : k \in DOMAIN lines}
      \cup UNION {OfPair(lines[p[1]], lines[p[2]]) : p \in pairs}
      \cup UNION {OfGroup(Group(scale)) : scale \in scales}
      \cup UNION {OfDivergence(lines[p[1]], lines[p[2]]) : p \in crossing}

-----------------------------------------------------------------------------
\* rules.py: one trigger and the filters that may go with it.
Sources(rule) == {l.source : l \in UNION {Range(p.on) : p \in {rule.trigger} \cup rule.filters}}

IndicatorSources(rule) ==
  {l.source : l \in {m \in UNION {Range(p.on) : p \in {rule.trigger} \cup rule.filters} : ~m.price}}

Compatible(items) == \A p, q \in items : p.subject = q.subject => p = q

EnumerateRules(primitives, mix, require) ==
  LET filters == {p \in primitives : ~IsTrigger(p)}
      UpTo(n, set) == UNION {{Range(f) : f \in [1..k -> set]} : k \in 0..n}
      Chosen(t) == {c \in UpTo(MaxFilters, {p \in filters : p.subject # t.subject}) : Compatible(c)}
      rules == UNION {{[trigger |-> t, filters |-> c] : c \in Chosen(t)} : t \in {p \in primitives : IsTrigger(p)}}
  IN  {r \in rules : (mix => Cardinality(IndicatorSources(r)) >= 2) /\ require \subseteq Sources(r)}

-----------------------------------------------------------------------------
\* signals.py: the bars on which a primitive holds, none while it warms up.
Ordered(way, x, y) == IF way \in {"above", "diverging", "rising", "up"} THEN x > y ELSE x < y

HoldsOnOne(p, s, i) ==
  CASE p.kind = "slope" -> (IF p.way = "rising" THEN Rising(s, 1) ELSE Falling(s, 1))[i] = 1
    [] p.kind = "turn" -> /\ i > 3
                          /\ (IF p.way = "up" THEN Falling(s, 1) ELSE Rising(s, 1))[i - 1] = 1
                          /\ (IF p.way = "up" THEN Rising(s, 1) ELSE Falling(s, 1))[i] = 1
    [] p.kind = "extreme" -> LET reference == IF p.way = "high" THEN Highest(s, Lookbacks.extreme)
                                              ELSE Lowest(s, Lookbacks.extreme)
                             IN  Known(reference[i]) /\ s[i] = reference[i]
    [] p.kind = "level" -> Known(s[i]) /\ Ordered(p.way, s[i], p.level)
    [] p.kind = "level_cross" -> LET level == [k \in DOMAIN s |-> p.level]
                                 IN  (IF p.way = "above" THEN Crossover(s, level)
                                      ELSE Crossunder(s, level))[i] = 1

Spread(s, t) == [k \in DOMAIN s |-> Both(s[k], t[k], Abs(s[k] - t[k]))]

(* Price and an oscillator at odds over a new extreme of the last bars.    *)
Diverges(way, s, t, i) ==
  LET n == Lookbacks.divergence
      Fresh(u) == IF way[2] = "bearish" THEN u[i] > Highest(u, n)[i - 1] ELSE u[i] < Lowest(u, n)[i - 1]
  IN  /\ i > n + 1 /\ Known(s[i]) /\ Known(t[i])
      /\ Known(Highest(s, n)[i - 1]) /\ Known(Highest(t, n)[i - 1])
      /\ IF way[1] = "regular" THEN Fresh(s) /\ ~Fresh(t) ELSE Fresh(t) /\ ~Fresh(s)

HoldsOnTwo(p, s, t, i) ==
  CASE p.kind = "position" -> Known(s[i]) /\ Known(t[i]) /\ Ordered(p.way, s[i], t[i])
    [] p.kind = "pair_cross" -> (IF p.way = "above" THEN Crossover(s, t) ELSE Crossunder(s, t))[i] = 1
    [] p.kind = "spread" -> /\ i > Lookbacks.spread
                            /\ Known(Spread(s, t)[i]) /\ Known(Spread(s, t)[i - Lookbacks.spread])
                            /\ Ordered(p.way, Spread(s, t)[i], Spread(s, t)[i - Lookbacks.spread])
    [] p.kind = "divergence" -> Diverges(p.way, s, t, i)

HoldsInOrder(values, i) ==
  /\ \A k \in DOMAIN values : Known(values[k][i])
  /\ \A k \in 1..(Len(values) - 1) : values[k][i] > values[k + 1][i]

CompilePrimitive(p, data, i) ==
  CASE p.kind = "stack" -> HoldsInOrder([k \in DOMAIN p.on |-> data[p.on[k].key]], i)
    [] Len(p.on) = 1 -> HoldsOnOne(p, data[p.on[1].key], i)
    [] OTHER -> HoldsOnTwo(p, data[p.on[1].key], data[p.on[2].key], i)

Masks(built, size) ==
  [p \in BuildPrimitives(built.lines) |-> {i \in 1..size : CompilePrimitive(p, built.data, i)}]

RuleMask(rule, masks) ==
  {i \in masks[rule.trigger] : \A p \in rule.filters : i \in masks[p]}

-----------------------------------------------------------------------------
\* stats.py
SplitIndex(size) == Max({1, Min({size - 1, (size * SharePercent + 50) \div 100})})

ForwardReturns(close, h) ==
  [i \in DOMAIN close |-> IF i + h \in DOMAIN close
                          THEN ((close[i + h] - close[i]) * 100) \div close[i] ELSE NaN]

PValue(tSquared) ==
  LET reached == SelectSeq(PSteps, LAMBDA s : s.from <= tSquared)
  IN  IF reached = <<>> THEN 1000 ELSE Last(reached).p

(* Overlapping windows count for n / h signals.                            *)
Score(mask, close, h, side) ==
  LET returns == ForwardReturns(close, h)
      usable == {i \in mask : Known(returns[i])}
      n == Cardinality(usable)
      Made(i) == IF side = "short" THEN -returns[i] ELSE returns[i]
      mean == MapThenSumSet(Made, usable) \div n
      spread == MapThenSumSet(LAMBDA i : (Made(i) - mean) * (Made(i) - mean), usable)
      nothing == [n |-> n, net |-> 0, p |-> 1000]
  IN  IF n < MinSignals THEN nothing
      ELSE IF spread = 0 \/ n < MinSignals * h THEN [nothing EXCEPT !.net = mean - Cost]
      ELSE [n |-> n, net |-> mean - Cost, p |-> PValue((mean * mean * (n - 1) * n) \div (spread * h))]

\* Benjamini-Hochberg: the largest p-value within its rank's share of Alpha.
Passing(tests) ==
  LET Rank(p) == Cardinality({t \in tests : t.p <= p})
      within == {p \in {t.p : t \in tests} : p * Cardinality(tests) <= Rank(p) * Alpha}
  IN  IF within = {} THEN {} ELSE {t \in tests : t.p <= Max(within)}

Screened(size) == 1..SplitIndex(size)

Tests(rule, masks, close) ==
  LET mask == RuleMask(rule, masks) \cap Screened(Len(close))
  IN  {[rule |-> rule, side |-> side, h |-> h, p |-> Score(mask, close, h, side).p] :
         side \in {"long", "short"}, h \in Horizons}

-----------------------------------------------------------------------------
(* What the screen may rest on: the bars before the split and, as returns  *)
(* look ahead, as many after it as the longest horizon.  The same chart is *)
(* screened on a history that is flat from there on.                       *)
Flattened(bars) ==
  LET seen == SplitIndex(Len(bars)) + Max(Horizons)
      flat == bars[Min({seen, Len(bars)})].close
  IN  [i \in DOMAIN bars |->
        IF i <= seen THEN bars[i]
        ELSE [bars[i] EXCEPT !.open = flat, !.high = flat, !.low = flat, !.close = flat]]

SearchInit(charts, histories) ==
  \E c \in charts, h \in histories :
    LET Screening(bars) == [bars |-> bars, built |-> NotBuilt, masks |-> <<>>, passed |-> {}]
    IN  search = [stage |-> "chosen", chart |-> c, hits |-> {},
                  main |-> Screening(h.bars), flat |-> Screening(Flattened(h.bars))]

\* A step of a search is taken on both histories.
Stepped(stage, Of(_)) ==
  search' = [search EXCEPT !.stage = stage, !.main = Of(@), !.flat = Of(@)]

BuildLines ==
  /\ search.stage = "chosen"
  /\ Stepped("built", LAMBDA s : [s EXCEPT !.built = Build(search.chart.choices, s.bars)])

Compile ==
  /\ search.stage = "built"
  /\ Stepped("compiled", LAMBDA s : [s EXCEPT !.masks = Masks(s.built, Len(s.bars))])

\* Every rule is screened, and what passes is corrected for how many there were.
Screen ==
  /\ search.stage = "compiled"
  /\ LET rules == EnumerateRules(DOMAIN search.main.masks, search.chart.mix, search.chart.require)
     IN  Stepped("screened", LAMBDA s :
           [s EXCEPT !.passed = Passing(UNION {Tests(r, s.masks, Column(s.bars, "close")) : r \in rules})])

\* Only now the held-out stretch is scored, and only for what passed.
HeldOut(t, masks, close) ==
  LET score == Score(RuleMask(t.rule, masks) \ (1..SplitIndex(Len(close))), close, t.h, t.side)
  IN  [test |-> t, net |-> score.net, n |-> score.n]

HoldOut ==
  /\ search.stage = "screened"
  /\ search' = [search EXCEPT !.stage = "done",
       !.hits = {HeldOut(t, search.main.masks, Column(search.main.bars, "close")) : t \in search.main.passed}]

SearchNext == BuildLines \/ Compile \/ Screen \/ HoldOut

-----------------------------------------------------------------------------
(* The tests that pass on the flattened history pass on the whole one, and *)
(* no others.                                                              *)
ScreenedBlind == search.stage = "done" => search.main.passed = search.flat.passed
=============================================================================
