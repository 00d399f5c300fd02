---------------------------- MODULE Expressions ----------------------------
(***************************************************************************)
(* The strategy language after parsing: the evaluator of dsl/evaluator.py  *)
(* over the trees of dsl/nodes.py.                                         *)
(*                                                                         *)
(* A value is a series, or a constant repeated for every bar; true and     *)
(* false are 1 and 0, as arithmetic takes them.  The budget of nodes, bars *)
(* and seconds, and the expressions that raise (an unknown name, a length  *)
(* that is no positive whole number), are left out.                        *)
(***************************************************************************)
EXTENDS Indicators

Orders == {"<", "<=", ">", ">=", "=="}
Arithmetic == {"+", "-", "*", "/", "%"}

Named(series) == [constant |-> FALSE, at |-> series]
Repeated(x, size) == [constant |-> TRUE, at |-> [i \in 1..size |-> x]]
Number(v) == v.at[1]

Context(bars, params) == [
  series |-> [name \in {"open", "high", "low", "close", "hl2"} |->
               IF name = "hl2" THEN [i \in DOMAIN bars |-> (bars[i].high + bars[i].low) \div 2]
               ELSE Column(bars, name)],
  params |-> params,
  size |-> Len(bars)]

Lookup(context, name) ==
  IF name \in DOMAIN context.series THEN Named(context.series[name])
  ELSE Repeated(context.params[name], context.size)

\* Mutant: anything but a zero is true.
TruthOfNumber(constant, x) == x # 0

(* NaN is false on a bar of a series, and true as a constant.              *)
Truth(constant, x) == x # 0 /\ (constant \/ Known(x))

Quotient(x, y) ==
  IF y # 0 THEN x \div y
  ELSE IF x = 0 THEN NaN ELSE IF x > 0 THEN Inf ELSE -Inf

Remainder(x, y) == IF y = 0 THEN NaN ELSE IF y > 0 THEN x % y ELSE -((-x) % (-y))

Computed(op, x, y) ==
  CASE op = "+" -> x + y
    [] op = "-" -> x - y
    [] op = "*" -> x * y
    [] op = "/" -> Quotient(x, y)
    [] op = "%" -> Remainder(x, y)

Compared(op, x, y) ==
  CASE op = "<" -> x < y
    [] op = "<=" -> x <= y
    [] op = ">" -> x > y
    [] op = ">=" -> x >= y
    [] op = "==" -> x = y

\* One bar of _eval_binary; a comparison with NaN is false, but for "!=".
Binary(op, l, x, r, y) ==
  CASE op = "and" -> Flag(Truth(l, x) /\ Truth(r, y))
    [] op = "or" -> Flag(Truth(l, x) \/ Truth(r, y))
    [] op = "!=" -> Flag(~Known(x) \/ ~Known(y) \/ x # y)
    [] op \in Orders -> IF Known(x) /\ Known(y) THEN Flag(Compared(op, x, y)) ELSE 0
    [] op \in Arithmetic -> Both(x, y, Computed(op, x, y))

\* A length, or the default of a function that has one.
Length(args, default) == IF Len(args) = 2 THEN Number(args[2]) ELSE default

Rolled(fn, args) ==
  LET s == args[1].at IN
  CASE fn = "sma" -> Sma(s, Number(args[2]))
    [] fn = "ema" -> Ema(s, Number(args[2]))
    [] fn = "rsi" -> Rsi(s, Length(args, 14))
    [] fn = "highest" -> Highest(s, Number(args[2]))
    [] fn = "lowest" -> Lowest(s, Number(args[2]))
    [] fn = "stdev" -> Stdev(s, Number(args[2]))
    [] fn = "shift" -> Shift(s, Length(args, 1))
    [] fn = "rising" -> Rising(s, Length(args, 1))
    [] fn = "falling" -> Falling(s, Length(args, 1))
    [] fn = "crossover" -> Crossover(s, args[2].at)
    [] fn = "crossunder" -> Crossunder(s, args[2].at)

OneBar(fn, x, y) ==
  CASE fn = "abs" -> IF Known(x) THEN Abs(x) ELSE NaN
    [] fn = "min" -> Both(x, y, Min({x, y}))
    [] fn = "max" -> Both(x, y, Max({x, y}))

Called(fn, args) ==
  IF fn \in {"abs", "min", "max"}
  THEN [constant |-> \A k \in DOMAIN args : args[k].constant,
        at |-> [i \in DOMAIN args[1].at |-> OneBar(fn, args[1].at[i], Last(args).at[i])]]
  ELSE Named(Rolled(fn, args))

RECURSIVE Eval(_, _)
Eval(e, context) ==
  CASE e.op = "number" -> Repeated(e.value, context.size)
    [] e.op = "name" -> Lookup(context, e.name)
    [] e.op = "call" -> Called(e.fn, [k \in DOMAIN e.args |-> Eval(e.args[k], context)])
    [] e.op = "minus" ->
         LET v == Eval(e.arg, context) IN [v EXCEPT !.at = [i \in DOMAIN @ |-> Negated(@[i])]]
    [] e.op = "not" ->
         LET v == Eval(e.arg, context)
         IN  [v EXCEPT !.at = [i \in DOMAIN @ |-> Flag(~Truth(v.constant, @[i]))]]
    [] OTHER ->
         LET l == Eval(e.left, context)
             r == Eval(e.right, context)
         IN  [constant |-> l.constant /\ r.constant,
              at |-> [i \in 1..context.size |-> Binary(e.op, l.constant, l.at[i], r.constant, r.at[i])]]

\* evaluate_bool: one truth value per bar.
Signal(e, context) ==
  LET v == Eval(e, context) IN [i \in 1..context.size |-> Truth(v.constant, v.at[i])]

-----------------------------------------------------------------------------
(* What a signal may rest on, said without NaN: the bars an expression     *)
(* needs before this one, and whether a true value has had them.           *)
RECURSIVE Lookback(_, _)
Lookback(e, params) ==
  CASE e.op \in {"number", "name"} -> 0
    [] e.op \in {"not", "minus"} -> Lookback(e.arg, params)
    [] e.op = "call" ->
         LET length == IF Len(e.args) < 2 THEN 1
                       ELSE IF e.args[2].op = "number" THEN e.args[2].value
                       ELSE IF e.args[2].op = "name" /\ e.args[2].name \in DOMAIN params
                       THEN params[e.args[2].name] ELSE 0
             own == CASE e.fn \in {"sma", "ema", "highest", "lowest", "stdev"} -> length - 1
                      [] e.fn \in {"rsi", "shift", "rising", "falling"} -> length
                      [] e.fn \in {"crossover", "crossunder"} -> 1
                      [] OTHER -> 0
         IN  own + Max({Lookback(e.args[k], params) : k \in DOMAIN e.args})
    [] OTHER -> Max({Lookback(e.left, params), Lookback(e.right, params)})

RECURSIVE Founded(_, _, _)
Founded(e, context, i) ==
  CASE e.op = "or" -> \/ Signal(e.left, context)[i] /\ Founded(e.left, context, i)
                      \/ Signal(e.right, context)[i] /\ Founded(e.right, context, i)
    [] e.op = "and" -> Founded(e.left, context, i) /\ Founded(e.right, context, i)
    [] OTHER -> i > Lookback(e, context.params)

(* The three forms that are true of bars they have not seen: a denial, an  *)
(* inequality, and an average of something that is itself warming up.      *)
RECURSIVE Blind(_, _)
Blind(e, params) ==
  CASE e.op \in {"number", "name"} -> FALSE
    [] e.op = "not" -> TRUE
    [] e.op = "minus" -> Blind(e.arg, params)
    [] e.op = "call" -> \/ e.fn = "sma" /\ Lookback(e.args[1], params) > 0
                        \/ \E k \in DOMAIN e.args : Blind(e.args[k], params)
    [] OTHER -> e.op = "!=" \/ Blind(e.left, params) \/ Blind(e.right, params)
=============================================================================
