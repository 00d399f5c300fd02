----------------------------- MODULE Backtester -----------------------------
(***************************************************************************)
(* A backtest: the bar loop over the signals of a strategy's rules, and    *)
(* the run the other parts of the engine call.                             *)
(***************************************************************************)
EXTENDS BarLoop, Expressions

(* Signals of every bar, and the ATR if an exit rule needs it.             *)
Prepared(strategy, bars, fine) ==
  LET context == Context(bars, strategy.params)
      exits == strategy.exits
  IN  [strategy |-> strategy, bars |-> bars, fine |-> fine,
       longs |-> Signal(strategy.long, context),
       shorts |-> Signal(strategy.short, context),
       atr |-> IF Known(exits.stopAtr) \/ Known(exits.trailAtr)
               THEN Atr(bars, exits.atrLength) ELSE Unknown(bars)]

\* A whole run, as the other parts of the engine call it.
Backtest(strategy, bars) ==
  LET r == Prepared(strategy, bars, <<>>)
  IN  ClosedAtEnd(r, FoldLeft(LAMBDA a, i : BarDone(r, a, i), StartingAccount, [i \in DOMAIN bars |-> i]))

BacktestInit(strategies, histories) ==
  /\ \E s \in strategies, h \in histories :
       /\ run = Prepared(s, h.bars, h.fine)
       /\ cut = Prepared(s, Front(h.bars), h.fine)
  /\ done = 0
  /\ account = StartingAccount
  /\ shorter = StartingAccount

-----------------------------------------------------------------------------
(* A signal is true only of a bar whose history its expression has seen,   *)
(* unless it is of one of the three forms Blind names (the docstring of    *)
(* series.py: warm-up periods are NaN, never a partial value).             *)
SignalsAreFounded ==
  done = 0 =>
    LET params == run.strategy.params
        context == Context(run.bars, params)
    IN  \A i \in DOMAIN run.bars :
          /\ run.longs[i] => Blind(run.strategy.long, params) \/ Founded(run.strategy.long, context, i)
          /\ run.shorts[i] => Blind(run.strategy.short, params) \/ Founded(run.strategy.short, context, i)
=============================================================================
