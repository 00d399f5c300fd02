--------------------------- MODULE MCBotExecution ---------------------------
(* BotExecution on three signals and one kill, in either position mode: an   *)
(* entry, an opposite entry that may rest (in hedge mode a second position), *)
(* and an exit larger than one entry, which may rest as well.                *)
EXTENDS BotExecution

Signal(side, qty, type, reduceOnly) ==
  [side |-> side, qty |-> qty, type |-> type, reduceOnly |-> reduceOnly]

MCScript == << Signal("BUY", 1, "MARKET", FALSE),
               Signal("SELL", 1, "LIMIT", FALSE),
               Signal("SELL", 2, "LIMIT", TRUE) >>

MCReentries == <<1, 0, 0>>

MCKillSecond == [k \in Kills |-> 1]

\* Time passes in one-way mode alone: the pace of orders, which is all the
\* clock is for, does not depend on the position mode.
MCInit == Init /\ (clock = IF account.mode = "HEDGE" THEN MaxClock ELSE 0)
MCSpec == MCInit /\ [][Next]_vars
=============================================================================
