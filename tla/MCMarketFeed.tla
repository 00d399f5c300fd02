---------------------------- MODULE MCMarketFeed ----------------------------
(* Small instances of MarketFeed: pages of two bars, three bars to warm.      *)
EXTENDS MarketFeed, TLC

CONSTANTS s1, s2, s3

None == [what \in {"first", "bars", "warm", "tool", "fail", "watch", "drop", "reboot"} |-> 0]

MCBudgets == {
  \* histories that fail half-way and start again
  ("first" :> 4 @@ "bars" :> 1 @@ "warm" :> 3 @@ "fail" :> 2 @@ "reboot" :> 2) @@ None,
  ("first" :> 4 @@ "warm" :> 1 @@ "tool" :> 1 @@ "fail" :> 1) @@ None,
  ("first" :> 4 @@ "bars" :> 1 @@ "warm" :> 1 @@ "tool" :> 1) @@ None,
  \* bars streamed before and while the history is warmed
  ("first" :> 3 @@ "bars" :> 2 @@ "warm" :> 2 @@ "drop" :> 1 @@ "reboot" :> 1) @@ None,
  ("first" :> 3 @@ "bars" :> 2 @@ "warm" :> 1 @@ "watch" :> 1) @@ None,
  \* more watched than a connection takes
  ("first" :> 3 @@ "watch" :> 3 @@ "drop" :> 1 @@ "reboot" :> 1) @@ None}
=============================================================================
