----------------------------- MODULE MCPipeline -----------------------------
(* Small instances of Setups: jobs on their own, and one handler crossing    *)
(* another on a strategy, a setup and a paper session.                       *)
EXTENDS Setups

CONSTANTS j1, j2, j3, p1, p2, n1, s1

None == [what \in {"start", "dbFails", "cancel", "crash", "strategy", "delete", "backtest", "create",
                      "stage", "archive", "paper", "fill", "missed", "stop", "promote"} |-> 0]

MCPnls == {-3, 3}
MCSlips == {-2, 2}
MCLow == -10
MCLimit == -25

MCBudgets == {
  \* jobs that end early, fail to be recorded, are cancelled and restarted
  ("start" :> 3 @@ "cancel" :> 1 @@ "dbFails" :> 1) @@ None,
  ("start" :> 2 @@ "cancel" :> 1 @@ "dbFails" :> 1 @@ "crash" :> 2) @@ None,
  \* saves and runs of a strategy crossing the setup made from it
  ("strategy" :> 2 @@ "backtest" :> 1 @@ "create" :> 2 @@ "delete" :> 1) @@ None,
  \* the pipeline of one setup, and its archive
  ("create" :> 1 @@ "stage" :> 3 @@ "archive" :> 1 @@ "delete" :> 1) @@ None,
  \* fills, and promotions that cross them
  ("create" :> 1 @@ "paper" :> 1 @@ "fill" :> 3 @@ "promote" :> 1) @@ None,
  ("create" :> 1 @@ "paper" :> 1 @@ "fill" :> 1 @@ "stage" :> 1 @@ "stop" :> 1 @@ "promote" :> 1) @@ None,
  ("create" :> 1 @@ "paper" :> 1 @@ "stage" :> 1 @@ "archive" :> 1 @@ "promote" :> 2) @@ None,
  ("create" :> 1 @@ "paper" :> 1 @@ "missed" :> 2 @@ "fill" :> 1 @@ "delete" :> 1 @@ "crash" :> 1) @@ None}
=============================================================================
