----------------------------- MODULE MCDelivery -----------------------------
(* Small instances of Alerts: two alerts sent directly, and one alert sent   *)
(* through two tunnels that fail, are switched, deleted, tested and rerouted. *)
EXTENDS Alerts, TLC

CONSTANTS t1, t2, d1, d2, d3, a1, a2

Alike == Permutations(TunnelIds) \cup Permutations(Dests \ Unwired)

None == [what \in {"direct", "bars", "noStart", "dies", "markEnds", "switch", "delete", "route", "test",
                   "restart", "update", "deleteAlert", "testSend"} |-> 0]

MCBudgets == {
  ("direct" :> 1 @@ "bars" :> 2) @@ None,
  ("direct" :> 1 @@ "bars" :> 1 @@ "deleteAlert" :> 1) @@ None,
  ("direct" :> 1 @@ "bars" :> 1 @@ "restart" :> 1) @@ None,
  ("direct" :> 1 @@ "bars" :> 1 @@ "update" :> 1) @@ None,
  ("bars" :> 1 @@ "dies" :> 1 @@ "noStart" :> 1 @@ "switch" :> 2) @@ None,
  ("bars" :> 1 @@ "delete" :> 1 @@ "test" :> 1 @@ "markEnds" :> 1) @@ None,
  ("bars" :> 1 @@ "switch" :> 1 @@ "restart" :> 1) @@ None,
  ("bars" :> 1 @@ "route" :> 1 @@ "test" :> 1) @@ None,
  ("bars" :> 1 @@ "testSend" :> 1) @@ None}

\* Two alerts fire together where the server sends directly, in the instances
\* with a delete or a restart; one alert fires in the others.  "Every" is the
\* mode of the instance with an update.
MCInit ==
  /\ Init
  /\ alert[a2].mode = "once_per_bar"
  /\ holds = (a1 :> Bars @@ a2 :> IF left["deleteAlert"] + left["restart"] > 0 /\ left["direct"] = 1
                                 THEN {1} ELSE {})
  /\ left["direct"] = 0 => alert[a1].mode = "once_per_bar"
  /\ left["update"] = 0 => alert[a1].mode # "every"
MCSpec == MCInit /\ [][Next]_vars
=============================================================================
