------------------------------- MODULE Alerts -------------------------------
(***************************************************************************)
(* Alerts that fire with the browser closed: services/alert_runner.py (one *)
(* pass over every enabled alert, its deliveries, one commit),             *)
(* services/alert_service.py (the last closed bar, the repeat rule) and    *)
(* the alert routes, over the tunnels its messages go through.             *)
(*                                                                         *)
(* Whether a condition holds on a bar is chosen; an alert that cannot be   *)
(* evaluated is skipped as one whose condition does not hold.  An expired  *)
(* alert is one that is off.  The alerts of a pass are taken in any order. *)
(***************************************************************************)
EXTENDS Tunnels

CONSTANTS
  AlertIds,
  Modes,   \* the repeat modes in use, of "every", "once" and "once_per_bar"
  MaxBar   \* bound: the bars that close

ASSUME AlertsAssumption == MaxBar \in Nat /\ Modes \subseteq {"every", "once", "once_per_bar"}

VARIABLES
  bar,      \* the last closed bar, 0 before any
  holds,    \* the bars each alert's condition holds on
  alert,    \* the rows: state ("on", "off", "gone"), mode, lastBar, count
  tick,     \* the runner's pass: todo, rows as loaded, fired, sent, events
  events,   \* the activity feed
  took,     \* history: how often a destination took the message of an alert and bar
  unanswered, \* history: the alerts, bars and destinations where it took the
            \* message and the answer was lost
  cut,      \* history: the firings whose pass ended without its commit
  modes     \* history: the modes each alert ever had

vars == <<tunnelVars, bar, holds, alert, tick, events, took, unanswered, cut, modes>>
alertVars == <<bar, holds, alert, tick, events, took, unanswered, cut, modes>>

Resting == [at |-> "resting"]
Bars == 1..MaxBar
TestBar == 0   \* the bar of a test send

Init ==
  /\ TunnelsInit
  /\ bar = 0
  /\ holds \in [AlertIds -> SUBSET Bars]
  /\ alert \in [AlertIds -> [state : {"on"}, mode : Modes, lastBar : {0}, count : {0}]]
  /\ tick = Resting
  /\ events = {}
  /\ took = [a \in AlertIds |-> [b \in Bars |-> [d \in Dests |-> 0]]]
  /\ unanswered = {}
  /\ cut = {}
  /\ modes = [a \in AlertIds |-> {alert[a].mode}]

----------------------------------------------------------------------------
BarCloses ==
  /\ bar < MaxBar
  /\ Spend("bars")
  /\ bar' = bar + 1
  /\ UNCHANGED <<row, route, procs, live, running, mark, call, stray, late, disturbed, holds, alert, tick, events, took, unanswered, cut, modes>>

\* due_alerts: the rows this pass will go by.
Due ==
  /\ tick = Resting
  /\ tick' = [at |-> "pass", todo |-> {a \in AlertIds : alert[a].state = "on"}, rows |-> alert,
              fired |-> <<>>, sent |-> {}, events |-> {}]
  /\ tick'.todo # {}
  /\ UNCHANGED <<tunnelVars, bar, holds, alert, events, took, unanswered, cut, modes>>

\* may_fire
MayFire(r, b) ==
  /\ r.mode = "once" => r.count = 0
  /\ r.mode = "once_per_bar" => r.lastBar # b

\* Mutant: the bar that fired is not noted.
FiredUnnoted(r, b) == [r EXCEPT !.count = 1]
Fired(r, b) == [r EXCEPT !.lastBar = b, !.count = 1]

Event(a, b, result) == [alert |-> a, bar |-> b, result |-> result]
Suppressed == [d \in Dests |-> "suppressed"]

\* evaluate_alert
Evaluate(a) ==
  /\ tick.at = "pass" /\ a \in tick.todo
  /\ \/ /\ bar \in holds[a] /\ MayFire(tick.rows[a], bar)
        /\ tick' = [tick EXCEPT !.todo = @ \ {a}, !.rows[a] = Fired(@, bar),
                                !.fired = Append(@, <<a, bar>>)]
     \/ /\ bar \in holds[a] /\ ~MayFire(tick.rows[a], bar)
        /\ tick' = [tick EXCEPT !.todo = @ \ {a},
                                !.events = @ \cup {Event(a, bar, Suppressed)}]
     \/ /\ bar \notin holds[a]
        /\ tick' = [tick EXCEPT !.todo = @ \ {a}]
  /\ UNCHANGED <<tunnelVars, bar, holds, alert, events, took, unanswered, cut, modes>>

Evaluated == tick.at = "pass" /\ tick.todo = {}

\* The first message of the pass that is left goes out.
StartDelivery ==
  /\ Evaluated /\ tick.fired # <<>>
  /\ ~Delivering(Runner)
  /\ Begins(Runner, Head(tick.fired))
  /\ UNCHANGED <<row, route, procs, live, running, mark, left, stray, late, disturbed, alertVars>>

\* The destinations that take the message, whatever is heard of it.
Takers(outcome) == {d \in DOMAIN outcome \ Unwired : outcome[d] \in {"sent", "unsure"}}

Send(c, outcome) ==
  /\ Sends(c, outcome)
  /\ took' = [a \in AlertIds |-> [b \in Bars |-> [d \in Dests |->
                IF call[c].what = <<a, b>> /\ d \in Takers(outcome) /\ took[a][b][d] < 2
                THEN took[a][b][d] + 1 ELSE took[a][b][d]]]]
  /\ unanswered' = unanswered \cup
       {<<call[c].what[1], call[c].what[2], d>> : d \in {x \in Takers(outcome) : outcome[x] = "unsure"}}
  /\ UNCHANGED <<bar, holds, alert, tick, events, cut, modes>>

\* What the feed keeps of a delivery's results.
Recorded(result) == [d \in Dests |-> IF result[d] = "sent" THEN "sent" ELSE "failed"]

Delivered ==
  /\ tick.at = "pass" /\ Delivering(Runner) /\ call[Runner].at = "sent"
  /\ LET k == call[Runner].what IN
     tick' = [tick EXCEPT !.fired = Tail(@), !.sent = @ \cup {k},
                          !.events = @ \cup {Event(k[1], k[2], Recorded(call[Runner].result))}]
  /\ call' = [call EXCEPT ![Runner] = Idle]
  /\ disturbed' = disturbed \ {Runner}
  /\ UNCHANGED <<row, route, procs, live, running, mark, left, stray, late,
                 bar, holds, alert, events, took, unanswered, cut, modes>>

\* Everything the pass did is committed at once.  An event of an alert that
\* was deleted meanwhile fails it all, and nothing of the pass is recorded.
Commit ==
  /\ Evaluated /\ tick.fired = <<>>
  /\ LET ofGone == \E e \in tick.events : alert[e.alert].state = "gone" IN
     IF ofGone
     THEN cut' = cut \cup tick.sent /\ UNCHANGED <<alert, events>>
     ELSE /\ events' = events \cup tick.events
          /\ alert' = [a \in AlertIds |->
                        [alert[a] EXCEPT !.lastBar = tick.rows[a].lastBar, !.count = tick.rows[a].count]]
          /\ UNCHANGED cut
  /\ tick' = Resting
  /\ UNCHANGED <<tunnelVars, bar, holds, took, unanswered, modes>>

----------------------------------------------------------------------------
(***************************************************************************)
(* The alert routes                                                        *)
(***************************************************************************)
\* update_alert writes the row as the form has it.
Update(a, state, mode) ==
  /\ PageIdle /\ Spend("update")
  /\ alert[a].state # "gone"
  /\ alert' = [alert EXCEPT ![a].state = state, ![a].mode = mode]
  /\ modes' = [modes EXCEPT ![a] = @ \cup {mode}]
  /\ UNCHANGED <<row, route, procs, live, running, mark, call, stray, late, disturbed,
                 bar, holds, tick, events, took, unanswered, cut>>

\* delete_alert; its events go with it.
DeleteAlert(a) ==
  /\ PageIdle /\ Spend("deleteAlert")
  /\ alert[a].state # "gone"
  /\ alert' = [alert EXCEPT ![a].state = "gone"]
  /\ events' = {e \in events : e.alert # a}
  /\ UNCHANGED <<row, route, procs, live, running, mark, call, stray, late, disturbed,
                 bar, holds, tick, took, unanswered, cut, modes>>

\* test_send: the same way as a firing, recorded in the same feed.
TestSend(a) ==
  /\ PageIdle /\ Spend("testSend")
  /\ alert[a].state # "gone"
  /\ Begins(Page, <<a, TestBar>>)
  /\ UNCHANGED <<row, route, procs, live, running, mark, stray, late, disturbed, alertVars>>

TestSent ==
  /\ Delivering(Page) /\ call[Page].at = "sent"
  /\ events' = events \cup {Event(call[Page].what[1], TestBar, Recorded(call[Page].result))}
  /\ call' = [call EXCEPT ![Page] = Idle]
  /\ disturbed' = disturbed \ {Page}
  /\ UNCHANGED <<row, route, procs, live, running, mark, left, stray, late,
                 bar, holds, alert, tick, took, unanswered, cut, modes>>

\* A pass that is cut short leaves no record of what it sent.
CutShort(orderly) ==
  /\ Restart(orderly)
  /\ cut' = IF tick = Resting THEN cut
            ELSE cut \cup tick.sent \cup (IF Delivering(Runner) THEN {call[Runner].what} ELSE {})
  /\ tick' = Resting
  /\ UNCHANGED <<bar, holds, alert, events, took, unanswered, modes>>

Next ==
  \/ TunnelsNext /\ UNCHANGED alertVars
  \/ \E orderly \in BOOLEAN : CutShort(orderly)
  \/ BarCloses \/ Due \/ StartDelivery \/ Delivered \/ Commit \/ TestSent
  \/ \E a \in AlertIds : Evaluate(a) \/ DeleteAlert(a) \/ TestSend(a)
  \/ \E a \in AlertIds, state \in {"on", "off"}, mode \in Modes : Update(a, state, mode)
  \/ \E c \in Callers :
       \E outcome \in [call[c].pending -> {"sent", "refused", "path", "unsure"}] : Send(c, outcome)

Spec == Init /\ [][Next]_vars

----------------------------------------------------------------------------
\* Unless a pass was lost, a destination takes the message of an alert that
\* does not repeat on a bar once for the bar, or twice where its first answer
\* was lost, and of an alert that fires once on one bar at most.
SentOncePerBar ==
  \A a \in AlertIds, b \in Bars, d \in Dests :
    \/ \E x \in Bars : <<a, x>> \in cut
    \/ "every" \in modes[a]
    \/ /\ took[a][b][d] <= 1 \/ <<a, b, d>> \in unanswered
       /\ modes[a] = {"once"} => \A x \in Bars \ {b} : took[a][b][d] = 0 \/ took[a][x][d] = 0

Says(E, a, b, d) == \E e \in E : e.alert = a /\ e.bar = b /\ e.result[d] = "sent"

\* The activity feed says "sent" of the messages a destination took, and of
\* those alone -- whichever network carried them in the end -- unless the pass
\* that sent them was lost.  It may not say so of a message whose answer was
\* lost; and it says so of every web_push and email, which are not sent.
FeedTellsTruth ==
  \A a \in AlertIds, b \in Bars, d \in Dests \ Unwired :
    \/ <<a, b>> \in cut \/ alert[a].state = "gone"
    \/ tick # Resting
    \/ /\ Says(events, a, b, d) => took[a][b][d] > 0
       /\ took[a][b][d] > 0 => Says(events, a, b, d) \/ <<a, b, d>> \in unanswered
=============================================================================
