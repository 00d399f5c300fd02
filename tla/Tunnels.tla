------------------------------ MODULE Tunnels ------------------------------
(***************************************************************************)
(* The tunnels of one person and the way a message takes through them:     *)
(* services/tunnels.py (one wireproxy process per tunnel, behind a lock of  *)
(* its own), services/routing.py (the first tunnel of the route that works, *)
(* else the server's own network), and the network routes.                 *)
(*                                                                         *)
(* Callers interleave at every await, and every pass of a delivery reads   *)
(* the route and the tunnels' rows afresh.                                 *)
(***************************************************************************)
EXTENDS Naturals, Sequences, FiniteSets, SequencesExt

CONSTANTS
  TunnelIds,
  Dests,       \* the destinations of an alert
  Unwired,     \* of those, web_push and email: nothing is sent to them
  Callers,     \* the alert runner and the page
  MaxRouteTunnels,
  Budgets      \* bound: the choices of how often each thing happens

Runner == "runner"
Page == "page"

ASSUME TunnelsAssumption ==
  MaxRouteTunnels \in Nat /\ {Runner, Page} \subseteq Callers /\ Unwired \subseteq Dests

VARIABLES
  row,        \* each tunnel's row: "on", "off" or "gone"
  route,      \* the route of alerts_delivery: tunnels in failover order
  procs,      \* the tunnel of every process ever started, in order
  live,       \* the processes that run
  running,    \* TunnelManager._running: the process of each tunnel, or 0
  mark,       \* the tunnels marked unreachable
  call,       \* what each caller is doing
  left,       \* what is left of the budget
  stray,      \* history: processes whose manager lost sight of them
  late,       \* history: processes a caller started, or was starting, on a row
              \* that had been switched off or deleted meanwhile
  disturbed   \* history: the callers during whose delivery a mark was lifted
              \* or a tunnel was added to the route

tunnelVars == <<row, route, procs, live, running, mark, call, left, stray, late, disturbed>>

Spend(what) == left[what] > 0 /\ left' = [left EXCEPT ![what] = @ - 1]

NoTunnel == "none"
NoMessage == <<>>
NoResults == [d \in Dests |-> "none"]

\* A caller: where it is, what for, with which tunnel and process; for a
\* delivery the message, what is left of the route this pass read, the pass,
\* who is still to be sent to and what came of it; and, as history, the route
\* it began with and who was sent to by the server's own route.
Idle ==
  [at |-> "idle", job |-> "none", t |-> NoTunnel, pid |-> 0,
   what |-> NoMessage, list |-> <<>>, todo |-> <<>>, pass |-> 1,
   pending |-> {}, result |-> NoResults, server |-> {}]

\* The routes the API takes.
Routes == {s \in SeqOf(TunnelIds, MaxRouteTunnels) : IsInjective(s)}

Delivering(c) == call[c].job = "deliver"
Alive(t) == running[t] # 0 /\ running[t] \in live
Locked(t) == \E c \in Callers : call[c].at = "starting" /\ call[c].t = t

TunnelsInit ==
  /\ left \in Budgets
  /\ row = [t \in TunnelIds |-> "on"]
  /\ route \in {s \in Routes : s = <<>> <=> left["direct"] > 0}
  /\ procs = <<>> /\ live = {} /\ running = [t \in TunnelIds |-> 0]
  /\ mark = {}
  /\ call = [c \in Callers |-> Idle]
  /\ stray = {} /\ late = {} /\ disturbed = {}

----------------------------------------------------------------------------
(***************************************************************************)
(* TunnelManager.ensure and stop                                           *)
(***************************************************************************)
Goes(c, stage) == call' = [call EXCEPT ![c].at = stage]

\* The tunnel runs already, or a process is spawned under the lock; then the
\* caller polls until it listens.
Ensure(c) ==
  /\ call[c].at = "ensure"
  /\ LET t == call[c].t IN
     /\ ~Locked(t)
     /\ IF Alive(t)
        THEN /\ call' = [call EXCEPT ![c].at = "up", ![c].pid = running[t]]
             /\ UNCHANGED <<procs, live, late>>
        ELSE /\ procs' = Append(procs, t)
             /\ live' = live \cup {Len(procs')}
             /\ late' = IF row[t] = "on" THEN late ELSE late \cup {Len(procs')}
             /\ call' = [call EXCEPT ![c].at = "starting", ![c].pid = Len(procs')]
  /\ UNCHANGED <<row, route, running, mark, left, stray, disturbed>>

Listens(c) ==
  /\ call[c].at = "starting"
  /\ call[c].pid \in live
  /\ running' = [running EXCEPT ![call[c].t] = call[c].pid]
  /\ Goes(c, "up")
  /\ UNCHANGED <<row, route, procs, live, mark, left, stray, late, disturbed>>

\* It exits, or is killed when it does not listen in time.
NeverListens(c) ==
  /\ call[c].at = "starting"
  /\ Spend("noStart")
  /\ live' = live \ {call[c].pid}
  /\ Goes(c, "down")
  /\ UNCHANGED <<row, route, procs, running, mark, stray, late, disturbed>>

\* Mutant: the process is forgotten, not killed.
StoppedForgets(t) == {}
Killed(t) == {running[t]}

\* stop does not take the lock: a start in progress is not seen.
Stop(t) ==
  /\ running' = [running EXCEPT ![t] = 0]
  /\ live' = live \ Killed(t)
  /\ mark' = mark \ {t}
  /\ late' = late \cup {call[c].pid : c \in {d \in Callers : call[d].at = "starting" /\ call[d].t = t}}

\* A tunnel process dies.
Dies(t) ==
  /\ Alive(t)
  /\ Spend("dies")
  /\ live' = live \ {running[t]}
  /\ UNCHANGED <<row, route, procs, running, mark, call, stray, late, disturbed>>

Lifting(S) ==
  disturbed' = IF S \cap mark # {} THEN disturbed \cup {c \in Callers : Delivering(c)} ELSE disturbed

\* UNREACHABLE_SECONDS are over.
MarkEnds(t) ==
  /\ t \in mark
  /\ Spend("markEnds")
  /\ mark' = mark \ {t}
  /\ Lifting({t})
  /\ UNCHANGED <<row, route, procs, live, running, call, stray, late>>

----------------------------------------------------------------------------
(***************************************************************************)
(* routing.resolve and routing.deliver                                     *)
(***************************************************************************)
\* A delivery begins: nothing is sent.
Begins(c, what) ==
  call' = [call EXCEPT ![c] =
    [Idle EXCEPT !.at = "route", !.job = "deliver", !.what = what, !.list = route, !.pending = Dests]]

\* A pass reads the route as it stands.
ReadRoute(c) ==
  /\ call[c].at = "route"
  /\ call' = [call EXCEPT ![c].at = "resolve", ![c].todo = route]
  /\ UNCHANGED <<row, route, procs, live, running, mark, left, stray, late, disturbed>>

Usable(t) == row[t] = "on" /\ t \notin mark

\* The next tunnel of the route is passed over or brought up; after the last
\* one comes the server's own route.
Resolve(c) ==
  /\ call[c].at = "resolve"
  /\ LET todo == call[c].todo IN
     IF todo = <<>> THEN call' = [call EXCEPT ![c].at = "send", ![c].pid = 0]
     ELSE call' = [call EXCEPT ![c].at = IF Usable(Head(todo)) THEN "ensure" ELSE "resolve",
                               ![c].t = Head(todo), ![c].todo = Tail(todo)]
  /\ UNCHANGED <<row, route, procs, live, running, mark, left, stray, late, disturbed>>

Resolved(c) ==
  /\ call[c].job = "deliver"
  /\ \/ call[c].at = "up" /\ Goes(c, "send")
     \/ call[c].at = "down" /\ Goes(c, "resolve")
  /\ UNCHANGED <<row, route, procs, live, running, mark, left, stray, late, disturbed>>

\* What can come of sending to a destination: it took the message, it did not
\* ("refused", and "path" where that is for the tunnel's sake), or it took the
\* message and no answer came back ("unsure").  An unwired one is reported sent.
Outcomes(pid, d) == IF d \in Unwired THEN {"sent"}
                    ELSE IF pid = 0 THEN {"sent", "refused", "unsure"}
                    ELSE IF pid \in live THEN {"sent", "refused", "path", "unsure"}
                    ELSE {"path"}
InThePath(o) == o \in {"path", "unsure"}

\* Mutant: a re-sent destination keeps the record of the first try.
ResultsKept(c, outcome) == [d \in Dests |-> IF call[c].result[d] = "none" THEN outcome[d] ELSE call[c].result[d]]
Results(c, outcome) == [d \in Dests |-> IF d \in call[c].pending THEN outcome[d] ELSE call[c].result[d]]

\* Mutant: the tunnel that failed is not ruled out.
MarkedNone(t) == mark
Marked(t) == mark \cup {t}

Again(c, outcome) == {d \in call[c].pending : InThePath(outcome[d])}

\* Only what failed in a tunnel's path is sent again, by the next route.
Sends(c, outcome) ==
  /\ call[c].at = "send"
  /\ \A d \in call[c].pending : outcome[d] \in Outcomes(call[c].pid, d)
  /\ LET q == call[c]
         again == Again(c, outcome)
         over == again = {} \/ q.pid = 0
     IN
     /\ call' = [call EXCEPT
          ![c].at = IF over \/ q.pass = MaxRouteTunnels + 1 THEN "sent" ELSE "route",
          ![c].result = Results(c, outcome), ![c].pass = IF over THEN @ ELSE @ + 1,
          ![c].pending = again,
          ![c].server = IF q.pid = 0 THEN @ \cup q.pending ELSE @]
     /\ mark' = IF over THEN mark ELSE Marked(q.t)
  /\ UNCHANGED <<row, route, procs, live, running, left, stray, late, disturbed>>

----------------------------------------------------------------------------
(***************************************************************************)
(* The network routes.  The page has one request in flight.                *)
(***************************************************************************)
PageIdle == call[Page].at = "idle"
Asks(what, t, stage) ==
  /\ PageIdle
  /\ Spend(what)
  /\ call' = [call EXCEPT ![Page].at = stage, ![Page].job = what, ![Page].t = t]

\* update_tunnel: the row is committed, then a tunnel that is off is shut.
Switch(t) ==
  /\ row[t] # "gone"
  /\ IF row[t] = "on" THEN Asks("switch", t, "shut")
     ELSE PageIdle /\ Spend("switch") /\ UNCHANGED call
  /\ row' = [row EXCEPT ![t] = IF @ = "on" THEN "off" ELSE "on"]
  /\ UNCHANGED <<route, procs, live, running, mark, stray, late, disturbed>>

\* delete_tunnel: it is shut first; then it leaves the routes and the table.
Delete(t) ==
  /\ row[t] # "gone"
  /\ Asks("delete", t, "shut")
  /\ UNCHANGED <<row, route, procs, live, running, mark, stray, late, disturbed>>

Shut ==
  /\ call[Page].at = "shut"
  /\ LET t == call[Page].t IN
     /\ Stop(t)
     /\ Lifting({t})
  /\ IF call[Page].job = "delete" THEN Goes(Page, "delete")
     ELSE call' = [call EXCEPT ![Page] = Idle]
  /\ UNCHANGED <<row, route, procs, left, stray>>

Without(s, t) ==
  IF t \in ToSet(s) THEN RemoveAt(s, CHOOSE i \in DOMAIN s : s[i] = t) ELSE s

DeleteCommit ==
  /\ call[Page].at = "delete"
  /\ LET t == call[Page].t IN
     /\ row' = [row EXCEPT ![t] = "gone"]
     /\ route' = Without(route, t)
     /\ late' = late \cup {p \in live : procs[p] = t}
  /\ call' = [call EXCEPT ![Page] = Idle]
  /\ UNCHANGED <<procs, live, running, mark, left, stray, disturbed>>

\* set_route
SetRoute(s) ==
  /\ PageIdle
  /\ Spend("route")
  /\ \A i \in DOMAIN s : row[s[i]] # "gone"
  /\ route' = s
  /\ disturbed' = disturbed \cup
       {c \in Callers : Delivering(c) /\ ~(ToSet(s) \subseteq ToSet(call[c].list))}
  /\ UNCHANGED <<row, procs, live, running, mark, call, stray, late>>

\* test_tunnel: the tunnel is brought up and probed.
Test(t) ==
  /\ row[t] = "on"
  /\ Asks("test", t, "ensure")
  /\ UNCHANGED <<row, route, procs, live, running, mark, stray, late, disturbed>>

Probed(answers) ==
  /\ call[Page].at \in {"up", "down"} /\ call[Page].job = "test"
  /\ answers => call[Page].at = "up" /\ call[Page].pid \in live
  /\ LET t == call[Page].t IN
     CASE call[Page].at = "down" -> UNCHANGED <<mark, disturbed>>
       [] answers -> mark' = mark \ {t} /\ Lifting({t})
       [] OTHER   -> mark' = mark \cup {t} /\ UNCHANGED disturbed
  /\ call' = [call EXCEPT ![Page] = Idle]
  /\ UNCHANGED <<row, route, procs, live, running, left, stray, late>>

----------------------------------------------------------------------------
\* The server goes down and comes up.  In an orderly shutdown the runner is
\* cancelled and every process the manager knows of is stopped; a process
\* being started, and after a crash every process, is left to itself.
Restart(orderly) ==
  /\ Spend("restart")
  /\ LET known == {running[t] : t \in TunnelIds}
         kept == IF orderly THEN live \ known ELSE live
     IN live' = kept /\ stray' = stray \cup kept
  /\ running' = [t \in TunnelIds |-> 0]
  /\ mark' = {}
  /\ call' = [c \in Callers |-> Idle]
  /\ disturbed' = {}
  /\ UNCHANGED <<row, route, procs, late>>

TunnelsNext ==
  \/ \E c \in Callers : Ensure(c) \/ Listens(c) \/ NeverListens(c) \/ ReadRoute(c) \/ Resolve(c) \/ Resolved(c)
  \/ \E t \in TunnelIds : Dies(t) \/ MarkEnds(t) \/ Switch(t) \/ Delete(t) \/ Test(t)
  \/ \E s \in Routes : SetRoute(s)
  \/ \E answers \in BOOLEAN : Probed(answers)
  \/ Shut \/ DeleteCommit

----------------------------------------------------------------------------
BeingShut(t) == call[Page].at = "shut" /\ call[Page].t = t

\* A tunnel that was switched off or deleted has no process, once the request
\* has shut it: but for one that a caller started, or was starting, while it
\* was being switched off, and one a restarted server knows nothing of.
OffMeansStopped ==
  \A p \in live :
    row[procs[p]] = "on" \/ BeingShut(procs[p]) \/ p \in late \cup stray

\* A destination is given up on only after the server's own route was tried,
\* unless a mark on a tunnel was lifted, or a tunnel was added to the route,
\* while the message was on its way: there are as many passes as a route holds
\* tunnels, and one more, and a tunnel that is new to it can take the last.
ServerTriedLast ==
  \A c \in Callers :
    (Delivering(c) /\ call[c].at = "sent" /\ c \notin disturbed)
      => \A d \in Dests : InThePath(call[c].result[d]) => d \in call[c].server
=============================================================================
