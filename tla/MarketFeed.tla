---------------------------- MODULE MarketFeed ----------------------------
(***************************************************************************)
(* services/market_data.py: the history that is warmed at start-up or      *)
(* downloaded by hand, the one connection to the venue that serves every   *)
(* series being watched, and the bars it streams.                          *)
(***************************************************************************)
EXTENDS MarketStore, Functions

CONSTANTS
  Series,       \* the series that can be watched, each of a symbol of its own
  Main,         \* the one whose bars are modelled
  MaxChannels,  \* MAX_SUBSCRIPTIONS_PER_CONNECTION
  Wanted,       \* market_warm_bars
  Budgets       \* bound: the choices of how often each thing happens

ASSUME MainAssumption == Main \in Series
ASSUME BoundsAssumption ==
  /\ MaxBar \in Nat /\ Wanted \in Nat
  /\ \A budget \in Budgets : budget["first"] \in Bars

VARIABLES
  loop,     \* run_stream: "top", "wait" or "consume"
  subs,     \* _subscriptions
  restart,  \* _restart
  served,   \* what the running consumer subscribed to
  up,       \* the connection is open
  warmed,   \* history: when the warming in progress began, and the bars that were
            \* stored before they were final by then, or about to be
  left      \* what is left of the budget

streamVars == <<loop, subs, restart, served, up>>
storeVars == <<now, missing, inclusive, flagged, stored, coverage, job>>
vars == <<storeVars, streamVars, warmed, left>>

Spend(what) == left[what] > 0 /\ left' = [left EXCEPT ![what] = @ - 1]

NotWarmed == [from |-> 0, forming |-> {}]
Forming ==
  {b \in Bars : \E s \in Unfinished : stored[b] = s \/ \E j \in Writers : <<b, s>> \in job[j].page}

Init ==
  /\ left \in Budgets
  /\ now = left["first"] /\ missing \in SUBSET {2} /\ inclusive \in BOOLEAN /\ flagged \in BOOLEAN
  /\ stored = [b \in Bars |-> "none"] /\ coverage = <<>>
  /\ job = [j \in Writers |-> Rest]
  /\ loop = "top" /\ subs = {} /\ restart = FALSE /\ served = {} /\ up = FALSE
  /\ warmed = NotWarmed

BarCloses ==
  /\ now < MaxBar /\ Spend("bars")
  /\ now' = now + 1
  /\ UNCHANGED <<missing, inclusive, flagged, stored, coverage, job, streamVars, warmed>>

----------------------------------------------------------------------------
(***************************************************************************)
(* ensure_history, then fill_gaps, then subscribe                          *)
(***************************************************************************)
Begin == OpensAt(now) - 2 * Wanted
Ranges ==
  LET end == OpensAt(now) + 1 IN
  IF coverage = <<>> THEN << <<Begin, end>> >>
  ELSE (IF OpensAt(coverage[1]) > Begin THEN << <<Begin, OpensAt(coverage[1])>> >> ELSE <<>>)
       \o << <<OpensAt(coverage[2]), end>> >>

EnsureHistory ==
  /\ job["warm"] = Rest /\ Spend("warm")
  /\ job' = [job EXCEPT !["warm"] = NextRange([Rest EXCEPT !.ranges = Ranges])]
  /\ warmed' = [from |-> now, forming |-> Forming]
  /\ UNCHANGED <<now, missing, inclusive, flagged, stored, coverage, streamVars>>

\* The operator's tool downloads any range, and fills gaps if asked to.
Backfill(a, b, fill) ==
  /\ a < b /\ job["tool"] = Rest /\ Spend("tool")
  /\ job' = [job EXCEPT !["tool"] =
       NextRange([Rest EXCEPT !.ranges = << <<OpensAt(a), OpensAt(b)>> >>, !.filled = ~fill])]
  /\ UNCHANGED <<now, missing, inclusive, flagged, stored, coverage, streamVars, warmed>>

FillGaps(j) ==
  /\ job[j].at = "done"
  /\ job' = [job EXCEPT ![j] = NextRange([Rest EXCEPT !.ranges = Gaps, !.filled = TRUE])]
  /\ UNCHANGED <<now, missing, inclusive, flagged, stored, coverage, streamVars, warmed, left>>

\* A request fails: what was committed stays, the rest is given up.  The
\* warming is not tried again before the next start.
Fail(j) ==
  /\ job[j].at = "fetch" /\ Spend("fail")
  /\ job' = [job EXCEPT ![j] = IF j = "warm" THEN [Rest EXCEPT !.at = "over"] ELSE Rest]
  /\ UNCHANGED <<now, missing, inclusive, flagged, stored, coverage, streamVars, warmed>>

----------------------------------------------------------------------------
(***************************************************************************)
(* The shared stream                                                       *)
(***************************************************************************)
\* Mutant: the loop is not woken.
AddsAsleep(s) == subs' = subs \cup {s} /\ UNCHANGED restart
Adds(s) == subs' = subs \cup {s} /\ restart' = (restart \/ s \notin subs)

\* A browser opens a chart, or the warming ends; nothing is ever taken off.
Subscribe(s) ==
  /\ s \in subs \/ Spend("watch")
  /\ s \in subs => UNCHANGED left
  /\ Adds(s)
  /\ UNCHANGED <<storeVars, loop, served, up, warmed>>

\* The last step of the warming; what it stored is told from what came later.
Warmed ==
  /\ job["warm"].at = "whole"
  /\ job' = [job EXCEPT !["warm"] = [Rest EXCEPT !.at = "over"]]
  /\ Adds(Main)
  /\ UNCHANGED <<now, missing, inclusive, flagged, stored, coverage, loop, served, up, warmed, left>>

\* A series takes a kline and a ticker channel.
Fits == 2 * Cardinality(subs) <= MaxChannels

\* run_stream: a consumer for what is subscribed to now.  Beyond the limit it
\* ends at once, and the loop comes round again.
LoopTop ==
  /\ loop = "top"
  /\ restart' = FALSE
  /\ loop' = IF subs = {} THEN "wait" ELSE IF Fits THEN "consume" ELSE "top"
  /\ served' = IF Fits THEN subs ELSE {}
  /\ UNCHANGED <<storeVars, subs, up, warmed, left>>

\* The running consumer is cancelled, with the bar it was writing.
Restarted ==
  /\ loop # "top" /\ restart
  /\ loop' = "top" /\ served' = {} /\ up' = FALSE
  /\ job' = [job EXCEPT !["stream"] = Rest]
  /\ UNCHANGED <<now, missing, inclusive, flagged, stored, coverage, subs, restart, warmed, left>>

Connect ==
  /\ loop = "consume" /\ ~up
  /\ up' = TRUE
  /\ UNCHANGED <<storeVars, loop, subs, restart, served, warmed, left>>

\* The connection is lost; nothing asks for the bars it misses.
Disconnect ==
  /\ up /\ Spend("drop")
  /\ up' = FALSE
  /\ UNCHANGED <<storeVars, loop, subs, restart, served, warmed>>

\* The forming bar is sent, and persisted by _handle_event.
Event ==
  /\ up /\ Main \in served /\ now \notin missing
  /\ job["stream"] = Rest
  /\ job' = [job EXCEPT !["stream"] = [Rest EXCEPT !.at = "write", !.page = {<<now, Status(now)>>}]]
  /\ UNCHANGED <<now, missing, inclusive, flagged, stored, coverage, streamVars, warmed, left>>

\* The server goes down and comes up; the tool is a process of its own.
Reboot ==
  /\ Spend("reboot")
  /\ job' = [job EXCEPT !["warm"] = Rest, !["stream"] = Rest]
  /\ loop' = "top" /\ subs' = {} /\ restart' = FALSE /\ served' = {} /\ up' = FALSE
  /\ UNCHANGED <<now, missing, inclusive, flagged, stored, coverage, warmed>>

Storing(j) == Fetch(j) \/ Write(j) \/ Commit(j)

Next ==
  \/ \E j \in Writers : Storing(j) /\ UNCHANGED <<streamVars, warmed, left>>
  \/ \E j \in Writers \ {"stream"} : FillGaps(j) \/ Fail(j)
  \/ EnsureHistory \/ BarCloses \/ Warmed
  \/ \E a, b \in Bars, fill \in BOOLEAN : Backfill(a, b, fill)
  \/ \E s \in Series : Subscribe(s)
  \/ LoopTop \/ Restarted \/ Connect \/ Disconnect \/ Event \/ Reboot

\* The event loop gets round to every task that can go on, and the venue
\* answers: the adapter tries to connect for ever.
Spec ==
  /\ Init /\ [][Next]_vars
  /\ WF_vars(LoopTop) /\ WF_vars(Restarted) /\ WF_vars(Connect)

----------------------------------------------------------------------------
\* When the warming is done, whatever went wrong with earlier ones, the bars it
\* was to fetch are there, and final if they were then over -- but for those
\* that somebody had fetched or streamed as they were forming, and for those that
\* are older by now than the newest bars fill_gaps looks at.
LookedAt(b) == now - b < GapBars
WarmIsWhole ==
  job["warm"].at = "whole" =>
    \A b \in (Bars \cap (warmed.from - Wanted)..warmed.from) \ missing : LookedAt(b) =>
      /\ stored[b] # "none"
      /\ b < warmed.from => stored[b] = "final" \/ b \in warmed.forming

\* A series being watched comes to be served by an open connection, unless
\* more is watched than one connection takes.
Servable(s) == s \in subs /\ Fits
Served(s) == s \in served /\ up
WatchedIsServed == \A s \in Series : Servable(s) ~> (Served(s) \/ ~Servable(s))
=============================================================================
