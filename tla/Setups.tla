------------------------------- MODULE Setups -------------------------------
(***************************************************************************)
(* From a strategy to a bot's permission: the strategy, setup and paper    *)
(* routes, forward_service.py (the setups and their pipeline),             *)
(* paper_service.py (fills and the promotion checklist) and                *)
(* backtest_service.py (the run a setup is made from), beside the jobs of  *)
(* the same process.                                                       *)
(*                                                                         *)
(* Every handler reads rows into a session of its own, decides from the    *)
(* copies, and at commit writes the columns that differ from them: see     *)
(* BotControl.  Here a row's columns that move together are one facet.     *)
(*                                                                         *)
(* The rules of a strategy are two columns, entry and exits, and its       *)
(* version is their hash, taken to be the pair itself.  A setup is its     *)
(* name, which is unique.  Of its pipeline the stages other than paper     *)
(* behave alike and are one, "research".  Amounts are whole units; what is *)
(* only shown (colours, notes, times, use_in_alerts) is left out.          *)
(***************************************************************************)
EXTENDS Jobs, Integers, Sums

CONSTANTS
  Requests,    \* handlers in flight at once
  Rules,       \* the values a rule column may have
  Names,       \* the names of setups
  Sessions,    \* paper sessions
  Capital,     \* initial_capital
  Pnls,        \* what a fill may earn
  Slips,       \* signed slippage of a fill, in basis points
  MinTrades, MaxDrift, LowPercent, HighPercent, LimitPercent

ASSUME AmountsAssumption ==
  /\ Capital \in Int /\ Pnls \subseteq Int /\ Slips \subseteq Int
  /\ Rules # {}

VARIABLES
  strategy,    \* the strategies row
  runs,        \* the versions backtest_runs has a run of
  setup,       \* the setups rows
  session,     \* the paper_sessions rows, each with its fills
  req,         \* the handler in flight in each slot
  crossed      \* history: facets written from an outdated copy

setupVars == <<strategy, runs, setup, session, req, crossed>>
vars == <<jobVars, left, setupVars>>
data == <<strategy, runs, setup, session>>

Idle == [at |-> "idle"]
Absent == [state |-> "none"]
Gone == [state |-> "gone"]
There(r) == r.state \notin {"none", "gone"}

Hash(entry, exits) == <<entry, exits>>

Init ==
  /\ JobsInit
  /\ LET r == CHOOSE r \in Rules : TRUE
     IN strategy = [state |-> "saved", entry |-> r, exits |-> r, version |-> Hash(r, r)]
  /\ runs = {}
  /\ setup = [n \in Names |-> Absent]
  /\ session = [s \in Sessions |-> Absent]
  /\ req = [p \in Requests |-> Idle]
  /\ crossed = {}

-----------------------------------------------------------------------------
(* Handlers.                                                               *)

Load(p, what, q) ==
  /\ up /\ req[p] = Idle
  /\ Spend(what)
  /\ req' = [req EXCEPT ![p] = q]
  /\ UNCHANGED <<jobVars, data, crossed>>

\* Request p ends having written the facets F; the others' copies of them
\* are outdated now.
Finish(p, F) ==
  /\ req' = [q \in Requests |->
       IF q = p THEN Idle
       ELSE IF req[q] = Idle THEN Idle
       ELSE [req[q] EXCEPT !.outdated = @ \cup F]]
  /\ crossed' = crossed \cup (F \cap req[p].outdated)
  /\ UNCHANGED <<jobVars, left>>

Column(now, old, new) == IF new = old THEN now ELSE new

\* 4xx, or an error that rolls the session back.
Refused(p) == Finish(p, {}) /\ UNCHANGED data

-----------------------------------------------------------------------------
(* Strategies and their runs.                                              *)

UpdateStrategy(p) ==
  /\ There(strategy)
  /\ \E entry, exits \in Rules :
       Load(p, "strategy", [at |-> "update", old |-> strategy, entry |-> entry, exits |-> exits,
                            outdated |-> {}])

\* Mutant: the version is left as it was.
UpdatedUnversioned(q) ==
  [strategy EXCEPT !.entry = Column(@, q.old.entry, q.entry),
                   !.exits = Column(@, q.old.exits, q.exits)]

\* The version recomputed from what was sent.
Updated(q) ==
  [strategy EXCEPT !.entry = Column(@, q.old.entry, q.entry),
                   !.exits = Column(@, q.old.exits, q.exits),
                   !.version = Column(@, q.old.version, Hash(q.entry, q.exits))]

UpdateCommit(p) ==
  /\ req[p].at = "update"
  /\ IF There(strategy)
     THEN /\ strategy' = Updated(req[p])
          /\ Finish(p, IF strategy' = strategy THEN {} ELSE {"rules"})
          /\ UNCHANGED <<runs, setup, session>>
     ELSE Refused(p)

\* The rows that reference it go with it.
DeleteStrategy(p) ==
  /\ up /\ req[p] = Idle /\ There(strategy)
  /\ Spend("delete")
  /\ strategy' = Gone
  /\ runs' = {}
  /\ setup' = [n \in Names |-> IF There(setup[n]) THEN Gone ELSE setup[n]]
  /\ session' = [s \in Sessions |-> IF There(session[s]) THEN Gone ELSE session[s]]
  /\ UNCHANGED <<jobVars, req, crossed>>

Backtest(p) ==
  /\ There(strategy)
  /\ Load(p, "backtest", [at |-> "backtest", old |-> strategy, outdated |-> {}])

\* The version of a run is the hash of the rules that ran.
BacktestCommit(p) ==
  /\ req[p].at = "backtest"
  /\ IF There(strategy)
     THEN /\ runs' = runs \cup {Hash(req[p].old.entry, req[p].old.exits)}
          /\ Finish(p, {}) /\ UNCHANGED <<strategy, setup, session>>
     ELSE Refused(p)

-----------------------------------------------------------------------------
(* Setups.                                                                 *)

CreateSetup(p, n) ==
  /\ There(strategy) /\ ~There(setup[n])
  /\ \E traced \in {FALSE} \cup (IF runs = {} THEN {} ELSE {TRUE}) :
       Load(p, "create", [at |-> "create", on |-> n, old |-> strategy, traced |-> traced,
                          outdated |-> {}])

\* default_pipeline; a run to trace it to has cleared the first stages.
NewSetup(q) ==
  [state |-> "kept", archived |-> FALSE, useInBot |-> FALSE, useInPaper |-> FALSE,
   pipeline |-> [research |-> IF q.traced THEN "passed" ELSE "not_started", paper |-> "not_started"],
   version |-> q.old.version, snapshot |-> Hash(q.old.entry, q.old.exits)]

\* uq_setups_user_name and the foreign keys refuse what the check let by.
CreateCommit(p) ==
  /\ req[p].at = "create"
  /\ IF There(strategy) /\ ~There(setup[req[p].on])
     THEN /\ setup' = [setup EXCEPT ![req[p].on] = NewSetup(req[p])]
          /\ Finish(p, {}) /\ UNCHANGED <<strategy, runs, session>>
     ELSE Refused(p)

\* A row with the columns of new that differ from old; the pipeline is one
\* column, and a stage written has a new time, so it always differs.
Stored(now, old, new) ==
  [now EXCEPT !.archived = Column(@, old.archived, new.archived),
              !.useInBot = Column(@, old.useInBot, new.useInBot),
              !.useInPaper = Column(@, old.useInPaper, new.useInPaper),
              !.pipeline = new.pipeline]

\* Mutant: a stage can unlock the bot and never lock it again.
StagedOneWay(s, stage, status) ==
  LET on == [s EXCEPT !.pipeline[stage] = status] IN
  IF stage # "paper" \/ status # "passed" THEN on ELSE [on EXCEPT !.useInBot = TRUE, !.useInPaper = TRUE]

Staged(s, stage, status) ==
  LET on == [s EXCEPT !.pipeline[stage] = status] IN
  IF stage # "paper" THEN on
  ELSE [on EXCEPT !.useInBot = (status = "passed"), !.useInPaper = @ \/ status = "passed"]

AdvanceStage(p, n) ==
  /\ There(setup[n])
  /\ \E stage \in {"research", "paper"}, status \in {"not_started", "running", "passed", "failed"} :
       Load(p, "stage", [at |-> "setup", on |-> n, old |-> setup[n], new |-> Staged(setup[n], stage, status),
                         staged |-> TRUE, outdated |-> {}])

Archive(p, n) ==
  /\ There(setup[n])
  /\ Load(p, "archive", [at |-> "setup", on |-> n, old |-> setup[n], staged |-> FALSE, outdated |-> {},
                         new |-> [setup[n] EXCEPT !.archived = TRUE, !.useInBot = FALSE]])

SetupCommit(p) ==
  /\ req[p].at = "setup"
  /\ LET q == req[p]
         n == q.on
         full == Stored(setup[n], q.old, q.new)
     IN IF There(setup[n])
        THEN /\ setup' = [setup EXCEPT ![n] = IF q.staged THEN full ELSE [full EXCEPT !.pipeline = setup[n].pipeline]]
             /\ Finish(p, IF setup' = setup THEN {} ELSE {n})
             /\ UNCHANGED <<strategy, runs, session>>
        ELSE Refused(p)

-----------------------------------------------------------------------------
(* Paper sessions.                                                         *)

\* Whether the setup is archived is not asked.  terms: whether an expected range
\* and a limit to the drawdown were given.
Terms == {"range", "limit"}
StartPaper(p, s) ==
  /\ session[s].state = "none"
  /\ \A q \in Requests : req[q].at = "start" => req[q].on # s
  /\ \E n \in Names, terms \in SUBSET Terms :
       /\ There(setup[n])
       /\ Load(p, "paper", [at |-> "start", on |-> s, setup |-> n, terms |-> terms, outdated |-> {}])

StartCommit(p) ==
  /\ req[p].at = "start"
  /\ IF There(setup[req[p].setup])
     THEN /\ session' = [session EXCEPT ![req[p].on] =
               [state |-> "running", setup |-> req[p].setup, terms |-> req[p].terms, aged |-> FALSE,
                equity |-> Capital, fills |-> <<>>, missed |-> 0, override |-> FALSE]]
          /\ Finish(p, {}) /\ UNCHANGED <<strategy, runs, setup>>
     ELSE Refused(p)

\* MIN_DAYS go by.
Ages(s) ==
  /\ There(session[s]) /\ ~session[s].aged
  /\ session' = [session EXCEPT ![s].aged = TRUE]
  /\ UNCHANGED <<jobVars, left, strategy, runs, setup, req, crossed>>

OnSession(p, what, s, q) == There(session[s]) /\ Load(p, what, q)

RecordFill(p, s) ==
  /\ session[s].state = "running"
  /\ \E pnl \in Pnls, slip \in Slips :
       OnSession(p, "fill", s, [at |-> "fill", on |-> s, old |-> session[s], outdated |-> {},
         fill |-> [pnl |-> pnl, slip |-> slip, after |-> session[s].equity + pnl]])

RecordMissed(p, s) ==
  OnSession(p, "missed", s, [at |-> "missed", on |-> s, old |-> session[s], outdated |-> {}])

StopPaper(p, s) ==
  OnSession(p, "stop", s, [at |-> "stop", on |-> s, old |-> session[s], outdated |-> {}])

\* Mutant: the fill is added and the session's own equity forgotten.
FilledBare(row_, q) == [row_ EXCEPT !.fills = Append(@, q.fill)]

Filled(row_, q) ==
  [row_ EXCEPT !.equity = Column(@, q.old.equity, q.fill.after), !.fills = Append(@, q.fill)]

Missed(row_, q) == [row_ EXCEPT !.missed = Column(@, q.old.missed, q.old.missed + 1)]

Stopped(row_, q) == [row_ EXCEPT !.state = Column(@, q.old.state, "stopped")]

SessionCommit(p) ==
  /\ req[p].at \in {"fill", "missed", "stop"}
  /\ LET q == req[p]
         now == session[q.on]
     IN IF There(now)
        THEN /\ session' = [session EXCEPT ![q.on] =
                  CASE q.at = "fill" -> Filled(now, q)
                    [] q.at = "missed" -> Missed(now, q)
                    [] q.at = "stop" -> Stopped(now, q)]
             /\ Finish(p, IF q.at = "fill" THEN {q.on} ELSE {})
             /\ UNCHANGED <<strategy, runs, setup>>
        ELSE Refused(p)

-----------------------------------------------------------------------------
(* The promotion checklist.                                                *)

Curve(fills) == <<Capital>> \o [i \in DOMAIN fills |-> fills[i].after]

\* Never further below an earlier value than the limit.
DrawdownUnder(curve) ==
  \A i \in DOMAIN curve : \A j \in i..Len(curve) :
    curve[i] > 0 => (curve[j] - curve[i]) * 100 >= LimitPercent * curve[i]

Drift(fills) == LET t == Total([i \in DOMAIN fills |-> fills[i].slip]) IN IF t < 0 THEN -t ELSE t

Ready(s, fills) ==
  /\ s.aged
  /\ Len(fills) >= MinTrades
  /\ "range" \in s.terms
  /\ (s.equity - Capital) * 100 \in (LowPercent * Capital)..(HighPercent * Capital)
  /\ "limit" \in s.terms => DrawdownUnder(Curve(fills))
  /\ Drift(fills) <= MaxDrift * Len(fills)

\* The query states no order, so the fills come in any.
Orders(fills) == {[i \in DOMAIN fills |-> fills[f[i]]] : f \in Permutations(DOMAIN fills)}

\* The session and its setup are loaded first, the fills by a later query.  An
\* override is refused to a user without a second factor, whom this leaves out.
Promote(p, s) ==
  \E override \in BOOLEAN :
    OnSession(p, "promote", s, [at |-> "judge", on |-> s, old |-> session[s], outdated |-> {},
                                override |-> override, setup |-> setup[session[s].setup]])

Judge(p) ==
  /\ req[p].at = "judge"
  /\ \E fills \in Orders(IF There(session[req[p].on]) THEN session[req[p].on].fills ELSE <<>>) :
       LET ready == Ready(req[p].old, fills) IN
       IF ready \/ req[p].override
       THEN /\ req' = [req EXCEPT ![p] = [at |-> "promote", on |-> @.on, old |-> @.old, setup |-> @.setup,
                                          override |-> ~ready, outdated |-> @.outdated]]
            /\ UNCHANGED <<jobVars, left, data, crossed>>
       ELSE Refused(p)

Promoted(row_, q) ==
  [row_ EXCEPT !.state = Column(@, q.old.state, "promoted"), !.override = Column(@, q.old.override, q.override)]

Unlocked(s) == [s EXCEPT !.useInBot = TRUE, !.useInPaper = TRUE, !.pipeline.paper = "passed"]

\* Neither the state of the session nor that of the setup is asked.
PromoteCommit(p) ==
  /\ req[p].at = "promote"
  /\ LET q == req[p]
         s == q.on
         n == q.old.setup
     IN IF There(session[s])
        THEN /\ session' = [session EXCEPT ![s] = Promoted(@, q)]
             /\ setup' = [setup EXCEPT ![n] = Stored(@, q.setup, Unlocked(q.setup))]
             /\ Finish(p, IF setup' = setup THEN {} ELSE {n})
             /\ UNCHANGED <<strategy, runs>>
        ELSE Refused(p)

-----------------------------------------------------------------------------
\* The handlers in flight are rolled back with their process.
Restart ==
  \E asked \in BOOLEAN :
    /\ Spend("crash")
    /\ ProcessEnds(asked)
    /\ req' = [p \in Requests |-> Idle]
    /\ UNCHANGED <<data, crossed>>

SetupsNext ==
  \/ \E p \in Requests :
       \/ UpdateStrategy(p) \/ UpdateCommit(p) \/ DeleteStrategy(p)
       \/ Backtest(p) \/ BacktestCommit(p)
       \/ CreateCommit(p) \/ SetupCommit(p) \/ StartCommit(p) \/ SessionCommit(p)
       \/ Judge(p) \/ PromoteCommit(p)
       \/ \E n \in Names : CreateSetup(p, n) \/ AdvanceStage(p, n) \/ Archive(p, n)
       \/ \E s \in Sessions : StartPaper(p, s) \/ RecordFill(p, s) \/ RecordMissed(p, s)
                              \/ StopPaper(p, s) \/ Promote(p, s)
  \/ \E s \in Sessions : Ages(s)

Next == (JobsNext /\ UNCHANGED setupVars) \/ SetupsNext \/ Restart

\* A search is finite, a task gets its turn, and the container is restarted
\* (restart: unless-stopped).
Fairness ==
  /\ WF_vars(Boot /\ UNCHANGED setupVars)
  /\ \A j \in JobIds :
       /\ WF_vars(Runs(j) /\ UNCHANGED setupVars)
       /\ WF_vars(WorkEnds(j) /\ UNCHANGED setupVars)
       /\ WF_vars(RecordFinish(j) /\ UNCHANGED setupVars)

Spec == Init /\ [][Next]_vars /\ Fairness

-----------------------------------------------------------------------------
\* A setup is locked to the version it shows: the version is the hash of the
\* rules it was made with, unless two saves of the strategy crossed, which
\* leaves a mixture nobody saved under the version of one of them.
LockedVersion ==
  \A n \in Names : There(setup[n]) => setup[n].version = setup[n].snapshot \/ "rules" \in crossed

\* A setup a bot may trade has passed paper trading by its own pipeline,
\* unless a stage was written over a copy from before another change.
UnlockedHasPassed ==
  \A n \in Names :
    There(setup[n]) /\ setup[n].useInBot => setup[n].pipeline.paper = "passed" \/ n \in crossed

\* The equity the checklist and the panel go by is the capital and what the
\* fills earned, unless two fills were recorded over the same copy.
EquityIsTheSum ==
  \A s \in Sessions :
    There(session[s]) /\ s \notin crossed =>
      session[s].equity = Capital + Total([i \in DOMAIN session[s].fills |-> session[s].fills[i].pnl])
=============================================================================
