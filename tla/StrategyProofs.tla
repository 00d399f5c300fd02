---------------------------- MODULE StrategyProofs ----------------------------
(***************************************************************************)
(* Proofs about a strategy: its way to a bot's permission, for every       *)
(* number of handlers, setups, paper sessions and jobs, and a backtest of  *)
(* it bar by bar, for every history, magnifier and set of signals.         *)
(***************************************************************************)
EXTENDS Setups, BarLoop, NaturalsInduction, WellFoundedInduction, TLAPS

-----------------------------------------------------------------------------
(* Types.                                                                  *)

Versions == Rules \X Rules
Facets   == {"rules"} \cup Names \cup Sessions
Marks    == {"not_started", "running", "passed", "failed"}
Pipeline == [research : Marks, paper : Marks]
Fill     == [pnl : Int, slip : Int, after : Int]

StrategyRow == [state : {"saved"}, entry : Rules, exits : Rules, version : Versions]
SetupRow    == [state : {"kept"}, archived : BOOLEAN, useInBot : BOOLEAN, useInPaper : BOOLEAN,
                pipeline : Pipeline, version : Versions, snapshot : Versions]
SessionRow  == [state : {"running", "stopped", "promoted"}, setup : Names, terms : SUBSET Terms,
                aged : BOOLEAN, equity : Int, fills : Seq(Fill), missed : Int, override : BOOLEAN]

UpdateReq   == [at : {"update"}, old : StrategyRow, entry : Rules, exits : Rules,
                outdated : SUBSET Facets]
BacktestReq == [at : {"backtest"}, old : StrategyRow, outdated : SUBSET Facets]
CreateReq   == [at : {"create"}, on : Names, old : StrategyRow, traced : BOOLEAN,
                outdated : SUBSET Facets]
SetupReq    == [at : {"setup"}, on : Names, old : SetupRow, new : SetupRow, staged : BOOLEAN,
                outdated : SUBSET Facets]
StartReq    == [at : {"start"}, on : Sessions, setup : Names, terms : SUBSET Terms,
                outdated : SUBSET Facets]
FillReq     == [at : {"fill"}, on : Sessions, old : SessionRow, fill : Fill,
                outdated : SUBSET Facets]
PlainReq    == [at : {"missed", "stop"}, on : Sessions, old : SessionRow, outdated : SUBSET Facets]
PromoteReq  == [at : {"judge", "promote"}, on : Sessions, old : SessionRow, setup : SetupRow,
                override : BOOLEAN, outdated : SUBSET Facets]
Request     == UpdateReq \cup BacktestReq \cup CreateReq \cup SetupReq \cup StartReq
                 \cup FillReq \cup PlainReq \cup PromoteReq

RowTypes ==
  /\ strategy \in StrategyRow \cup {Gone}
  /\ runs \subseteq Versions
  /\ setup \in [Names -> SetupRow \cup {Absent, Gone}]
  /\ session \in [Sessions -> SessionRow \cup {Absent, Gone}]

TypeOK ==
  /\ RowTypes
  /\ req \in [Requests -> Request \cup {Idle}]
  /\ crossed \subseteq Facets

-----------------------------------------------------------------------------
(* The inductive invariant, part by part.                                  *)

(* What hangs on a strategy goes with it, for good.                        *)
GoneTogether ==
  /\ \A n \in Names : setup[n].state = "gone" => strategy = Gone
  /\ strategy = Gone => \A n \in Names : ~There(setup[n])
  /\ \A s \in Sessions : There(session[s]) => There(setup[session[s].setup])

(* A setup that a handler has loaded was there.                            *)
WasThere(n) == setup[n].state # "none"

(* A copy of the strategy or of a setup that is not outdated is the row.   *)
UpToDate(q) ==
  /\ q.at = "update" /\ "rules" \notin q.outdated /\ There(strategy) => q.old = strategy
  /\ q.at = "setup" =>
       /\ WasThere(q.on)
       /\ There(setup[q.on]) /\ q.on \notin q.outdated => q.old = setup[q.on]
  /\ q.at \in {"judge", "promote"} => WasThere(q.old.setup)

(* A version goes with its rules.                                          *)
Versioned(s) == s.version = Hash(s.entry, s.exits)
VersionHolds == There(strategy) => Versioned(strategy) \/ "rules" \in crossed
VersionLoaded(q) == q.at \in {"update", "create"} => Versioned(q.old) \/ "rules" \in crossed

(* Nobody means to unlock a setup that has not passed.                     *)
Earned(s) == s.useInBot => s.pipeline.paper = "passed"
UnlockEarned(q) ==
  q.at = "setup" =>
    /\ ~q.staged => ~q.new.useInBot
    /\ Earned(q.new) \/ q.on \in crossed

Sound(q) == UpToDate(q) /\ VersionLoaded(q) /\ UnlockEarned(q)
RequestsAreSound == \A p \in Requests : Sound(req[p])

IInv ==
  /\ TypeOK /\ GoneTogether /\ RequestsAreSound /\ VersionHolds
  /\ LockedVersion /\ UnlockedHasPassed

-----------------------------------------------------------------------------
(* Types.                                                                  *)

LEMMA RequestKinds ==
  ASSUME TypeOK, NEW p \in Requests
  PROVE  /\ req[p] = Idle \/ req[p] \in Request
         /\ req[p].at = "update"   => req[p] \in UpdateReq
         /\ req[p].at = "backtest" => req[p] \in BacktestReq
         /\ req[p].at = "create"   => req[p] \in CreateReq
         /\ req[p].at = "setup"    => req[p] \in SetupReq
         /\ req[p].at = "start"    => req[p] \in StartReq
         /\ req[p].at = "fill"     => req[p] \in FillReq
         /\ req[p].at \in {"missed", "stop"} => req[p] \in PlainReq
         /\ req[p].at \in {"judge", "promote"} => req[p] \in PromoteReq
<1>1. req[p] = Idle \/ req[p] \in Request
  BY DEF TypeOK
<1> QED
  BY <1>1 DEF Idle, Request, UpdateReq, BacktestReq, CreateReq, SetupReq, StartReq, FillReq, PlainReq,
              PromoteReq

\* The handlers whose copy of a row matters here.
Holders == {"update", "create", "setup", "judge", "promote"}

\* A request in flight whose copies may have become outdated.
Noted(q, F) == [q EXCEPT !.outdated = @ \cup F]

LEMMA NotedType ==
  ASSUME NEW q \in Request, NEW F \in SUBSET Facets
  PROVE  /\ Noted(q, F) \in Request
         /\ Noted(q, F).at = q.at /\ Noted(q, F).outdated = q.outdated \cup F
         /\ q.at \in Holders => Noted(q, F).old = q.old
         /\ q.at = "setup" => /\ Noted(q, F).on = q.on /\ Noted(q, F).new = q.new
                              /\ Noted(q, F).staged = q.staged
<1>1. CASE q \in UpdateReq
  BY <1>1 DEF Noted, Request, UpdateReq, Holders
<1>2. CASE q \in BacktestReq
  BY <1>2 DEF Noted, Request, BacktestReq, Holders
<1>3. CASE q \in CreateReq
  BY <1>3 DEF Noted, Request, CreateReq, Holders
<1>4. CASE q \in SetupReq
  BY <1>4 DEF Noted, Request, SetupReq, Holders
<1>5. CASE q \in StartReq
  BY <1>5 DEF Noted, Request, StartReq, Holders
<1>6. CASE q \in FillReq
  BY <1>6 DEF Noted, Request, FillReq, Holders
<1>7. CASE q \in PlainReq
  BY <1>7 DEF Noted, Request, PlainReq, Holders
<1>8. CASE q \in PromoteReq
  BY <1>8 DEF Noted, Request, PromoteReq, Holders
<1> QED  BY <1>1, <1>2, <1>3, <1>4, <1>5, <1>6, <1>7, <1>8 DEF Request

LEMMA FinishType ==
  ASSUME TypeOK, NEW p \in Requests, NEW F \in SUBSET Facets, Finish(p, F)
  PROVE  /\ req' \in [Requests -> Request \cup {Idle}] /\ crossed' \subseteq Facets
         /\ crossed \subseteq crossed' /\ F \cap req[p].outdated \subseteq crossed'
<1>1. \A q \in Requests : req[q] = Idle \/ req[q] \in Request
  BY RequestKinds
<1>2. req' = [q \in Requests |->
                IF q = p THEN Idle ELSE IF req[q] = Idle THEN Idle ELSE Noted(req[q], F)]
  BY DEF Finish, Noted
<1>3. \A q \in Requests : req[q] # Idle => Noted(req[q], F) \in Request
  BY <1>1, NotedType
<1>4. crossed' = crossed \cup (F \cap req[p].outdated)
  BY DEF Finish
<1> QED  BY <1>2, <1>3, <1>4 DEF TypeOK

LEMMA LoadType ==
  ASSUME TypeOK, NEW p \in Requests, NEW what, NEW q \in Request, Load(p, what, q)
  PROVE  TypeOK'
  BY DEF Load, TypeOK, RowTypes, data
-----------------------------------------------------------------------------
(* The requests in flight.                                                 *)

\* Request q goes on about the same rows, told that those of F have changed,
\* or it is over.
Told(q, F) ==
  req'[q].at \in Holders =>
    /\ req'[q].at = req[q].at /\ req'[q].old = req[q].old
    /\ req'[q].outdated = req[q].outdated \cup F
    /\ req[q].at = "setup" => /\ req'[q].on = req[q].on /\ req'[q].new = req[q].new
                              /\ req'[q].staged = req[q].staged

\* What a step leaves of the rows, F being those it announces as changed.
Announced(F) ==
  /\ crossed \subseteq crossed'
  /\ There(strategy)' => There(strategy) /\ (strategy' = strategy \/ "rules" \in F)
  /\ \A n \in Names :
       /\ WasThere(n) => WasThere(n)'
       /\ WasThere(n) /\ There(setup'[n]) => There(setup[n]) /\ (setup'[n] = setup[n] \/ n \in F)

LEMMA ToldSound ==
  ASSUME TypeOK, NEW q \in Requests, Sound(req[q]), NEW F, Told(q, F), Announced(F)
  PROVE  Sound(req[q])'
<1>0. /\ req[q].at = "setup" => req[q].on \in Names
      /\ req[q].at \in {"judge", "promote"} => req[q].old.setup \in Names
  BY RequestKinds DEF SetupReq, PromoteReq, SessionRow
<1>1. UpToDate(req[q])'
  <2>1. CASE req'[q].at = "update"
    BY <2>1 DEF Sound, UpToDate, Told, Announced, Holders
  <2>2. CASE req'[q].at = "setup"
    <3>1. req[q].at = "setup" /\ req'[q].on = req[q].on /\ req'[q].old = req[q].old
          /\ req'[q].outdated = req[q].outdated \cup F
      BY <2>2 DEF Told, Holders
    <3>2. WasThere(req[q].on)' /\ WasThere(req[q].on)
      BY <1>0, <3>1 DEF Sound, UpToDate, Announced
    <3> QED  BY <1>0, <2>2, <3>1, <3>2 DEF Sound, UpToDate, Announced, WasThere
  <2>3. CASE req'[q].at \in {"judge", "promote"}
    BY <1>0, <2>3 DEF Sound, UpToDate, Told, Announced, Holders, WasThere
  <2> QED  BY <2>1, <2>2, <2>3 DEF UpToDate
<1>2. VersionLoaded(req[q])'
  BY DEF Sound, VersionLoaded, Versioned, Hash, Told, Announced, Holders
<1>3. UnlockEarned(req[q])'
  BY DEF Sound, UnlockEarned, Earned, Told, Announced, Holders
<1> QED  BY <1>1, <1>2, <1>3 DEF Sound

LEMMA FinishTold ==
  ASSUME TypeOK, NEW p \in Requests, NEW F \in SUBSET Facets, Finish(p, F)
  PROVE  \A q \in Requests : Told(q, F)
<1>1. req' = [q \in Requests |->
                IF q = p THEN Idle ELSE IF req[q] = Idle THEN Idle ELSE Noted(req[q], F)]
  BY DEF Finish, Noted
<1> SUFFICES ASSUME NEW q \in Requests PROVE Told(q, F)
  OBVIOUS
<1>2. CASE req'[q] = Idle
  BY <1>2 DEF Told, Idle, Holders
<1>3. CASE req'[q] # Idle
  <2>1. req'[q] = Noted(req[q], F) /\ req[q] # Idle
    BY <1>1, <1>3
  <2>2. req[q] \in Request
    BY <2>1, RequestKinds
  <2> QED  BY <2>1, <2>2, NotedType DEF Told
<1> QED  BY <1>2, <1>3

LEMMA FinishSound ==
  ASSUME TypeOK, RequestsAreSound, NEW p \in Requests, NEW F \in SUBSET Facets, Finish(p, F), Announced(F)
  PROVE  RequestsAreSound'
  BY FinishTold, ToldSound DEF RequestsAreSound

\* Whoever has only just read its rows holds them as they are.
LEMMA LoadSound ==
  ASSUME IInv, NEW p \in Requests, NEW what, NEW q \in Request, Load(p, what, q), Sound(q)
  PROVE  IInv'
<1>1. UNCHANGED <<strategy, runs, setup, session, crossed>>
  BY DEF Load, data
<1>2. TypeOK'
  BY LoadType DEF IInv
<1>3. RequestsAreSound'
  <2>1. req'[p] = q /\ \A r \in Requests : r # p => req'[r] = req[r]
    BY DEF Load, IInv, TypeOK
  <2> SUFFICES ASSUME NEW r \in Requests PROVE Sound(req[r])'
    BY DEF RequestsAreSound
  <2>2. CASE r = p
    BY <1>1, <2>1, <2>2 DEF Sound, UpToDate, VersionLoaded, UnlockEarned, WasThere, Versioned, Earned, There, Hash
  <2>3. CASE r # p
    BY <1>1, <2>1, <2>3 DEF IInv, RequestsAreSound, Sound, UpToDate, VersionLoaded, UnlockEarned, WasThere,
                            Versioned, Earned, There, Hash
  <2> QED  BY <2>2, <2>3
<1> QED
  BY <1>1, <1>2, <1>3 DEF IInv, GoneTogether, There, VersionHolds, Versioned, Hash, LockedVersion,
                          UnlockedHasPassed

-----------------------------------------------------------------------------
(* The handlers load.                                                      *)

LEMMA RowKinds ==
  ASSUME TypeOK
  PROVE  /\ There(strategy) => strategy \in StrategyRow
         /\ \A n \in Names : There(setup[n]) => setup[n] \in SetupRow
         /\ \A s \in Sessions : There(session[s]) => session[s] \in SessionRow
         /\ \A s \in Sessions : session[s].state = "running" => There(session[s])
  BY DEF TypeOK, RowTypes, There, Absent, Gone

LEMMA StagedType ==
  ASSUME NEW s \in SetupRow, NEW stage \in {"research", "paper"}, NEW status \in Marks
  PROVE  /\ Staged(s, stage, status) \in SetupRow
         /\ Earned(s) \/ stage = "paper" => Earned(Staged(s, stage, status))
<1>1. CASE stage = "paper"
  <2> DEFINE on == [s EXCEPT !.pipeline["paper"] = status]
             unlocked == [on EXCEPT !.useInBot = (status = "passed"),
                                    !.useInPaper = @ \/ status = "passed"]
  <2>1. on \in SetupRow /\ on.pipeline.paper = status
    BY DEF SetupRow, Pipeline
  <2>2. Staged(s, stage, status) = unlocked
    BY <1>1 DEF Staged
  <2> HIDE DEF on
  <2>3. unlocked \in SetupRow /\ unlocked.pipeline = on.pipeline /\ unlocked.useInBot = (status = "passed")
    BY <2>1 DEF SetupRow
  <2> QED  BY <2>1, <2>2, <2>3 DEF Earned
<1>2. CASE stage = "research"
  <2> DEFINE on == [s EXCEPT !.pipeline["research"] = status]
  <2>1. on \in SetupRow /\ on.useInBot = s.useInBot /\ on.pipeline.paper = s.pipeline.paper
    BY DEF SetupRow, Pipeline
  <2>2. Staged(s, stage, status) = on
    BY <1>2 DEF Staged
  <2> QED  BY <1>2, <2>1, <2>2 DEF Earned
<1> QED  BY <1>1, <1>2

LEMMA StrategyLoads ==
  ASSUME IInv, NEW p \in Requests, UpdateStrategy(p) \/ Backtest(p) \/ \E n \in Names : CreateSetup(p, n)
  PROVE  IInv'
<1>0. There(strategy) => strategy \in StrategyRow
  BY RowKinds DEF IInv
<1>1. CASE UpdateStrategy(p)
  <2>1. PICK entry \in Rules, exits \in Rules :
          Load(p, "strategy", [at |-> "update", old |-> strategy, entry |-> entry, exits |-> exits,
                               outdated |-> {}])
    BY <1>1 DEF UpdateStrategy
  <2> DEFINE q == [at |-> "update", old |-> strategy, entry |-> entry, exits |-> exits, outdated |-> {}]
  <2>2. q \in UpdateReq /\ There(strategy)
    BY <1>0, <1>1 DEF UpdateReq, UpdateStrategy
  <2>3. Sound(q)
    BY <2>2 DEF Sound, UpToDate, VersionLoaded, UnlockEarned, IInv, VersionHolds
  <2> QED  BY <2>1, <2>2, <2>3, LoadSound DEF Request
<1>2. CASE Backtest(p)
  <2> DEFINE q == [at |-> "backtest", old |-> strategy, outdated |-> {}]
  <2>1. q \in BacktestReq /\ Load(p, "backtest", q)
    BY <1>0, <1>2 DEF BacktestReq, Backtest
  <2>2. Sound(q)
    BY DEF Sound, UpToDate, VersionLoaded, UnlockEarned
  <2> QED  BY <2>1, <2>2, LoadSound DEF Request
<1>3. ASSUME NEW n \in Names, CreateSetup(p, n)
      PROVE  IInv'
  <2>1. PICK traced \in BOOLEAN :
          Load(p, "create", [at |-> "create", on |-> n, old |-> strategy, traced |-> traced, outdated |-> {}])
    BY <1>3 DEF CreateSetup
  <2> DEFINE q == [at |-> "create", on |-> n, old |-> strategy, traced |-> traced, outdated |-> {}]
  <2>2. q \in CreateReq /\ There(strategy)
    BY <1>0, <1>3 DEF CreateReq, CreateSetup
  <2>3. Sound(q)
    BY <2>2 DEF Sound, UpToDate, VersionLoaded, UnlockEarned, IInv, VersionHolds
  <2> QED  BY <2>1, <2>2, <2>3, LoadSound DEF Request
<1> QED  BY <1>1, <1>2, <1>3

LEMMA SetupLoads ==
  ASSUME IInv, NEW p \in Requests, NEW n \in Names, AdvanceStage(p, n) \/ Archive(p, n)
  PROVE  IInv'
<1>0. There(setup[n]) /\ setup[n] \in SetupRow /\ (Earned(setup[n]) \/ n \in crossed)
  BY RowKinds DEF IInv, AdvanceStage, Archive, UnlockedHasPassed, Earned
<1>1. ASSUME NEW what, NEW new \in SetupRow, NEW staged \in BOOLEAN,
             Load(p, what, [at |-> "setup", on |-> n, old |-> setup[n], new |-> new,
                            staged |-> staged, outdated |-> {}]),
             Earned(new) \/ n \in crossed, ~staged => ~new.useInBot
      PROVE  IInv'
  <2> DEFINE q == [at |-> "setup", on |-> n, old |-> setup[n], new |-> new, staged |-> staged, outdated |-> {}]
  <2>1. q \in SetupReq
    BY <1>0 DEF SetupReq
  <2>2. Sound(q)
    BY <1>0, <1>1 DEF Sound, UpToDate, VersionLoaded, UnlockEarned, WasThere, There
  <2> QED  BY <1>1, <2>1, <2>2, LoadSound DEF Request
<1>2. CASE AdvanceStage(p, n)
  <2>1. PICK stage \in {"research", "paper"}, status \in {"not_started", "running", "passed", "failed"} :
          Load(p, "stage", [at |-> "setup", on |-> n, old |-> setup[n],
                            new |-> Staged(setup[n], stage, status), staged |-> TRUE, outdated |-> {}])
    BY <1>2 DEF AdvanceStage
  <2>2. status \in Marks
    BY DEF Marks
  <2>3. Staged(setup[n], stage, status) \in SetupRow
        /\ (Earned(Staged(setup[n], stage, status)) \/ n \in crossed)
    BY <1>0, <2>2, StagedType
  <2> QED  BY <1>1, <2>1, <2>3
<1>3. CASE Archive(p, n)
  <2> DEFINE new == [setup[n] EXCEPT !.archived = TRUE, !.useInBot = FALSE]
  <2>1. new \in SetupRow /\ ~new.useInBot
    BY <1>0 DEF SetupRow
  <2>2. [at |-> "setup", on |-> n, old |-> setup[n], staged |-> FALSE, outdated |-> {}, new |-> new]
          = [at |-> "setup", on |-> n, old |-> setup[n], new |-> new, staged |-> FALSE, outdated |-> {}]
    OBVIOUS
  <2>3. Load(p, "archive", [at |-> "setup", on |-> n, old |-> setup[n], new |-> new,
                            staged |-> FALSE, outdated |-> {}])
    BY <1>3, <2>2 DEF Archive
  <2> QED  BY <1>1, <2>1, <2>3 DEF Earned
<1> QED  BY <1>2, <1>3

LEMMA SessionLoads ==
  ASSUME IInv, NEW p \in Requests, NEW s \in Sessions,
         StartPaper(p, s) \/ RecordFill(p, s) \/ RecordMissed(p, s) \/ StopPaper(p, s) \/ Promote(p, s)
  PROVE  IInv'
<1>0. TypeOK /\ (There(session[s]) => session[s] \in SessionRow)
  BY RowKinds DEF IInv
<1>a. ASSUME NEW q, q.at \in {"start", "fill", "missed", "stop"}
      PROVE  Sound(q)
  BY <1>a DEF Sound, UpToDate, VersionLoaded, UnlockEarned
<1>1. CASE StartPaper(p, s)
  <2>1. PICK n \in Names, terms \in SUBSET Terms :
          Load(p, "paper", [at |-> "start", on |-> s, setup |-> n, terms |-> terms, outdated |-> {}])
    BY <1>1 DEF StartPaper
  <2> DEFINE q == [at |-> "start", on |-> s, setup |-> n, terms |-> terms, outdated |-> {}]
  <2>2. q \in StartReq /\ q.at = "start"
    BY DEF StartReq
  <2> HIDE DEF q
  <2>3. Load(p, "paper", q)
    BY <2>1 DEF q
  <2> QED  BY <1>a, <2>2, <2>3, LoadSound DEF Request
<1>2. CASE RecordFill(p, s)
  <2>1. PICK pnl \in Pnls, slip \in Slips :
          OnSession(p, "fill", s, [at |-> "fill", on |-> s, old |-> session[s], outdated |-> {},
            fill |-> [pnl |-> pnl, slip |-> slip, after |-> session[s].equity + pnl]])
    BY <1>2 DEF RecordFill
  <2> DEFINE fill == [pnl |-> pnl, slip |-> slip, after |-> session[s].equity + pnl]
             q == [at |-> "fill", on |-> s, old |-> session[s], outdated |-> {}, fill |-> fill]
  <2>2. session[s] \in SessionRow
    BY <1>0, <2>1 DEF OnSession
  <2>3. fill \in Fill
    BY <2>2, AmountsAssumption DEF Fill, SessionRow
  <2>4. q \in FillReq /\ q.at = "fill"
    BY <2>2, <2>3 DEF FillReq
  <2>5. Load(p, "fill", q)
    BY <2>1 DEF OnSession
  <2> HIDE DEF q
  <2> QED  BY <1>a, <2>4, <2>5, LoadSound DEF Request
<1>3. ASSUME NEW what \in {"missed", "stop"},
             OnSession(p, what, s, [at |-> what, on |-> s, old |-> session[s], outdated |-> {}])
      PROVE  IInv'
  <2> DEFINE q == [at |-> what, on |-> s, old |-> session[s], outdated |-> {}]
  <2>1. q \in PlainReq /\ q.at \in {"missed", "stop"}
    BY <1>0, <1>3 DEF PlainReq, OnSession
  <2>2. Load(p, what, q)
    BY <1>3 DEF OnSession
  <2> HIDE DEF q
  <2> QED  BY <1>a, <2>1, <2>2, LoadSound DEF Request
<1>4. CASE Promote(p, s)
  <2>1. PICK override \in BOOLEAN :
          OnSession(p, "promote", s, [at |-> "judge", on |-> s, old |-> session[s], outdated |-> {},
                                      override |-> override, setup |-> setup[session[s].setup]])
    BY <1>4 DEF Promote
  <2> DEFINE q == [at |-> "judge", on |-> s, old |-> session[s], outdated |-> {},
                   override |-> override, setup |-> setup[session[s].setup]]
  <2>2. session[s] \in SessionRow /\ There(session[s])
    BY <1>0, <2>1 DEF OnSession
  <2>3. There(setup[session[s].setup]) /\ session[s].setup \in Names
    BY <2>2 DEF IInv, GoneTogether, SessionRow
  <2>4. setup[session[s].setup] \in SetupRow
    BY <1>0, <2>3, RowKinds
  <2>5. q \in PromoteReq /\ Load(p, "promote", q)
    BY <2>1, <2>2, <2>4 DEF PromoteReq, OnSession
  <2>6. Sound(q)
    BY <2>3 DEF Sound, UpToDate, VersionLoaded, UnlockEarned, WasThere, There
  <2> QED  BY <2>5, <2>6, LoadSound DEF Request
<1> QED  BY <1>1, <1>2, <1>3, <1>4 DEF RecordMissed, StopPaper

-----------------------------------------------------------------------------
(* The handlers commit.                                                    *)

LEMMA SameRows ==
  ASSUME IInv, UNCHANGED <<strategy, setup, session>>, crossed \subseteq crossed'
  PROVE  /\ GoneTogether' /\ VersionHolds' /\ LockedVersion' /\ UnlockedHasPassed'
         /\ \A F \in SUBSET Facets : Announced(F)
<1>1. GoneTogether' /\ VersionHolds'
  BY DEF IInv, GoneTogether, There, VersionHolds, Versioned, Hash
<1>2. LockedVersion' /\ UnlockedHasPassed'
  BY DEF IInv, There, LockedVersion, UnlockedHasPassed
<1>3. \A F \in SUBSET Facets : Announced(F)
  BY DEF Announced, There, WasThere
<1> QED  BY <1>1, <1>2, <1>3

\* A handler that changes no strategy and no setup.
LEMMA QuietFinish ==
  ASSUME IInv, NEW p \in Requests, NEW F \in SUBSET Facets, Finish(p, F),
         UNCHANGED <<strategy, setup>>, RowTypes', GoneTogether'
  PROVE  IInv'
<1>1. /\ req' \in [Requests -> Request \cup {Idle}] /\ crossed' \subseteq Facets
      /\ crossed \subseteq crossed'
  BY FinishType DEF IInv
<1>2. VersionHolds' /\ LockedVersion' /\ UnlockedHasPassed' /\ Announced(F)
  BY <1>1 DEF IInv, VersionHolds, Versioned, Hash, There, LockedVersion, UnlockedHasPassed, Announced,
              WasThere
<1>3. RequestsAreSound'
  BY <1>2, FinishSound DEF IInv
<1> QED  BY <1>1, <1>2, <1>3 DEF IInv, TypeOK

LEMMA RefusedStep ==
  ASSUME IInv, NEW p \in Requests, Refused(p)
  PROVE  IInv'
<1>1. Finish(p, {}) /\ UNCHANGED <<strategy, runs, setup, session>>
  BY DEF Refused, data
<1>2. RowTypes' /\ GoneTogether'
  BY <1>1 DEF IInv, TypeOK, RowTypes, GoneTogether, There
<1> QED  BY <1>1, <1>2, QuietFinish

LEMMA UpdatedType ==
  ASSUME strategy \in StrategyRow, NEW q \in UpdateReq
  PROVE  /\ Updated(q) \in StrategyRow
         /\ q.old = strategy => Versioned(Updated(q))
<1> DEFINE new == [state |-> "saved", entry |-> Column(strategy.entry, q.old.entry, q.entry),
                   exits |-> Column(strategy.exits, q.old.exits, q.exits),
                   version |-> Column(strategy.version, q.old.version, Hash(q.entry, q.exits))]
<1>0. Hash(q.entry, q.exits) \in Versions
  BY DEF Hash, Versions, UpdateReq
<1>1. new \in StrategyRow
  BY <1>0 DEF StrategyRow, UpdateReq, Column
<1>2. Updated(q) \in StrategyRow
  BY <1>0 DEF Updated, StrategyRow, UpdateReq, Column
<1>3. /\ Updated(q).entry = new.entry /\ Updated(q).exits = new.exits
      /\ Updated(q).version = new.version
  BY DEF Updated, StrategyRow
<1>4. ASSUME q.old = strategy
      PROVE  Versioned(Updated(q))
  <2>1. new.entry = q.entry /\ new.exits = q.exits /\ new.version = Hash(q.entry, q.exits)
    BY <1>4 DEF Column
  <2> HIDE DEF new
  <2> QED  BY <1>3, <2>1 DEF Versioned
<1> QED  BY <1>2, <1>4

LEMMA UpdateCommitStep ==
  ASSUME IInv, NEW p \in Requests, UpdateCommit(p)
  PROVE  IInv'
<1>1. CASE ~There(strategy)
  BY <1>1, RefusedStep DEF UpdateCommit
<1>2. CASE There(strategy)
  <2> DEFINE F == IF strategy' = strategy THEN {} ELSE {"rules"}
  <2>0. F \in SUBSET Facets
    BY DEF Facets
  <2>1. strategy' = Updated(req[p]) /\ Finish(p, F) /\ UNCHANGED <<runs, setup, session>>
    BY <1>2 DEF UpdateCommit
  <2>2. strategy \in StrategyRow /\ req[p] \in UpdateReq /\ req[p].at = "update"
    BY <1>2, RowKinds, RequestKinds DEF UpdateCommit, IInv
  <2>3. strategy' \in StrategyRow /\ There(strategy)' /\ strategy' # Gone
    BY <2>1, <2>2, UpdatedType DEF StrategyRow, There, Gone
  <2>4. /\ req' \in [Requests -> Request \cup {Idle}] /\ crossed' \subseteq Facets
        /\ crossed \subseteq crossed' /\ F \cap req[p].outdated \subseteq crossed'
    BY <2>0, <2>1, FinishType DEF IInv
  <2>5. Announced(F)
    BY <1>2, <2>1, <2>4 DEF Announced, There, WasThere
  <2>6. RequestsAreSound'
    BY <2>0, <2>1, <2>5, FinishSound DEF IInv
  <2>7. VersionHolds'
    <3>1. CASE strategy' = strategy
      BY <1>2, <2>4, <3>1 DEF IInv, VersionHolds, Versioned, Hash
    <3>2. CASE strategy' # strategy /\ "rules" \in req[p].outdated
      BY <2>4, <3>2 DEF VersionHolds
    <3>3. CASE "rules" \notin req[p].outdated
      <4>1. req[p].old = strategy
        BY <1>2, <2>2, <3>3 DEF IInv, RequestsAreSound, Sound, UpToDate
      <4>2. Versioned(Updated(req[p]))
        BY <2>2, <4>1, UpdatedType
      <4>3. Versioned(strategy)'
        BY <2>1, <4>2 DEF Versioned, Hash
      <4> QED  BY <4>3 DEF VersionHolds
    <3> QED  BY <3>1, <3>2, <3>3
  <2>8. TypeOK'
    BY <2>1, <2>3, <2>4 DEF IInv, TypeOK, RowTypes
  <2>9. GoneTogether' /\ LockedVersion' /\ UnlockedHasPassed'
    <3>1. strategy # Gone
      BY <1>2 DEF There, Gone
    <3>2. GoneTogether'
      BY <2>1, <2>3, <3>1 DEF IInv, GoneTogether, There
    <3> QED  BY <2>1, <2>4, <3>2 DEF IInv, There, LockedVersion, UnlockedHasPassed
  <2> QED  BY <2>6, <2>7, <2>8, <2>9 DEF IInv
<1> QED  BY <1>1, <1>2

LEMMA BacktestCommitStep ==
  ASSUME IInv, NEW p \in Requests, BacktestCommit(p)
  PROVE  IInv'
<1>1. CASE ~There(strategy)
  BY <1>1, RefusedStep DEF BacktestCommit
<1>2. CASE There(strategy)
  <2>1. /\ runs' = runs \cup {Hash(req[p].old.entry, req[p].old.exits)}
        /\ Finish(p, {}) /\ UNCHANGED <<strategy, setup, session>>
    BY <1>2 DEF BacktestCommit
  <2>2. req[p] \in BacktestReq
    BY RequestKinds DEF BacktestCommit, IInv
  <2>3. Hash(req[p].old.entry, req[p].old.exits) \in Versions
    BY <2>2 DEF BacktestReq, StrategyRow, Hash, Versions
  <2>4. RowTypes'
    BY <2>1, <2>3 DEF IInv, TypeOK, RowTypes
  <2>5. GoneTogether'
    BY <2>1 DEF IInv, GoneTogether, There
  <2> QED  BY <2>1, <2>4, <2>5, QuietFinish
<1> QED  BY <1>1, <1>2

\* A handler that writes one setup, of a strategy that is there.
LEMMA SetupFinish ==
  ASSUME IInv, NEW p \in Requests, NEW F \in SUBSET Facets, Finish(p, F),
         NEW n \in Names, NEW row_ \in SetupRow,
         setup' = [setup EXCEPT ![n] = row_], UNCHANGED strategy, There(strategy), RowTypes',
         \A s \in Sessions : There(session'[s]) => There(session[s]) /\ session'[s].setup = session[s].setup,
         setup[n] = row_ \/ n \in F \/ ~WasThere(n),
         WasThere(n) => There(setup[n]),
         row_.version = row_.snapshot \/ "rules" \in crossed',
         Earned(row_) \/ n \in crossed'
  PROVE  IInv'
<1>0. /\ There(row_) /\ row_.state = "kept" /\ setup'[n] = row_ /\ strategy # Gone
      /\ \A m \in Names : m # n => setup'[m] = setup[m]
  BY DEF SetupRow, There, Gone, IInv, TypeOK, RowTypes
<1>1. /\ req' \in [Requests -> Request \cup {Idle}] /\ crossed' \subseteq Facets
      /\ crossed \subseteq crossed'
  BY FinishType DEF IInv
<1>2. GoneTogether'
  <2>1. \A m \in Names : There(setup[m]) => There(setup'[m])
    BY <1>0
  <2>2. \A m \in Names : setup'[m].state # "gone"
    BY <1>0 DEF IInv, GoneTogether
  <2>3. \A s \in Sessions : There(session[s]) => session[s].setup \in Names
    BY RowKinds DEF IInv, SessionRow
  <2>4. \A s \in Sessions : There(session'[s]) => There(setup'[session'[s].setup])
    BY <2>1, <2>3 DEF IInv, GoneTogether
  <2> QED  BY <1>0, <2>2, <2>4 DEF GoneTogether, There
<1>3. Announced(F)
  <2>1. ASSUME NEW m \in Names
        PROVE  /\ WasThere(m) => WasThere(m)'
               /\ WasThere(m) /\ There(setup'[m]) =>
                    There(setup[m]) /\ (setup'[m] = setup[m] \/ m \in F)
    <3>1. CASE m # n
      BY <1>0, <3>1 DEF WasThere
    <3>2. CASE m = n
      BY <1>0, <3>2 DEF WasThere
    <3> QED  BY <3>1, <3>2
  <2> QED  BY <1>1, <2>1 DEF Announced, There
<1>4. RequestsAreSound'
  BY <1>3, FinishSound DEF IInv
<1>5. VersionHolds'
  BY <1>1 DEF IInv, VersionHolds, Versioned, Hash, There
<1>6. LockedVersion'
  BY <1>0, <1>1 DEF IInv, LockedVersion
<1>7. UnlockedHasPassed'
  BY <1>0, <1>1 DEF IInv, UnlockedHasPassed, Earned
<1> QED  BY <1>1, <1>2, <1>4, <1>5, <1>6, <1>7 DEF IInv, TypeOK

LEMMA CreateCommitStep ==
  ASSUME IInv, NEW p \in Requests, CreateCommit(p)
  PROVE  IInv'
<1> DEFINE n == req[p].on
<1>0. req[p] \in CreateReq /\ req[p].at = "create" /\ n \in Names
  BY RequestKinds DEF CreateCommit, IInv, CreateReq
<1>1. CASE ~(There(strategy) /\ ~There(setup[n]))
  BY <1>1, RefusedStep DEF CreateCommit
<1>2. CASE There(strategy) /\ ~There(setup[n])
  <2>1. /\ setup' = [setup EXCEPT ![n] = NewSetup(req[p])]
        /\ Finish(p, {}) /\ UNCHANGED <<strategy, runs, session>>
    BY <1>2 DEF CreateCommit
  <2>2. NewSetup(req[p]) \in SetupRow /\ Earned(NewSetup(req[p]))
        /\ NewSetup(req[p]).version = req[p].old.version
        /\ NewSetup(req[p]).snapshot = Hash(req[p].old.entry, req[p].old.exits)
    BY <1>0 DEF NewSetup, SetupRow, Earned, CreateReq, StrategyRow, Hash, Versions, Pipeline, Marks
  <2>3. ~WasThere(n)
    <3>1. strategy # Gone
      BY <1>2 DEF There, Gone
    <3> QED  BY <1>0, <1>2, <3>1 DEF IInv, GoneTogether, WasThere, There
  <2>4. RowTypes'
    BY <1>0, <2>1, <2>2 DEF IInv, TypeOK, RowTypes
  <2>5. Versioned(req[p].old) \/ "rules" \in crossed
    BY <1>0 DEF IInv, RequestsAreSound, Sound, VersionLoaded
  <2>6. crossed \subseteq crossed'
    BY <2>1, FinishType DEF IInv
  <2> HIDE DEF n
  <2> QED
    BY <1>0, <1>2, <2>1, <2>2, <2>3, <2>4, <2>5, <2>6, SetupFinish DEF Versioned
<1> QED  BY <1>1, <1>2

LEMMA StoredType ==
  ASSUME NEW now \in SetupRow, NEW old \in SetupRow, NEW new \in SetupRow
  PROVE  /\ Stored(now, old, new) \in SetupRow
         /\ Stored(now, old, new).version = now.version /\ Stored(now, old, new).snapshot = now.snapshot
         /\ Stored(now, old, new).pipeline = new.pipeline
         /\ Stored(now, old, new).useInBot = Column(now.useInBot, old.useInBot, new.useInBot)
<1>1. /\ Column(now.archived, old.archived, new.archived) \in BOOLEAN
      /\ Column(now.useInBot, old.useInBot, new.useInBot) \in BOOLEAN
      /\ Column(now.useInPaper, old.useInPaper, new.useInPaper) \in BOOLEAN
  BY DEF Column, SetupRow
<1> QED  BY <1>1 DEF Stored, SetupRow

LEMMA SetupCommitStep ==
  ASSUME IInv, NEW p \in Requests, SetupCommit(p)
  PROVE  IInv'
<1> DEFINE q == req[p]
           n == q.on
           full == Stored(setup[n], q.old, q.new)
           row_ == IF q.staged THEN full ELSE [full EXCEPT !.pipeline = setup[n].pipeline]
<1>0. q \in SetupReq /\ q.at = "setup" /\ n \in Names
  BY RequestKinds DEF SetupCommit, IInv, SetupReq
<1>1. CASE ~There(setup[n])
  BY <1>1, RefusedStep DEF SetupCommit
<1>2. CASE There(setup[n])
  <2> DEFINE F == IF setup' = setup THEN {} ELSE {n}
  <2>1. /\ setup' = [setup EXCEPT ![n] = row_]
        /\ Finish(p, F) /\ UNCHANGED <<strategy, runs, session>>
    BY <1>2 DEF SetupCommit
  <2>2. setup[n] \in SetupRow /\ q.old \in SetupRow /\ q.new \in SetupRow
    BY <1>0, <1>2, RowKinds DEF IInv, SetupReq
  <2>3. /\ full \in SetupRow /\ full.version = setup[n].version /\ full.snapshot = setup[n].snapshot
        /\ full.pipeline = q.new.pipeline
        /\ full.useInBot = Column(setup[n].useInBot, q.old.useInBot, q.new.useInBot)
    BY <2>2, StoredType
  <2> HIDE DEF full
  <2>4. /\ row_ \in SetupRow /\ row_.version = setup[n].version /\ row_.snapshot = setup[n].snapshot
        /\ row_.useInBot = full.useInBot
        /\ q.staged => row_.pipeline = q.new.pipeline
    BY <2>2, <2>3 DEF SetupRow
  <2>5. /\ There(strategy)
        /\ RowTypes'
    <3>1. There(strategy)
      BY <1>0, <1>2 DEF IInv, GoneTogether, There, TypeOK, RowTypes, StrategyRow
    <3>2. RowTypes'
      BY <1>0, <2>1, <2>4 DEF IInv, TypeOK, RowTypes
    <3> QED  BY <3>1, <3>2
  <2> HIDE DEF row_
  <2>6. setup[n] = row_ \/ n \in F
    BY <1>0, <2>1 DEF IInv, TypeOK, RowTypes
  <2>7. F \in SUBSET Facets
    BY <1>0 DEF Facets
  <2>8. crossed \subseteq crossed' /\ F \cap q.outdated \subseteq crossed'
    BY <2>1, <2>7, FinishType DEF IInv
  <2>9. Earned(row_) \/ n \in crossed'
    <3>1. CASE setup[n] = row_
      BY <1>0, <1>2, <2>8, <3>1 DEF IInv, UnlockedHasPassed, Earned
    <3>2. CASE setup[n] # row_ /\ n \in q.outdated
      BY <2>6, <2>8, <3>2
    <3>3. CASE n \notin q.outdated
      <4>1. q.old = setup[n]
        BY <1>0, <1>2, <3>3 DEF IInv, RequestsAreSound, Sound, UpToDate
      <4>2. row_.useInBot = q.new.useInBot
        BY <2>3, <2>4, <4>1 DEF Column
      <4>3. /\ ~q.staged => ~q.new.useInBot
            /\ Earned(q.new) \/ n \in crossed
        BY <1>0 DEF IInv, RequestsAreSound, Sound, UnlockEarned
      <4> QED  BY <2>4, <2>8, <4>2, <4>3 DEF Earned
    <3> QED  BY <3>1, <3>2, <3>3
  <2>10. row_.version = row_.snapshot \/ "rules" \in crossed'
    BY <1>0, <1>2, <2>4, <2>8 DEF IInv, LockedVersion
  <2> HIDE DEF n, F, q
  <2> QED
    BY <1>0, <1>2, <2>1, <2>4, <2>5, <2>6, <2>7, <2>9, <2>10, SetupFinish
<1> QED  BY <1>1, <1>2

\* A handler that writes one paper session.
LEMMA SessionFinish ==
  ASSUME IInv, NEW p \in Requests, NEW F \in SUBSET Facets, Finish(p, F),
         NEW s \in Sessions, NEW row_ \in SessionRow,
         session' = [session EXCEPT ![s] = row_], UNCHANGED <<strategy, runs, setup>>,
         There(setup[row_.setup])
  PROVE  IInv'
<1>1. RowTypes'
  BY DEF IInv, TypeOK, RowTypes
<1>2. GoneTogether'
  <2>1. /\ session'[s] = row_
        /\ \A r \in Sessions : r # s => session'[r] = session[r]
    BY DEF IInv, TypeOK, RowTypes
  <2> QED  BY <2>1 DEF IInv, GoneTogether, There
<1> QED  BY <1>1, <1>2, QuietFinish

LEMMA StartCommitStep ==
  ASSUME IInv, NEW p \in Requests, StartCommit(p)
  PROVE  IInv'
<1>0. req[p] \in StartReq
  BY RequestKinds DEF StartCommit, IInv
<1>1. CASE ~There(setup[req[p].setup])
  BY <1>1, RefusedStep DEF StartCommit
<1>2. CASE There(setup[req[p].setup])
  <2> DEFINE row_ == [state |-> "running", setup |-> req[p].setup, terms |-> req[p].terms,
                      aged |-> FALSE, equity |-> Capital, fills |-> <<>>, missed |-> 0,
                      override |-> FALSE]
  <2>1. /\ session' = [session EXCEPT ![req[p].on] = row_]
        /\ Finish(p, {}) /\ UNCHANGED <<strategy, runs, setup>>
    BY <1>2 DEF StartCommit
  <2>2. row_ \in SessionRow /\ row_.setup = req[p].setup /\ req[p].on \in Sessions
    BY <1>0, AmountsAssumption DEF SessionRow, StartReq
  <2> HIDE DEF row_
  <2> QED  BY <1>2, <2>1, <2>2, SessionFinish
<1> QED  BY <1>1, <1>2

LEMMA SessionTypes ==
  ASSUME NEW now \in SessionRow, NEW q
  PROVE  /\ q \in FillReq => Filled(now, q) \in SessionRow /\ Filled(now, q).setup = now.setup
         /\ q \in PlainReq => /\ Missed(now, q) \in SessionRow /\ Missed(now, q).setup = now.setup
                              /\ Stopped(now, q) \in SessionRow /\ Stopped(now, q).setup = now.setup
         /\ q \in PromoteReq => Promoted(now, q) \in SessionRow /\ Promoted(now, q).setup = now.setup
<1>1. ASSUME q \in FillReq
      PROVE  Filled(now, q) \in SessionRow /\ Filled(now, q).setup = now.setup
  <2>1. Column(now.equity, q.old.equity, q.fill.after) \in Int /\ Append(now.fills, q.fill) \in Seq(Fill)
    BY <1>1 DEF Column, FillReq, Fill, SessionRow
  <2> QED  BY <2>1 DEF Filled, SessionRow
<1>2. ASSUME q \in PlainReq
      PROVE  /\ Missed(now, q) \in SessionRow /\ Missed(now, q).setup = now.setup
             /\ Stopped(now, q) \in SessionRow /\ Stopped(now, q).setup = now.setup
  <2>1. /\ Column(now.missed, q.old.missed, q.old.missed + 1) \in Int
        /\ Column(now.state, q.old.state, "stopped") \in {"running", "stopped", "promoted"}
    BY <1>2 DEF Column, PlainReq, SessionRow
  <2> QED  BY <2>1 DEF Missed, Stopped, SessionRow
<1>3. ASSUME q \in PromoteReq
      PROVE  Promoted(now, q) \in SessionRow /\ Promoted(now, q).setup = now.setup
  <2>1. /\ Column(now.override, q.old.override, q.override) \in BOOLEAN
        /\ Column(now.state, q.old.state, "promoted") \in {"running", "stopped", "promoted"}
    BY <1>3 DEF Column, PromoteReq, SessionRow
  <2> QED  BY <2>1 DEF Promoted, SessionRow
<1> QED  BY <1>1, <1>2, <1>3

LEMMA SessionCommitStep ==
  ASSUME IInv, NEW p \in Requests, SessionCommit(p)
  PROVE  IInv'
<1> DEFINE q == req[p]
           now == session[q.on]
           row_ == CASE q.at = "fill" -> Filled(now, q)
                     [] q.at = "missed" -> Missed(now, q)
                     [] q.at = "stop" -> Stopped(now, q)
           F == IF q.at = "fill" THEN {q.on} ELSE {}
<1>0. /\ q.at \in {"fill", "missed", "stop"} /\ q.on \in Sessions
      /\ q.at = "fill" => q \in FillReq
      /\ q.at \in {"missed", "stop"} => q \in PlainReq
  BY RequestKinds DEF SessionCommit, IInv, FillReq, PlainReq
<1>1. CASE ~There(now)
  BY <1>1, RefusedStep DEF SessionCommit
<1>2. CASE There(now)
  <2>1. /\ session' = [session EXCEPT ![q.on] = row_]
        /\ Finish(p, F) /\ UNCHANGED <<strategy, runs, setup>>
    BY <1>2 DEF SessionCommit
  <2>2. now \in SessionRow /\ There(setup[now.setup])
    BY <1>0, <1>2, RowKinds DEF IInv, GoneTogether
  <2>3. row_ \in SessionRow /\ row_.setup = now.setup
    BY <1>0, <2>2, SessionTypes
  <2>4. F \in SUBSET Facets
    BY <1>0 DEF Facets
  <2> HIDE DEF row_, F, now, q
  <2> QED  BY <1>0, <2>1, <2>2, <2>3, <2>4, SessionFinish
<1> QED  BY <1>1, <1>2

LEMMA PromoteCommitStep ==
  ASSUME IInv, NEW p \in Requests, PromoteCommit(p)
  PROVE  IInv'
<1> DEFINE q == req[p]
           s == q.on
           n == q.old.setup
           F == IF setup' = setup THEN {} ELSE {n}
           row_ == Stored(setup[n], q.setup, Unlocked(q.setup))
<1>0. /\ q \in PromoteReq /\ q.at = "promote" /\ s \in Sessions /\ n \in Names
      /\ q.setup \in SetupRow
  BY RequestKinds DEF PromoteCommit, IInv, PromoteReq, SessionRow
<1>1. CASE ~There(session[s])
  BY <1>1, RefusedStep DEF PromoteCommit
<1>2. CASE There(session[s])
  <2>1. /\ session' = [session EXCEPT ![s] = Promoted(session[s], q)]
        /\ setup' = [setup EXCEPT ![n] = row_]
        /\ Finish(p, F) /\ UNCHANGED <<strategy, runs>>
    BY <1>2 DEF PromoteCommit
  <2>2. session[s] \in SessionRow /\ There(setup[session[s].setup]) /\ session[s].setup \in Names
    BY <1>0, <1>2, RowKinds DEF IInv, GoneTogether, SessionRow
  <2>3. There(strategy) /\ There(setup[n]) /\ setup[n] \in SetupRow
    <3>1. strategy # Gone
      BY <2>2 DEF IInv, GoneTogether
    <3>2. There(strategy)
      BY <3>1 DEF IInv, TypeOK, RowTypes, There, StrategyRow
    <3>3. WasThere(n)
      BY <1>0 DEF IInv, RequestsAreSound, Sound, UpToDate
    <3>4. setup[n].state # "gone"
      BY <1>0, <3>1 DEF IInv, GoneTogether
    <3> QED  BY <1>0, <3>2, <3>3, <3>4, RowKinds DEF IInv, There, WasThere
  <2>4. Unlocked(q.setup) \in SetupRow /\ Unlocked(q.setup).pipeline.paper = "passed"
    <3>1. [q.setup.pipeline EXCEPT !.paper = "passed"] \in Pipeline
      BY <1>0 DEF SetupRow, Pipeline, Marks
    <3> QED  BY <1>0, <3>1 DEF Unlocked, SetupRow, Pipeline
  <2>5. /\ row_ \in SetupRow /\ row_.version = setup[n].version /\ row_.snapshot = setup[n].snapshot
        /\ row_.pipeline.paper = "passed"
    BY <1>0, <2>3, <2>4, StoredType
  <2> HIDE DEF row_
  <2>6. /\ Promoted(session[s], q) \in SessionRow
        /\ Promoted(session[s], q).setup = session[s].setup
    BY <1>0, <2>2, SessionTypes
  <2>7. RowTypes'
    BY <1>0, <2>1, <2>5, <2>6 DEF IInv, TypeOK, RowTypes
  <2>8. \A r \in Sessions : There(session'[r]) =>
          There(session[r]) /\ session'[r].setup = session[r].setup
    BY <1>0, <1>2, <2>1, <2>6 DEF IInv, TypeOK, RowTypes
  <2>9. setup[n] = row_ \/ n \in F
    BY <1>0, <2>1 DEF IInv, TypeOK, RowTypes
  <2>10. F \in SUBSET Facets
    BY <1>0 DEF Facets
  <2>11. row_.version = row_.snapshot \/ "rules" \in crossed'
    <3>1. crossed \subseteq crossed'
      BY <2>1, <2>10, FinishType DEF IInv
    <3> QED  BY <1>0, <2>3, <2>5, <3>1 DEF IInv, LockedVersion
  <2> HIDE DEF n, F, s, q
  <2> QED
    BY <1>0, <2>1, <2>3, <2>5, <2>7, <2>8, <2>9, <2>10, <2>11, SetupFinish DEF Earned
<1> QED  BY <1>1, <1>2

LEMMA JudgeStep ==
  ASSUME IInv, NEW p \in Requests, Judge(p)
  PROVE  IInv'
<1>1. CASE Refused(p)
  BY <1>1, RefusedStep
<1>2. ASSUME NEW override \in BOOLEAN,
             req' = [req EXCEPT ![p] = [at |-> "promote", on |-> @.on, old |-> @.old, setup |-> @.setup,
                                        override |-> override, outdated |-> @.outdated]],
             UNCHANGED <<jobVars, left, data, crossed>>
      PROVE  IInv'
  <2> DEFINE new == [at |-> "promote", on |-> req[p].on, old |-> req[p].old, setup |-> req[p].setup,
                     override |-> override, outdated |-> req[p].outdated]
  <2>0. req[p] \in PromoteReq
    BY RequestKinds DEF Judge, IInv
  <2>1. new \in PromoteReq /\ new.at = "promote" /\ new.old = req[p].old
    BY <2>0 DEF PromoteReq
  <2>2. req' = [req EXCEPT ![p] = new]
    BY <1>2 DEF IInv, TypeOK
  <2>3. UNCHANGED <<strategy, runs, setup, session, crossed>>
    BY <1>2 DEF data
  <2>4. TypeOK'
    BY <2>1, <2>2, <2>3 DEF IInv, TypeOK, RowTypes, Request
  <2>5. RequestsAreSound'
    <3> SUFFICES ASSUME NEW q \in Requests PROVE Sound(req[q])'
      BY DEF RequestsAreSound
    <3>1. CASE q = p
      <4>1. req'[q].at = "promote" /\ req'[q].old = req[p].old
        BY <2>1, <2>2, <3>1 DEF IInv, TypeOK
      <4>2. WasThere(req[p].old.setup)
        BY DEF Judge, IInv, RequestsAreSound, Sound, UpToDate
      <4> QED  BY <2>3, <4>1, <4>2 DEF Sound, UpToDate, VersionLoaded, UnlockEarned, WasThere
    <3>2. CASE q # p
      <4>1. req'[q] = req[q]
        BY <2>2, <3>2 DEF IInv, TypeOK
      <4> QED
        BY <2>3, <4>1 DEF IInv, RequestsAreSound, Sound, UpToDate, VersionLoaded, UnlockEarned, WasThere,
                          Versioned, Earned, There, Hash
    <3> QED  BY <3>1, <3>2
  <2> QED  BY <2>3, <2>4, <2>5, SameRows DEF IInv
<1>3. PICK fills : LET ready == Ready(req[p].old, fills) IN
        IF ready \/ req[p].override
        THEN /\ req' = [req EXCEPT ![p] = [at |-> "promote", on |-> @.on, old |-> @.old,
                                           setup |-> @.setup, override |-> ~ready,
                                           outdated |-> @.outdated]]
             /\ UNCHANGED <<jobVars, left, data, crossed>>
        ELSE Refused(p)
  BY DEF Judge
<1>4. (~Ready(req[p].old, fills)) \in BOOLEAN
  OBVIOUS
<1> QED  BY <1>1, <1>2, <1>3, <1>4

-----------------------------------------------------------------------------
(* The other steps.                                                        *)

LEMMA DeleteStep ==
  ASSUME IInv, NEW p \in Requests, DeleteStrategy(p)
  PROVE  IInv'
<1>1. /\ strategy' = Gone /\ runs' = {} /\ UNCHANGED <<req, crossed>>
      /\ setup' = [n \in Names |-> IF There(setup[n]) THEN Gone ELSE setup[n]]
      /\ session' = [s \in Sessions |-> IF There(session[s]) THEN Gone ELSE session[s]]
  BY DEF DeleteStrategy
<1>2. TypeOK'
  BY <1>1 DEF IInv, TypeOK, RowTypes
<1>3. /\ ~There(strategy') /\ \A n \in Names : ~There(setup'[n])
      /\ \A s \in Sessions : ~There(session'[s])
  BY <1>1 DEF There, Gone
<1>4. \A n \in Names : WasThere(n) => WasThere(n)'
  BY <1>1 DEF WasThere, Gone
<1>5. GoneTogether'
  BY <1>1, <1>3 DEF GoneTogether, There
<1>6. RequestsAreSound'
  <2>1. \A q \in Requests : Told(q, {})
    BY <1>1 DEF Told
  <2>2. Announced({})
    BY <1>1, <1>3, <1>4 DEF Announced, There
  <2> QED  BY <2>1, <2>2, ToldSound DEF IInv, RequestsAreSound
<1>7. VersionHolds' /\ LockedVersion' /\ UnlockedHasPassed'
  BY <1>3 DEF VersionHolds, LockedVersion, UnlockedHasPassed, There
<1> QED  BY <1>2, <1>5, <1>6, <1>7 DEF IInv

LEMMA AgesStep ==
  ASSUME IInv, NEW s \in Sessions, Ages(s)
  PROVE  IInv'
<1> DEFINE row_ == [session[s] EXCEPT !.aged = TRUE]
<1>1. UNCHANGED <<strategy, runs, setup, req, crossed>> /\ session' = [session EXCEPT ![s] = row_]
  BY DEF Ages, IInv, TypeOK, RowTypes
<1>2. session[s] \in SessionRow /\ There(session[s])
  BY RowKinds DEF Ages, IInv
<1>3. row_ \in SessionRow /\ row_.setup = session[s].setup
  BY <1>2 DEF SessionRow
<1> HIDE DEF row_
<1>4. TypeOK'
  BY <1>1, <1>3 DEF IInv, TypeOK, RowTypes
<1>5. GoneTogether'
  <2>1. /\ session'[s] = row_
        /\ \A r \in Sessions : r # s => session'[r] = session[r]
    BY <1>1 DEF IInv, TypeOK, RowTypes
  <2> QED  BY <1>1, <1>2, <1>3, <2>1 DEF IInv, GoneTogether, There
<1>6. RequestsAreSound' /\ VersionHolds' /\ LockedVersion' /\ UnlockedHasPassed'
  BY <1>1 DEF IInv, RequestsAreSound, Sound, UpToDate, VersionLoaded, UnlockEarned, WasThere, Versioned,
              Earned, There, Hash, VersionHolds, LockedVersion, UnlockedHasPassed
<1> QED  BY <1>4, <1>5, <1>6 DEF IInv

LEMMA SameStep ==
  ASSUME IInv, UNCHANGED setupVars
  PROVE  IInv'
<1>1. UNCHANGED <<strategy, runs, setup, session, req, crossed>>
  BY DEF setupVars
<1>2. TypeOK'
  BY <1>1 DEF IInv, TypeOK, RowTypes
<1>3. RequestsAreSound'
  BY <1>1 DEF IInv, RequestsAreSound, Sound, UpToDate, VersionLoaded, UnlockEarned, WasThere, Versioned,
              Earned, There, Hash
<1> QED  BY <1>1, <1>2, <1>3, SameRows DEF IInv

LEMMA RestartStep ==
  ASSUME IInv, Restart
  PROVE  IInv'
<1>1. UNCHANGED <<strategy, runs, setup, session, crossed>> /\ req' = [p \in Requests |-> Idle]
  BY DEF Restart, data
<1>2. TypeOK'
  BY <1>1 DEF IInv, TypeOK, RowTypes
<1>3. RequestsAreSound'
  BY <1>1 DEF RequestsAreSound, Sound, UpToDate, VersionLoaded, UnlockEarned, Idle
<1> QED  BY <1>1, <1>2, <1>3, SameRows DEF IInv

LEMMA IInvInit == Init => IInv
<1> SUFFICES ASSUME Init PROVE IInv
  OBVIOUS
<1>1. PICK r \in Rules : strategy = [state |-> "saved", entry |-> r, exits |-> r, version |-> Hash(r, r)]
  BY AmountsAssumption DEF Init
<1>2. strategy \in StrategyRow /\ Versioned(strategy) /\ strategy # Gone
  BY <1>1 DEF StrategyRow, Versioned, Hash, Versions, Gone
<1>3. TypeOK
  BY <1>2 DEF Init, TypeOK, RowTypes
<1>4. GoneTogether /\ LockedVersion /\ UnlockedHasPassed
  BY <1>2 DEF Init, GoneTogether, LockedVersion, UnlockedHasPassed, There, Absent
<1>5. RequestsAreSound /\ VersionHolds
  BY <1>2 DEF Init, RequestsAreSound, Sound, UpToDate, VersionLoaded, UnlockEarned, Idle, VersionHolds
<1> QED  BY <1>3, <1>4, <1>5 DEF IInv

LEMMA IInvStep == IInv /\ [Next]_vars => IInv'
<1> SUFFICES ASSUME IInv, [Next]_vars PROVE IInv'
  OBVIOUS
<1>1. CASE UNCHANGED setupVars
  BY <1>1, SameStep
<1>2. CASE SetupsNext
  <2>1. ASSUME NEW p \in Requests,
               \/ UpdateStrategy(p) \/ UpdateCommit(p) \/ DeleteStrategy(p)
               \/ Backtest(p) \/ BacktestCommit(p)
               \/ CreateCommit(p) \/ SetupCommit(p) \/ StartCommit(p) \/ SessionCommit(p)
               \/ Judge(p) \/ PromoteCommit(p)
        PROVE  IInv'
    BY <2>1, StrategyLoads, UpdateCommitStep, DeleteStep, BacktestCommitStep, CreateCommitStep,
       SetupCommitStep, StartCommitStep, SessionCommitStep, JudgeStep, PromoteCommitStep
  <2>2. ASSUME NEW p \in Requests, NEW n \in Names, CreateSetup(p, n) \/ AdvanceStage(p, n) \/ Archive(p, n)
        PROVE  IInv'
    BY <2>2, StrategyLoads, SetupLoads
  <2>3. ASSUME NEW p \in Requests, NEW s \in Sessions,
               StartPaper(p, s) \/ RecordFill(p, s) \/ RecordMissed(p, s) \/ StopPaper(p, s) \/ Promote(p, s)
        PROVE  IInv'
    BY <2>3, SessionLoads
  <2> QED  BY <1>2, <2>1, <2>2, <2>3, AgesStep DEF SetupsNext
<1>3. CASE Restart
  BY <1>3, RestartStep
<1> QED  BY <1>1, <1>2, <1>3 DEF Next, vars

LEMMA Inductive == Spec => []IInv
  BY IInvInit, IInvStep, PTL DEF Spec

(* Every reachable state is well typed: no handler, whatever it crossed,   *)
(* leaves a row of a shape its table does not have.                        *)
THEOREM TypeCorrect == Spec => []TypeOK
  BY Inductive, PTL DEF IInv

(* A setup is locked to the version it shows: the version is the hash of   *)
(* the rules it was made with, unless two saves of the strategy crossed.   *)
THEOREM LockedVersionHolds == Spec => []LockedVersion
  BY Inductive, PTL DEF IInv

(* A setup a bot may trade has passed paper trading by its own pipeline,   *)
(* unless a stage was written over a copy from before another change.      *)
THEOREM UnlockedHasPassedHolds == Spec => []UnlockedHasPassed
  BY Inductive, PTL DEF IInv

-----------------------------------------------------------------------------
(* Sums.                                                                   *)

\* f holds the partial sums of s up to the n-th number.
IsSums(s, n, f) == f = [i \in 0..n |-> IF i = 0 THEN 0 ELSE f[i - 1] + s[i]]
Sums(s) == CHOOSE f : IsSums(s, Len(s), f)

LEMMA TotalIs ==
  ASSUME NEW s
  PROVE  Total(s) = Sums(s)[Len(s)]
  BY DEF Total, Sums, IsSums

(* There is no induction over data here: the facts about sums come from the
   least index where they would fail. *)
LEMMA LeastThere ==
  ASSUME NEW S \in SUBSET Nat, S # {}
  PROVE  \E x \in S : \A y \in S : x <= y
<1> DEFINE R == OpToRel(<, Nat)
<1>0. IsWellFoundedOn(R, Nat) /\ S \subseteq Nat
  BY NatLessThanWellFounded
<1> HIDE DEF R
<1>1. PICK x \in S : \A y \in S : ~ (<<y, x>> \in R)
  BY <1>0, WFMin
<1>2. ASSUME NEW y \in S PROVE x <= y
  <2>1. ~ (y < x)
    BY <1>1 DEF OpToRel, R
  <2> QED
    BY <2>1
<1> QED
  BY <1>2

\* Two partial sums of one sequence agree as far as both go.
LEMMA SumsAgree ==
  ASSUME NEW s, NEW m \in Nat, NEW n \in Nat, m <= n, NEW f, NEW g, IsSums(s, m, f), IsSums(s, n, g)
  PROVE  \A i \in 0..m : f[i] = g[i]
<1> DEFINE apart == {i \in 0..m : f[i] # g[i]}
<1> SUFFICES ASSUME apart # {} PROVE FALSE
  OBVIOUS
<1>1. PICK i \in apart : \A j \in apart : i <= j
  <2>1. apart \in SUBSET Nat
    OBVIOUS
  <2> HIDE DEF apart
  <2> QED  BY <2>1, LeastThere
<1>2. i \in 0..m /\ f[i] # g[i] /\ i \in 0..n
  OBVIOUS
<1>3. i # 0
  BY <1>2 DEF IsSums
<1>4. i - 1 \in 0..m /\ f[i - 1] = g[i - 1]
  BY <1>1, <1>2, <1>3
<1> HIDE DEF apart
<1>5. f[i] = f[i - 1] + s[i]
  BY <1>2, <1>3 DEF IsSums
<1>6. g[i] = g[i - 1] + s[i]
  BY <1>2, <1>3 DEF IsSums
<1> QED  BY <1>2, <1>4, <1>5, <1>6

LEMMA SumsExist ==
  ASSUME NEW s \in Seq(Int), NEW n \in 0..Len(s)
  PROVE  \E f \in [0..n -> Int] : IsSums(s, n, f)
<1> DEFINE Has(k) == \E f \in [0..k -> Int] : IsSums(s, k, f)
           bad == {k \in 0..Len(s) : ~Has(k)}
<1> SUFFICES ASSUME bad # {} PROVE FALSE
  OBVIOUS
<1>1. PICK k \in bad : \A j \in bad : k <= j
  <2>1. bad \in SUBSET Nat
    OBVIOUS
  <2> HIDE DEF bad
  <2> QED  BY <2>1, LeastThere
<1>2. k \in 0..Len(s) /\ ~Has(k)
  OBVIOUS
<1>3. k # 0
  <2>1. [i \in 0..0 |-> 0] \in [0..0 -> Int] /\ IsSums(s, 0, [i \in 0..0 |-> 0])
    BY DEF IsSums
  <2>2. Has(0)
    BY <2>1
  <2> QED  BY <1>2, <2>2
<1>4. Has(k - 1)
  BY <1>1, <1>2, <1>3
<1>5. PICK f \in [0..(k - 1) -> Int] : IsSums(s, k - 1, f)
  BY <1>4
<1> HIDE DEF bad, Has
<1> DEFINE g == [i \in 0..k |-> IF i = k THEN f[k - 1] + s[k] ELSE f[i]]
<1>6. s[k] \in Int /\ f[k - 1] \in Int
  BY <1>2, <1>3
<1>7. g \in [0..k -> Int]
  BY <1>2, <1>6
<1>8. \A i \in 0..k : g[i] = IF i = 0 THEN 0 ELSE g[i - 1] + s[i]
  <2> SUFFICES ASSUME NEW i \in 0..k PROVE g[i] = IF i = 0 THEN 0 ELSE g[i - 1] + s[i]
    OBVIOUS
  <2>1. CASE i = k
    <3>1. i - 1 \in 0..k /\ i - 1 # k
      BY <1>2, <1>3, <2>1
    <3> QED  BY <1>3, <2>1, <3>1
  <2>2. CASE i # k
    <3>1. i \in 0..(k - 1)
      BY <1>2, <2>2
    <3>2. f[i] = IF i = 0 THEN 0 ELSE f[i - 1] + s[i]
      BY <1>5, <3>1 DEF IsSums
    <3>3. i # 0 => i - 1 \in 0..k /\ i - 1 # k
      BY <1>2, <3>1
    <3> QED  BY <2>2, <3>2, <3>3
  <2> QED  BY <2>1, <2>2
<1>9. IsSums(s, k, g)
  BY <1>7, <1>8 DEF IsSums
<1> QED  BY <1>2, <1>7, <1>9 DEF Has

LEMMA SumsAre ==
  ASSUME NEW s \in Seq(Int)
  PROVE  IsSums(s, Len(s), Sums(s)) /\ Sums(s) \in [0..Len(s) -> Int]
<1>1. Len(s) \in 0..Len(s)
  OBVIOUS
<1>2. PICK f \in [0..Len(s) -> Int] : IsSums(s, Len(s), f)
  BY <1>1, SumsExist
<1>3. IsSums(s, Len(s), Sums(s))
  BY <1>2 DEF Sums
<1>4. \A i \in 0..Len(s) : Sums(s)[i] = f[i]
  BY <1>2, <1>3, SumsAgree
<1>5. Sums(s) = [i \in 0..Len(s) |-> Sums(s)[i]]
  BY <1>3 DEF IsSums
<1> QED  BY <1>2, <1>3, <1>4, <1>5

LEMMA TotalOfNone == Total(<<>>) = 0
<1>1. <<>> \in Seq(Int) /\ Len(<<>>) = 0
  OBVIOUS
<1>2. IsSums(<<>>, 0, Sums(<<>>))
  BY <1>1, SumsAre
<1> QED  BY <1>1, <1>2, TotalIs DEF IsSums

\* One more number adds itself.
LEMMA TotalOfMore ==
  ASSUME NEW s \in Seq(Int), NEW x \in Int
  PROVE  Total(s) \in Int /\ Total(Append(s, x)) = Total(s) + x
<1> DEFINE t == Append(s, x)
           n == Len(s)
<1>1. /\ t \in Seq(Int) /\ Len(t) = n + 1 /\ n \in Nat /\ t[n + 1] = x
      /\ \A i \in 1..n : t[i] = s[i]
  OBVIOUS
<1> HIDE DEF t
<1>2. IsSums(s, n, Sums(s)) /\ Sums(s) \in [0..n -> Int]
  BY SumsAre
<1>3. IsSums(t, n + 1, Sums(t))
  BY <1>1, SumsAre
<1>4. IsSums(t, n, Sums(s))
  <2> DEFINE f == Sums(s)
  <2>1. f = [i \in 0..n |-> IF i = 0 THEN 0 ELSE f[i - 1] + s[i]]
    BY <1>2 DEF IsSums
  <2> HIDE DEF f
  <2>2. \A i \in 0..n : (IF i = 0 THEN 0 ELSE f[i - 1] + s[i]) = (IF i = 0 THEN 0 ELSE f[i - 1] + t[i])
    <3>1. \A i \in 0..n : i # 0 => i \in 1..n
      BY <1>1
    <3> QED  BY <1>1, <3>1
  <2>3. f = [i \in 0..n |-> IF i = 0 THEN 0 ELSE f[i - 1] + t[i]]
    BY <2>1, <2>2, Zenon
  <2> QED  BY <2>3 DEF IsSums, f
<1>5. Sums(s)[n] = Sums(t)[n]
  BY <1>1, <1>3, <1>4, SumsAgree
<1>6. Sums(t)[n + 1] = Sums(t)[n] + t[n + 1]
  BY <1>1, <1>3 DEF IsSums
<1> QED  BY <1>1, <1>2, <1>5, <1>6, TotalIs DEF t

-----------------------------------------------------------------------------
(* The equity of a session.                                                *)

Earnings(fills) == [i \in DOMAIN fills |-> fills[i].pnl]

Adds(s) == s.equity = Capital + Total(Earnings(s.fills))

Started(s) == session[s].state # "none"

(* A fill in flight adds to the equity its session has, unless its copy is
   outdated; and a session about to start has not started. *)
Standing(q) ==
  /\ q.at = "fill" =>
       /\ Started(q.on) /\ q.fill.after = q.old.equity + q.fill.pnl
       /\ There(session[q.on]) /\ q.on \notin q.outdated => q.old.equity = session[q.on].equity
  /\ q.at = "start" => ~Started(q.on)

RequestsStand == \A p \in Requests : Standing(req[p])

(* No session is started twice.                                            *)
StartedOnce ==
  \A p, q \in Requests : req[p].at = "start" /\ req[q].at = "start" /\ req[p].on = req[q].on => p = q

Stands == RequestsStand /\ StartedOnce /\ EquityIsTheSum

EquityInv == IInv /\ Stands

LEMMA OneMoreFill ==
  ASSUME NEW fills \in Seq(Fill), NEW fill \in Fill
  PROVE  /\ Total(Earnings(fills)) \in Int
         /\ Total(Earnings(Append(fills, fill))) = Total(Earnings(fills)) + fill.pnl
<1>1. Earnings(fills) \in Seq(Int) /\ fill.pnl \in Int
  <2>1. DOMAIN fills = 1..Len(fills) /\ Len(fills) \in Nat /\ \A i \in 1..Len(fills) : fills[i] \in Fill
    OBVIOUS
  <2>2. Earnings(fills) \in [1..Len(fills) -> Int]
    BY <2>1 DEF Earnings, Fill
  <2> QED  BY <2>1, <2>2 DEF Fill
<1>2. Earnings(Append(fills, fill)) = Append(Earnings(fills), fill.pnl)
  <2> DEFINE more == Append(fills, fill)
  <2>1. /\ more \in Seq(Fill) /\ DOMAIN more = 1..(Len(fills) + 1) /\ DOMAIN fills = 1..Len(fills)
        /\ Len(fills) \in Nat /\ more[Len(fills) + 1] = fill
        /\ \A i \in 1..Len(fills) : more[i] = fills[i]
    OBVIOUS
  <2> HIDE DEF more
  <2>2. Len(Earnings(fills)) = Len(fills)
    BY <2>1 DEF Earnings
  <2>3. Append(Earnings(fills), fill.pnl)
          = [i \in 1..(Len(fills) + 1) |-> IF i = Len(fills) + 1 THEN fill.pnl ELSE Earnings(fills)[i]]
    BY <1>1, <2>2
  <2>4. \A i \in 1..(Len(fills) + 1) :
          more[i].pnl = IF i = Len(fills) + 1 THEN fill.pnl ELSE Earnings(fills)[i]
    BY <2>1 DEF Earnings
  <2>5. Earnings(more) = [i \in 1..(Len(fills) + 1) |-> more[i].pnl]
    BY <2>1 DEF Earnings
  <2> QED  BY <2>3, <2>4, <2>5 DEF more
<1> QED  BY <1>1, <1>2, TotalOfMore

LEMMA NoFills == Total(Earnings(<<>>)) = 0
<1>1. Earnings(<<>>) = <<>>
  BY DEF Earnings
<1> QED  BY <1>1, TotalOfNone

LEMMA SumIs == EquityIsTheSum <=> \A s \in Sessions : There(session[s]) /\ s \notin crossed => Adds(session[s])
  BY DEF EquityIsTheSum, Adds, Earnings

\* Request q is what it was, told that the rows of F have changed, or it is
\* no fill and no start any more.
Followed(q, F) ==
  /\ req'[q].at \in {"fill", "start"} => req'[q].at = req[q].at /\ req'[q].on = req[q].on
  /\ req'[q].at = "fill" => /\ req'[q].old = req[q].old /\ req'[q].fill = req[q].fill
                            /\ req'[q].outdated = req[q].outdated \cup F

\* The sessions keep their equity, but for those of F and for new ones.
EquityAnnounced(F) ==
  \A s \in Sessions :
    /\ Started(s) => Started(s)'
    /\ Started(s) /\ There(session'[s]) =>
         There(session[s]) /\ (session'[s].equity = session[s].equity \/ s \in F)

LEMMA FollowedStands ==
  ASSUME TypeOK, NEW q \in Requests, Standing(req[q]), NEW F, Followed(q, F), EquityAnnounced(F),
         req'[q].at = "start" => ~Started(req[q].on)'
  PROVE  Standing(req[q])'
<1>0. /\ req[q].at = "fill" => req[q].on \in Sessions
      /\ req[q].at = "start" => req[q].on \in Sessions
  BY RequestKinds DEF FillReq, StartReq
<1>1. ASSUME req'[q].at = "fill"
      PROVE  /\ Started(req[q].on)' /\ req'[q].fill.after = req'[q].old.equity + req'[q].fill.pnl
             /\ There(session'[req'[q].on]) /\ req'[q].on \notin req'[q].outdated
                  => req'[q].old.equity = session'[req'[q].on].equity
  <2>1. /\ req[q].at = "fill" /\ req'[q].on = req[q].on /\ req'[q].old = req[q].old
        /\ req'[q].fill = req[q].fill /\ req'[q].outdated = req[q].outdated \cup F
    BY <1>1 DEF Followed
  <2>2. /\ Started(req[q].on) /\ req[q].fill.after = req[q].old.equity + req[q].fill.pnl
        /\ There(session[req[q].on]) /\ req[q].on \notin req[q].outdated
             => req[q].old.equity = session[req[q].on].equity
    BY <2>1 DEF Standing
  <2>3. Started(req[q].on)'
    BY <1>0, <2>1, <2>2 DEF EquityAnnounced, Started
  <2> QED  BY <1>0, <2>1, <2>2, <2>3 DEF EquityAnnounced
<1>2. ASSUME req'[q].at = "start"
      PROVE  ~Started(req[q].on)'
  BY <1>2 DEF Followed, Started
<1> QED  BY <1>1, <1>2 DEF Standing, Started

LEMMA FollowedOnce ==
  ASSUME StartedOnce, NEW F, \A q \in Requests : Followed(q, F)
  PROVE  StartedOnce'
  BY DEF StartedOnce, Followed

LEMMA FinishFollowed ==
  ASSUME TypeOK, NEW p \in Requests, NEW F \in SUBSET Facets, Finish(p, F)
  PROVE  /\ \A q \in Requests : Followed(q, F)
         /\ \A q \in Requests : req'[q].at = "start" => q # p
<1>1. req' = [q \in Requests |->
                IF q = p THEN Idle ELSE IF req[q] = Idle THEN Idle ELSE Noted(req[q], F)]
  BY DEF Finish, Noted
<1> SUFFICES ASSUME NEW q \in Requests PROVE Followed(q, F) /\ (req'[q].at = "start" => q # p)
  OBVIOUS
<1>2. CASE req'[q] = Idle
  BY <1>2 DEF Followed, Idle
<1>3. CASE req'[q] # Idle
  <2>1. req'[q] = Noted(req[q], F) /\ req[q] # Idle /\ q # p
    BY <1>1, <1>3
  <2>2. req[q] \in Request
    BY <2>1, RequestKinds
  <2>3. req'[q].at = req[q].at /\ req'[q].outdated = req[q].outdated \cup F
    BY <2>1, <2>2, NotedType
  <2>4. req[q].at = "fill" =>
          req'[q].on = req[q].on /\ req'[q].old = req[q].old /\ req'[q].fill = req[q].fill
    BY <2>1, RequestKinds DEF Noted, FillReq
  <2>5. req[q].at = "start" => req'[q].on = req[q].on
    BY <2>1, RequestKinds DEF Noted, StartReq
  <2> QED  BY <2>1, <2>3, <2>4, <2>5 DEF Followed
<1> QED  BY <1>2, <1>3

\* The sums still hold, if they do for the sessions whose row is another.
LEMMA SumsKept ==
  ASSUME EquityIsTheSum, crossed \subseteq crossed',
         \A s \in Sessions : There(session'[s]) /\ s \notin crossed' =>
           \/ /\ There(session[s]) /\ session'[s].equity = session[s].equity
              /\ session'[s].fills = session[s].fills
           \/ Adds(session'[s])
  PROVE  EquityIsTheSum'
<1>1. \A s \in Sessions : There(session'[s]) /\ s \notin crossed' => Adds(session'[s])
  BY SumIs DEF Adds
<1> QED  BY <1>1 DEF EquityIsTheSum, Adds, Earnings

LEMMA LoadStands ==
  ASSUME EquityInv, NEW p \in Requests, NEW what, NEW q, Load(p, what, q), Standing(q),
         q.at = "start" => \A r \in Requests : req[r].at = "start" => req[r].on # q.on
  PROVE  Stands'
<1>1. UNCHANGED <<session, crossed>>
  BY DEF Load, data
<1>2. req'[p] = q /\ \A r \in Requests : r # p => req'[r] = req[r]
  BY DEF Load, EquityInv, IInv, TypeOK
<1>3. RequestsStand'
  <2> SUFFICES ASSUME NEW r \in Requests PROVE Standing(req[r])'
    BY DEF RequestsStand
  <2>1. CASE r = p
    BY <1>1, <1>2, <2>1 DEF Standing, Started, There
  <2>2. CASE r # p
    BY <1>1, <1>2, <2>2 DEF EquityInv, Stands, RequestsStand, Standing, Started, There
  <2> QED  BY <2>1, <2>2
<1>4. StartedOnce'
  <2> SUFFICES ASSUME NEW a \in Requests, NEW b \in Requests,
                      req'[a].at = "start" /\ req'[b].at = "start" /\ req'[a].on = req'[b].on
               PROVE  a = b
    BY DEF StartedOnce
  <2> QED  BY <1>2 DEF EquityInv, Stands, StartedOnce
<1>5. EquityIsTheSum'
  BY <1>1 DEF EquityInv, Stands, EquityIsTheSum, There
<1> QED  BY <1>3, <1>4, <1>5 DEF Stands

\* A handler that changes no session, and one that is rolled back.
LEMMA QuietStands ==
  ASSUME EquityInv, NEW p \in Requests, NEW F \in SUBSET Facets, Finish(p, F), UNCHANGED session
  PROVE  Stands'
<1>1. \A q \in Requests : Followed(q, F)
  BY FinishFollowed DEF EquityInv, IInv
<1>2. EquityAnnounced(F)
  BY DEF EquityAnnounced, Started, There
<1>3. RequestsStand'
  <2> SUFFICES ASSUME NEW q \in Requests PROVE Standing(req[q])'
    BY DEF RequestsStand
  <2>1. req'[q].at = "start" => ~Started(req[q].on)'
    BY <1>1 DEF EquityInv, Stands, RequestsStand, Standing, Started, Followed
  <2> QED  BY <1>1, <1>2, <2>1, FollowedStands DEF EquityInv, IInv, Stands, RequestsStand
<1>4. StartedOnce'
  BY <1>1, FollowedOnce DEF EquityInv, Stands
<1>5. EquityIsTheSum'
  <2>1. crossed \subseteq crossed'
    BY FinishType DEF EquityInv, IInv
  <2> QED  BY <2>1, SumsKept DEF EquityInv, Stands, There
<1> QED  BY <1>3, <1>4, <1>5 DEF Stands

\* A handler that writes the row of a session.
LEMMA WrittenStands ==
  ASSUME EquityInv, NEW p \in Requests, NEW F \in SUBSET Facets, Finish(p, F),
         NEW s \in Sessions, NEW row_ \in SessionRow, session' = [session EXCEPT ![s] = row_],
         There(session[s]) \/ (req[p].at = "start" /\ req[p].on = s),
         \/ There(session[s]) /\ row_.equity = session[s].equity /\ row_.fills = session[s].fills
         \/ There(session[s]) /\ s \in F /\ (s \notin crossed' => Adds(row_))
         \/ ~Started(s) /\ Adds(row_)
  PROVE  Stands'
<1>1. /\ \A q \in Requests : Followed(q, F)
      /\ \A q \in Requests : req'[q].at = "start" => q # p
  BY FinishFollowed DEF EquityInv, IInv
<1>2. /\ session'[s] = row_ /\ There(row_)
      /\ \A r \in Sessions : r # s => session'[r] = session[r]
  BY DEF EquityInv, IInv, TypeOK, RowTypes, SessionRow, There
<1>3. EquityAnnounced(F)
  BY <1>2 DEF EquityAnnounced, Started, There
<1>4. RequestsStand'
  <2> SUFFICES ASSUME NEW q \in Requests PROVE Standing(req[q])'
    BY DEF RequestsStand
  <2>1. req'[q].at = "start" => ~Started(req[q].on)'
    <3> SUFFICES ASSUME req'[q].at = "start" PROVE session'[req'[q].on].state = "none"
      BY DEF Started
    <3>1. req[q].at = "start" /\ req'[q].on = req[q].on /\ q # p
      BY <1>1 DEF Followed
    <3>2. req[q].on \in Sessions /\ session[req[q].on].state = "none"
      BY <3>1, RequestKinds DEF EquityInv, IInv, Stands, RequestsStand, Standing, Started, StartReq
    <3>3. req[q].on # s
      BY <3>1, <3>2 DEF EquityInv, Stands, StartedOnce, There
    <3> QED  BY <1>2, <3>1, <3>2, <3>3
  <2> QED  BY <1>1, <1>3, <2>1, FollowedStands DEF EquityInv, IInv, Stands, RequestsStand
<1>5. StartedOnce'
  BY <1>1, FollowedOnce DEF EquityInv, Stands
<1>6. EquityIsTheSum'
  <2>1. crossed \subseteq crossed'
    BY FinishType DEF EquityInv, IInv
  <2> QED  BY <1>2, <2>1, SumsKept DEF EquityInv, Stands, There
<1> QED  BY <1>4, <1>5, <1>6 DEF Stands

LEMMA LoadsStand ==
  ASSUME EquityInv, NEW p \in Requests,
         \/ UpdateStrategy(p) \/ Backtest(p)
         \/ \E n \in Names : CreateSetup(p, n) \/ AdvanceStage(p, n) \/ Archive(p, n)
         \/ \E s \in Sessions : StartPaper(p, s) \/ RecordFill(p, s) \/ RecordMissed(p, s)
                                \/ StopPaper(p, s) \/ Promote(p, s)
  PROVE  Stands'
<1>1. ASSUME NEW what, NEW q, Load(p, what, q), q.at \notin {"fill", "start"}
      PROVE  Stands'
  BY <1>1, LoadStands DEF Standing
<1>2. CASE UpdateStrategy(p)
  <2>1. PICK entry \in Rules, exits \in Rules :
          Load(p, "strategy", [at |-> "update", old |-> strategy, entry |-> entry, exits |-> exits,
                               outdated |-> {}])
    BY <1>2 DEF UpdateStrategy
  <2> QED  BY <1>1, <2>1
<1>3. CASE Backtest(p)
  BY <1>1, <1>3 DEF Backtest
<1>4. ASSUME NEW n \in Names, CreateSetup(p, n)
      PROVE  Stands'
  <2>1. PICK traced : Load(p, "create", [at |-> "create", on |-> n, old |-> strategy, traced |-> traced,
                                         outdated |-> {}])
    BY <1>4 DEF CreateSetup
  <2> QED  BY <1>1, <2>1
<1>5. ASSUME NEW n \in Names, AdvanceStage(p, n)
      PROVE  Stands'
  <2>1. PICK stage \in {"research", "paper"}, status \in {"not_started", "running", "passed", "failed"} :
          Load(p, "stage", [at |-> "setup", on |-> n, old |-> setup[n],
                            new |-> Staged(setup[n], stage, status), staged |-> TRUE, outdated |-> {}])
    BY <1>5 DEF AdvanceStage
  <2> QED  BY <1>1, <2>1
<1>6. ASSUME NEW n \in Names, Archive(p, n)
      PROVE  Stands'
  BY <1>1, <1>6 DEF Archive
<1>7. ASSUME NEW s \in Sessions, StartPaper(p, s)
      PROVE  Stands'
  <2>1. PICK n \in Names, terms \in SUBSET Terms :
          Load(p, "paper", [at |-> "start", on |-> s, setup |-> n, terms |-> terms, outdated |-> {}])
    BY <1>7 DEF StartPaper
  <2> DEFINE q == [at |-> "start", on |-> s, setup |-> n, terms |-> terms, outdated |-> {}]
  <2>2. Standing(q) /\ \A r \in Requests : req[r].at = "start" => req[r].on # q.on
    BY <1>7 DEF StartPaper, Standing, Started
  <2>3. Load(p, "paper", q)
    BY <2>1
  <2> HIDE DEF q
  <2> QED  BY <2>2, <2>3, LoadStands
<1>8. ASSUME NEW s \in Sessions, RecordFill(p, s)
      PROVE  Stands'
  <2>1. PICK pnl \in Pnls, slip \in Slips :
          OnSession(p, "fill", s, [at |-> "fill", on |-> s, old |-> session[s], outdated |-> {},
            fill |-> [pnl |-> pnl, slip |-> slip, after |-> session[s].equity + pnl]])
    BY <1>8 DEF RecordFill
  <2> DEFINE q == [at |-> "fill", on |-> s, old |-> session[s], outdated |-> {},
                   fill |-> [pnl |-> pnl, slip |-> slip, after |-> session[s].equity + pnl]]
  <2>2. Standing(q) /\ q.at = "fill"
    BY <1>8 DEF RecordFill, Standing, Started
  <2>3. Load(p, "fill", q)
    BY <2>1 DEF OnSession
  <2> HIDE DEF q
  <2> QED  BY <2>2, <2>3, LoadStands
<1>9. ASSUME NEW s \in Sessions, RecordMissed(p, s) \/ StopPaper(p, s)
      PROVE  Stands'
  BY <1>1, <1>9 DEF RecordMissed, StopPaper, OnSession
<1>10. ASSUME NEW s \in Sessions, Promote(p, s)
       PROVE  Stands'
  <2>1. PICK override \in BOOLEAN :
          OnSession(p, "promote", s, [at |-> "judge", on |-> s, old |-> session[s], outdated |-> {},
                                      override |-> override, setup |-> setup[session[s].setup]])
    BY <1>10 DEF Promote
  <2> QED  BY <1>1, <2>1 DEF OnSession
<1> QED  BY <1>2, <1>3, <1>4, <1>5, <1>6, <1>7, <1>8, <1>9, <1>10

LEMMA CommitsStand ==
  ASSUME EquityInv, NEW p \in Requests,
         Refused(p) \/ UpdateCommit(p) \/ BacktestCommit(p) \/ CreateCommit(p) \/ SetupCommit(p)
  PROVE  Stands'
<1>1. CASE Refused(p)
  BY <1>1, QuietStands DEF Refused, data
<1>2. CASE UpdateCommit(p)
  <2>1. \/ Refused(p)
        \/ UNCHANGED session /\ Finish(p, IF strategy' = strategy THEN {} ELSE {"rules"})
    BY <1>2 DEF UpdateCommit
  <2>2. (IF strategy' = strategy THEN {} ELSE {"rules"}) \in SUBSET Facets
    BY DEF Facets
  <2> QED  BY <1>1, <2>1, <2>2, QuietStands
<1>3. CASE BacktestCommit(p)
  <2>1. Refused(p) \/ (UNCHANGED session /\ Finish(p, {}))
    BY <1>3 DEF BacktestCommit
  <2> QED  BY <1>1, <2>1, QuietStands
<1>4. CASE CreateCommit(p)
  <2>1. Refused(p) \/ (UNCHANGED session /\ Finish(p, {}))
    BY <1>4 DEF CreateCommit
  <2> QED  BY <1>1, <2>1, QuietStands
<1>5. CASE SetupCommit(p)
  <2>1. \/ Refused(p)
        \/ UNCHANGED session /\ Finish(p, IF setup' = setup THEN {} ELSE {req[p].on})
    BY <1>5 DEF SetupCommit
  <2>2. req[p].on \in Names
    BY <1>5, RequestKinds DEF SetupCommit, EquityInv, IInv, SetupReq
  <2>3. (IF setup' = setup THEN {} ELSE {req[p].on}) \in SUBSET Facets
    BY <2>2 DEF Facets
  <2> QED  BY <1>1, <2>1, <2>3, QuietStands
<1> QED  BY <1>1, <1>2, <1>3, <1>4, <1>5

LEMMA StartStands ==
  ASSUME EquityInv, NEW p \in Requests, StartCommit(p)
  PROVE  Stands'
<1>0. req[p] \in StartReq /\ req[p].at = "start"
  BY RequestKinds DEF StartCommit, EquityInv, IInv
<1>1. CASE ~There(setup[req[p].setup])
  BY <1>1, CommitsStand DEF StartCommit
<1>2. CASE There(setup[req[p].setup])
  <2> DEFINE row_ == [state |-> "running", setup |-> req[p].setup, terms |-> req[p].terms,
                      aged |-> FALSE, equity |-> Capital, fills |-> <<>>, missed |-> 0,
                      override |-> FALSE]
  <2>1. session' = [session EXCEPT ![req[p].on] = row_] /\ Finish(p, {})
    BY <1>2 DEF StartCommit
  <2>2. row_ \in SessionRow /\ req[p].on \in Sessions
    BY <1>0, AmountsAssumption DEF SessionRow, StartReq
  <2>3. Adds(row_)
    BY NoFills, AmountsAssumption DEF Adds
  <2>4. ~Started(req[p].on)
    BY <1>0 DEF EquityInv, Stands, RequestsStand, Standing
  <2> HIDE DEF row_
  <2> QED  BY <1>0, <2>1, <2>2, <2>3, <2>4, WrittenStands
<1> QED  BY <1>1, <1>2

\* A fill over a copy that is not outdated adds to the sum what it adds to
\* the equity.
LEMMA FilledAdds ==
  ASSUME NEW now \in SessionRow, NEW q \in FillReq, Adds(now), q.old.equity = now.equity,
         q.fill.after = q.old.equity + q.fill.pnl
  PROVE  Adds(Filled(now, q))
<1>1. now.fills \in Seq(Fill) /\ q.fill \in Fill /\ now.equity \in Int /\ q.fill.pnl \in Int
  BY DEF SessionRow, FillReq, Fill
<1>2. /\ Total(Earnings(now.fills)) \in Int
      /\ Total(Earnings(Append(now.fills, q.fill))) = Total(Earnings(now.fills)) + q.fill.pnl
  BY <1>1, OneMoreFill
<1>3. Filled(now, q).equity = now.equity + q.fill.pnl /\ Filled(now, q).fills = Append(now.fills, q.fill)
  BY DEF Filled, Column, SessionRow
<1> QED  BY <1>1, <1>2, <1>3, AmountsAssumption DEF Adds

LEMMA SessionCommitStands ==
  ASSUME EquityInv, NEW p \in Requests, SessionCommit(p)
  PROVE  Stands'
<1> DEFINE q == req[p]
           now == session[q.on]
<1>0. /\ q.at \in {"fill", "missed", "stop"} /\ q.on \in Sessions
      /\ q.at = "fill" => q \in FillReq
      /\ q.at \in {"missed", "stop"} => q \in PlainReq
  BY RequestKinds DEF SessionCommit, EquityInv, IInv, FillReq, PlainReq
<1>1. CASE ~There(now)
  BY <1>1, CommitsStand DEF SessionCommit
<1>2. CASE There(now)
  <2>0. now \in SessionRow
    BY <1>0, <1>2, RowKinds DEF EquityInv, IInv
  <2>1. CASE q.at = "fill"
    <3>1. session' = [session EXCEPT ![q.on] = Filled(now, q)] /\ Finish(p, {q.on})
      BY <1>2, <2>1 DEF SessionCommit
    <3>2. Filled(now, q) \in SessionRow /\ {q.on} \in SUBSET Facets
      BY <1>0, <2>0, <2>1, SessionTypes DEF Facets
    <3>3. q.on \notin crossed' => Adds(Filled(now, q))
      <4> SUFFICES ASSUME q.on \notin crossed' PROVE Adds(Filled(now, q))
        OBVIOUS
      <4>1. q.on \notin q.outdated /\ q.on \notin crossed
        BY <3>1 DEF Finish
      <4>2. q.old.equity = now.equity /\ q.fill.after = q.old.equity + q.fill.pnl
        BY <1>2, <2>1, <4>1 DEF EquityInv, Stands, RequestsStand, Standing
      <4>3. Adds(now)
        BY <1>0, <1>2, <4>1, SumIs DEF EquityInv, Stands
      <4> QED  BY <1>0, <2>0, <2>1, <4>2, <4>3, FilledAdds
    <3> QED  BY <1>0, <1>2, <3>1, <3>2, <3>3, WrittenStands
  <2>2. CASE q.at # "fill"
    <3> DEFINE row_ == IF q.at = "missed" THEN Missed(now, q) ELSE Stopped(now, q)
    <3>1. session' = [session EXCEPT ![q.on] = row_] /\ Finish(p, {})
      BY <1>0, <1>2, <2>2 DEF SessionCommit
    <3>2. row_ \in SessionRow
      BY <1>0, <2>0, <2>2, SessionTypes
    <3>3. row_.equity = now.equity /\ row_.fills = now.fills
      BY <2>0 DEF Missed, Stopped, SessionRow
    <3> HIDE DEF row_
    <3> QED  BY <1>0, <1>2, <3>1, <3>2, <3>3, WrittenStands
  <2> QED  BY <2>1, <2>2
<1> QED  BY <1>1, <1>2

LEMMA PromoteStands ==
  ASSUME EquityInv, NEW p \in Requests, PromoteCommit(p)
  PROVE  Stands'
<1> DEFINE q == req[p]
           s == q.on
           F == IF setup' = setup THEN {} ELSE {q.old.setup}
           row_ == Promoted(session[s], q)
<1>0. q \in PromoteReq /\ s \in Sessions /\ q.old.setup \in Names
  BY RequestKinds DEF PromoteCommit, EquityInv, IInv, PromoteReq, SessionRow
<1>1. CASE ~There(session[s])
  BY <1>1, CommitsStand DEF PromoteCommit
<1>2. CASE There(session[s])
  <2>1. session' = [session EXCEPT ![s] = row_] /\ Finish(p, F)
    BY <1>2 DEF PromoteCommit
  <2>2. session[s] \in SessionRow /\ F \in SUBSET Facets
    BY <1>0, <1>2, RowKinds DEF EquityInv, IInv, Facets
  <2>3. row_ \in SessionRow
    BY <1>0, <2>2, SessionTypes
  <2>4. row_.equity = session[s].equity /\ row_.fills = session[s].fills
    BY <2>2 DEF Promoted, SessionRow
  <2> HIDE DEF row_, F
  <2> QED  BY <1>0, <1>2, <2>1, <2>2, <2>3, <2>4, WrittenStands
<1> QED  BY <1>1, <1>2

LEMMA JudgeStands ==
  ASSUME EquityInv, NEW p \in Requests, Judge(p)
  PROVE  Stands'
<1>1. CASE Refused(p)
  BY <1>1, CommitsStand
<1>2. CASE ~Refused(p)
  <2>1. PICK new : /\ req' = [req EXCEPT ![p] = new] /\ new.at = "promote"
                   /\ UNCHANGED <<session, crossed>>
    <3>1. PICK fills : LET ready == Ready(req[p].old, fills) IN
            IF ready \/ req[p].override
            THEN /\ req' = [req EXCEPT ![p] = [at |-> "promote", on |-> @.on, old |-> @.old,
                                               setup |-> @.setup, override |-> ~ready,
                                               outdated |-> @.outdated]]
                 /\ UNCHANGED <<jobVars, left, data, crossed>>
            ELSE Refused(p)
      BY DEF Judge
    <3> DEFINE new == [at |-> "promote", on |-> req[p].on, old |-> req[p].old, setup |-> req[p].setup,
                       override |-> ~Ready(req[p].old, fills), outdated |-> req[p].outdated]
    <3>2. req' = [req EXCEPT ![p] = new] /\ UNCHANGED <<session, crossed>>
      BY <1>2, <3>1 DEF EquityInv, IInv, TypeOK, data
    <3>3. new.at = "promote"
      OBVIOUS
    <3> HIDE DEF new
    <3> QED  BY <3>2, <3>3
  <2>2. \A q \in Requests : req'[q].at \in {"fill", "start"} => req'[q] = req[q]
    BY <2>1 DEF EquityInv, IInv, TypeOK
  <2>3. RequestsStand' /\ StartedOnce'
    BY <2>1, <2>2 DEF EquityInv, Stands, RequestsStand, Standing, StartedOnce, Started, There
  <2>4. EquityIsTheSum'
    BY <2>1 DEF EquityInv, Stands, EquityIsTheSum, There
  <2> QED  BY <2>3, <2>4 DEF Stands
<1> QED  BY <1>1, <1>2

LEMMA DeleteStands ==
  ASSUME EquityInv, NEW p \in Requests, DeleteStrategy(p)
  PROVE  Stands'
<1>1. /\ UNCHANGED <<req, crossed>>
      /\ session' = [s \in Sessions |-> IF There(session[s]) THEN Gone ELSE session[s]]
  BY DEF DeleteStrategy
<1>2. \A s \in Sessions : ~There(session'[s]) /\ (Started(s) <=> Started(s)')
  BY <1>1 DEF There, Gone, Started
<1>3. \A q \in Requests : req[q].at \in {"fill", "start"} => req[q].on \in Sessions
  BY RequestKinds DEF EquityInv, IInv, FillReq, StartReq
<1>4. RequestsStand'
  BY <1>1, <1>2, <1>3 DEF EquityInv, Stands, RequestsStand, Standing, Started
<1>5. StartedOnce' /\ EquityIsTheSum'
  BY <1>1, <1>2 DEF EquityInv, Stands, StartedOnce, EquityIsTheSum
<1> QED  BY <1>4, <1>5 DEF Stands

LEMMA AgesStand ==
  ASSUME EquityInv, NEW s \in Sessions, Ages(s)
  PROVE  Stands'
<1> DEFINE row_ == [session[s] EXCEPT !.aged = TRUE]
<1>1. UNCHANGED <<req, crossed>> /\ session' = [session EXCEPT ![s] = row_]
  BY DEF Ages, EquityInv, IInv, TypeOK, RowTypes
<1>2. session[s] \in SessionRow /\ There(session[s])
  BY RowKinds DEF Ages, EquityInv, IInv
<1>3. /\ row_.state = session[s].state /\ row_.equity = session[s].equity
      /\ row_.fills = session[s].fills
  BY <1>2 DEF SessionRow
<1> HIDE DEF row_
<1>4. \A r \in Sessions : /\ session'[r].state = session[r].state
                          /\ There(session[r]) => /\ session'[r].equity = session[r].equity
                                                  /\ session'[r].fills = session[r].fills
  BY <1>1, <1>3 DEF EquityInv, IInv, TypeOK, RowTypes
<1>5. \A q \in Requests : req[q].at \in {"fill", "start"} => req[q].on \in Sessions
  BY RequestKinds DEF EquityInv, IInv, FillReq, StartReq
<1>6. RequestsStand'
  BY <1>1, <1>4, <1>5 DEF EquityInv, Stands, RequestsStand, Standing, Started, There
<1>7. StartedOnce'
  BY <1>1 DEF EquityInv, Stands, StartedOnce
<1>8. EquityIsTheSum'
  BY <1>1, <1>4, SumsKept DEF EquityInv, Stands, There
<1> QED  BY <1>6, <1>7, <1>8 DEF Stands

LEMMA SameStands ==
  ASSUME EquityInv, UNCHANGED setupVars
  PROVE  Stands'
<1>1. UNCHANGED <<session, req, crossed>>
  BY DEF setupVars
<1>2. RequestsStand' /\ StartedOnce'
  BY <1>1 DEF EquityInv, Stands, RequestsStand, Standing, StartedOnce, Started, There
<1>3. EquityIsTheSum'
  BY <1>1 DEF EquityInv, Stands, EquityIsTheSum, There
<1> QED  BY <1>2, <1>3 DEF Stands

LEMMA RestartStands ==
  ASSUME EquityInv, Restart
  PROVE  Stands'
<1>1. UNCHANGED <<session, crossed>> /\ req' = [p \in Requests |-> Idle]
  BY DEF Restart, data
<1>2. RequestsStand' /\ StartedOnce'
  BY <1>1 DEF RequestsStand, Standing, StartedOnce, Idle
<1>3. EquityIsTheSum'
  BY <1>1 DEF EquityInv, Stands, EquityIsTheSum, There
<1> QED  BY <1>2, <1>3 DEF Stands

LEMMA EquityInit == Init => EquityInv
<1> SUFFICES ASSUME Init PROVE EquityInv
  OBVIOUS
<1>1. RequestsStand /\ StartedOnce
  BY DEF Init, RequestsStand, Standing, StartedOnce, Idle
<1>2. EquityIsTheSum
  BY DEF Init, EquityIsTheSum, There, Absent
<1> QED  BY <1>1, <1>2, IInvInit DEF EquityInv, Stands

LEMMA EquityStep == EquityInv /\ [Next]_vars => EquityInv'
<1> SUFFICES ASSUME EquityInv, [Next]_vars PROVE Stands'
  BY IInvStep DEF EquityInv
<1>1. CASE UNCHANGED setupVars
  BY <1>1, SameStands
<1>2. CASE SetupsNext
  <2>1. ASSUME NEW p \in Requests,
               \/ UpdateStrategy(p) \/ UpdateCommit(p) \/ DeleteStrategy(p)
               \/ Backtest(p) \/ BacktestCommit(p)
               \/ CreateCommit(p) \/ SetupCommit(p) \/ StartCommit(p) \/ SessionCommit(p)
               \/ Judge(p) \/ PromoteCommit(p)
        PROVE  Stands'
    BY <2>1, LoadsStand, CommitsStand, DeleteStands, StartStands, SessionCommitStands, JudgeStands,
       PromoteStands
  <2>2. ASSUME NEW p \in Requests, NEW n \in Names, CreateSetup(p, n) \/ AdvanceStage(p, n) \/ Archive(p, n)
        PROVE  Stands'
    BY <2>2, LoadsStand
  <2>3. ASSUME NEW p \in Requests, NEW s \in Sessions,
               StartPaper(p, s) \/ RecordFill(p, s) \/ RecordMissed(p, s) \/ StopPaper(p, s) \/ Promote(p, s)
        PROVE  Stands'
    BY <2>3, LoadsStand
  <2> QED  BY <1>2, <2>1, <2>2, <2>3, AgesStand DEF SetupsNext
<1>3. CASE Restart
  BY <1>3, RestartStands
<1> QED  BY <1>1, <1>2, <1>3 DEF Next, vars

(* The equity of a paper session is its capital and what its fills earned, *)
(* unless two fills were recorded over the same copy: for every number of  *)
(* sessions and fills, and whatever else is in flight.                     *)
THEOREM EquityAlwaysTheSum == Spec => []EquityIsTheSum
<1>1. Spec => []EquityInv
  BY EquityInit, EquityStep, PTL DEF Spec
<1> QED  BY <1>1, PTL DEF EquityInv, Stands

-----------------------------------------------------------------------------
(* The bar loop: types.                                                    *)

Sides == {"long", "short"}
Reasons == {"liquidation", "stop_loss", "take_profit", "time_exit", "opposite_signal", "end_of_data"}

PositionRow == [side : Sides, entryAt : Int, entry : Int, margin : Int, quantity : Int,
                liquidation : Int, fee : Int, paid : Int, nextFunding : Int, peak : Int, risk : Nat,
                armed : BOOLEAN, stop : Given(Int), take : Given(Int), runUp : Int, drawdown : Int]
TradeRow    == [side : Sides, entryAt : Int, exitAt : Int, exit : Int, reason : Reasons, net : Int,
                runUp : Int, drawdown : Int]
Account     == [equity : Int, pending : Sides \cup {"none"}, position : PositionRow \cup {NoPosition},
                trades : Seq(TradeRow), path : Seq(Int)]

LEMMA DivType ==
  ASSUME NEW a \in Int, NEW b \in Nat \ {0}
  PROVE  a \div b \in Int
  OBVIOUS

LEMMA TimesType ==
  ASSUME NEW a \in Int, NEW b \in Int
  PROVE  a * b \in Int /\ (a \in Nat /\ b \in Nat => a * b \in Nat)
  OBVIOUS

LEMMA MoreOf ==
  ASSUME NEW x \in Int, NEW y \in Int
  PROVE  Max({x, y}) = IF x >= y THEN x ELSE y
<1> DEFINE m == IF x >= y THEN x ELSE y
<1>1. m \in {x, y} /\ \A z \in {x, y} : m >= z
  OBVIOUS
<1>2. \A w \in {x, y} : (\A z \in {x, y} : w >= z) => w = m
  OBVIOUS
<1> HIDE DEF m
<1> QED  BY <1>1, <1>2, Zenon DEF Max, m

LEMMA LessOf ==
  ASSUME NEW x \in Int, NEW y \in Int
  PROVE  Min({x, y}) = IF x <= y THEN x ELSE y
<1> DEFINE m == IF x <= y THEN x ELSE y
<1>1. m \in {x, y} /\ \A z \in {x, y} : m <= z
  OBVIOUS
<1>2. \A w \in {x, y} : (\A z \in {x, y} : w <= z) => w = m
  OBVIOUS
<1> HIDE DEF m
<1> QED  BY <1>1, <1>2, Zenon DEF Min, m

LEMMA LeastIs ==
  ASSUME NEW S \in SUBSET Nat, S # {}
  PROVE  Min(S) \in S /\ \A y \in S : Min(S) <= y
<1>1. \E x \in S : \A y \in S : x <= y
  BY LeastThere
<1> QED  BY <1>1, Zenon DEF Min

LEMMA SignedType ==
  ASSUME NEW side, NEW x \in Int
  PROVE  Signed(side, x) \in Int
  BY DEF Signed

LEMMA TierType ==
  ASSUME NEW notional \in Int
  PROVE  TierOf(notional).rate \in Int /\ TierOf(notional).amount \in Int
<1> DEFINE fitting == {k \in DOMAIN Tiers : Tiers[k].from <= notional /\ notional < Tiers[k].to}
           k == IF fitting = {} THEN Len(Tiers) ELSE Min(fitting)
<1>1. /\ DOMAIN Tiers = 1..Len(Tiers) /\ Len(Tiers) \in Nat /\ Len(Tiers) > 0
      /\ \A j \in 1..Len(Tiers) : Tiers[j].rate \in Int /\ Tiers[j].amount \in Int
  <2> DEFINE T == [from : Int, to : Int, rate : Int, amount : Int]
  <2>1. Tiers \in Seq(T) /\ Len(Tiers) > 0
    BY BacktestAssumption
  <2>2. \A x \in T : x.rate \in Int /\ x.amount \in Int
    OBVIOUS
  <2> HIDE DEF T
  <2>3. DOMAIN Tiers = 1..Len(Tiers) /\ Len(Tiers) \in Nat /\ \A j \in 1..Len(Tiers) : Tiers[j] \in T
    BY <2>1
  <2> QED  BY <2>1, <2>2, <2>3
<1>2. fitting \in SUBSET Nat /\ fitting \subseteq DOMAIN Tiers
  BY <1>1
<1>3. k \in DOMAIN Tiers
  <2>1. CASE fitting = {}
    BY <1>1, <2>1
  <2>2. CASE fitting # {}
    <3> HIDE DEF fitting
    <3> QED  BY <1>2, <2>2, LeastIs
  <2> QED  BY <2>1, <2>2
<1>4. TierOf(notional) = Tiers[k]
  BY DEF TierOf
<1> HIDE DEF k
<1> QED  BY <1>1, <1>3, <1>4

LEMMA LiquidationType ==
  ASSUME NEW side \in Sides, NEW entry \in Int, NEW quantity \in Int, quantity > 0, NEW backing \in Int
  PROVE  LiquidationPrice(side, entry, quantity, backing) \in Int
<1> DEFINE n == entry * quantity
           cushion == (backing - Maintenance(n)) \div quantity
<1>1. n \in Int
  BY TimesType
<1> HIDE DEF n
<1>2. TierOf(n).rate \in Int /\ TierOf(n).amount \in Int
  BY <1>1, TierType
<1>3. n * TierOf(n).rate \in Int
  BY <1>1, <1>2, TimesType
<1>4. (n * TierOf(n).rate) \div 1000 \in Int
  BY <1>3, DivType
<1>5. Maintenance(n) \in Int
  BY <1>2, <1>4 DEF Maintenance
<1>6. cushion \in Int
  BY <1>5, DivType
<1>7. Max({entry - cushion, 0}) \in Int
  <2> HIDE DEF cushion
  <2> QED  BY <1>6, MoreOf
<1>8. LiquidationPrice(side, entry, quantity, backing)
        = IF side = "long" THEN Max({entry - cushion, 0})
          ELSE IF entry + cushion > 0 THEN entry + cushion ELSE Inf
  BY DEF LiquidationPrice, n
<1> HIDE DEF cushion
<1> QED  BY <1>6, <1>7, <1>8, NumbersAssumption

LEMMA RunFacts ==
  ASSUME NEW r, IsRun(r), NEW i \in 1..Len(r.bars)
  PROVE  /\ DOMAIN r.bars = 1..Len(r.bars) /\ Len(r.bars) \in Nat
         /\ r.bars[i].time \in Int /\ r.bars[i].open \in Int /\ r.bars[i].high \in Int
         /\ r.bars[i].low \in Int /\ r.bars[i].close \in Int
         /\ r.bars[i].low <= r.bars[i].open /\ r.bars[i].open <= r.bars[i].high
         /\ r.bars[i].low <= r.bars[i].close /\ r.bars[i].close <= r.bars[i].high
         /\ r.atr[i] \in Given(Nat) /\ r.longs[i] \in BOOLEAN /\ r.shorts[i] \in BOOLEAN
<1>1. r.bars \in Seq(Candle) /\ \A j \in DOMAIN r.bars : WellFormed(r.bars[j])
  BY DEF IsRun
<1>2. DOMAIN r.bars = 1..Len(r.bars) /\ Len(r.bars) \in Nat /\ \A j \in 1..Len(r.bars) : r.bars[j] \in Candle
  <2> HIDE DEF Candle
  <2> QED  BY <1>1
<1>3. r.bars[i] \in Candle /\ WellFormed(r.bars[i])
  BY <1>1, <1>2
<1>4. \A b \in Candle : /\ b.time \in Int /\ b.open \in Int /\ b.high \in Int /\ b.low \in Int /\ b.close \in Int
                        /\ (WellFormed(b) => /\ b.low <= b.open /\ b.open <= b.high
                                             /\ b.low <= b.close /\ b.close <= b.high)
  BY DEF Candle, WellFormed
<1>5. r.atr[i] \in Given(Nat) /\ r.longs[i] \in BOOLEAN /\ r.shorts[i] \in BOOLEAN
  <2>1. /\ r.longs \in [DOMAIN r.bars -> BOOLEAN] /\ r.shorts \in [DOMAIN r.bars -> BOOLEAN]
        /\ r.atr \in [DOMAIN r.bars -> Given(Nat)]
    BY DEF IsRun
  <2>2. i \in DOMAIN r.bars
    BY <1>2
  <2> QED  BY <2>1, <2>2
<1> QED  BY <1>2, <1>3, <1>4, <1>5

LEMMA ExitsFacts ==
  ASSUME NEW r, IsRun(r)
  PROVE  /\ r.strategy.exits.stopAtr \in Given(Nat) /\ r.strategy.exits.takeR \in Given(Nat)
         /\ r.strategy.exits.trailAtr \in Given(Int) /\ r.strategy.exits.breakEvenR \in Given(Int)
         /\ r.strategy.exits.timeBars \in Given(Int)
  BY DEF IsRun

(* A position as it is opened: its stop behind the entry, its take ahead   *)
(* of it, and the entry no better than the open.                           *)
FreshAt(p, open) ==
  /\ Known(p.stop) => Signed(p.side, p.stop) <= Signed(p.side, p.entry)
  /\ Known(p.take) => Signed(p.side, p.entry) <= Signed(p.side, p.take)
  /\ Signed(p.side, open) <= Signed(p.side, p.entry)

LEMMA PositionFacts ==
  ASSUME NEW r, IsRun(r), NEW i \in 1..Len(r.bars), NEW side \in Sides, NEW equity \in Int
  PROVE  /\ Position(r, side, i, equity) \in PositionRow
         /\ FreshAt(Position(r, side, i, equity), r.bars[i].open)
<1> DEFINE exits == r.strategy.exits
           open == r.bars[i].open
           entry == Slipped(open, side = "long")
           margin == (equity * MarginPercent) \div 100
           levered == margin * Leverage
           quantity == IF entry > 0 THEN levered \div entry ELSE 0
           atr == IF i = 1 THEN NaN ELSE r.atr[i - 1]
           risk == IF Known(exits.stopAtr) /\ Known(atr) THEN atr * exits.stopAtr ELSE 0
           stopped == Known(exits.stopAtr) /\ Known(atr)
           liquidation == IF quantity > 0
                          THEN LiquidationPrice(side, entry, quantity,
                                                IF r.strategy.cross THEN equity ELSE margin)
                          ELSE 0
           fee == (levered * Fee) \div 1000
           next == (r.bars[i].time \div FundingEvery + 1) * FundingEvery
           stop == IF stopped THEN entry - Signed(side, risk) ELSE NaN
           ahead == risk * exits.takeR
           take == IF stopped /\ Known(exits.takeR) THEN entry + Signed(side, ahead) ELSE NaN
           p == Position(r, side, i, equity)
<1>1. open \in Int /\ r.bars[i].time \in Int
  BY RunFacts
<1>2. MarginPercent \in Int /\ Leverage \in Int /\ Slip \in Nat /\ Fee \in Int /\ FundingEvery \in Nat \ {0}
  BY BacktestAssumption
<1>3. entry \in Int /\ Signed(side, open) <= Signed(side, entry)
  BY <1>1, <1>2 DEF Slipped, Signed, Sides
<1>4. margin \in Int /\ levered \in Int
  <2>1. equity * MarginPercent \in Int
    BY <1>2, TimesType
  <2>2. margin \in Int
    BY <2>1, DivType
  <2> HIDE DEF margin
  <2> QED  BY <1>2, <2>2, TimesType
<1>5. quantity \in Int
  <2> HIDE DEF entry, levered
  <2>1. CASE entry > 0
    <3>1. entry \in Nat \ {0}
      BY <1>3, <2>1
    <3>2. levered \div entry \in Int
      BY <1>4, <3>1, DivType
    <3> QED  BY <2>1, <3>2
  <2>2. CASE ~(entry > 0)
    BY <2>2
  <2> QED  BY <2>1, <2>2
<1>6. exits.stopAtr \in Given(Nat) /\ exits.takeR \in Given(Nat)
  BY ExitsFacts
<1>7. atr \in Given(Nat)
  <2>1. CASE i = 1
    BY <2>1 DEF Given
  <2>2. CASE i # 1
    <3>1. i - 1 \in 1..Len(r.bars)
      BY <2>2, RunFacts
    <3>2. r.atr[i - 1] \in Given(Nat)
      BY <3>1, RunFacts
    <3> QED  BY <2>2, <3>2
  <2> QED  BY <2>1, <2>2
<1>8. risk \in Nat
  <2> HIDE DEF atr, exits
  <2>1. CASE stopped
    <3>1. atr \in Nat /\ exits.stopAtr \in Nat
      BY <1>6, <1>7, <2>1 DEF Known, Given
    <3>2. atr * exits.stopAtr \in Nat
      BY <3>1, TimesType
    <3> QED  BY <2>1, <3>2
  <2>2. CASE ~stopped
    BY <2>2
  <2> QED  BY <2>1, <2>2
<1>9. Known(exits.takeR) => ahead \in Nat
  <2> HIDE DEF risk, exits
  <2>1. Known(exits.takeR) => exits.takeR \in Nat
    BY <1>6 DEF Known, Given
  <2> QED  BY <1>8, <2>1, TimesType
<1>10. /\ stop \in Given(Int)
       /\ Known(stop) => Signed(side, stop) <= Signed(side, entry)
  <2> HIDE DEF entry, risk, stopped
  <2> QED  BY <1>3, <1>8, NumbersAssumption DEF Signed, Given, Known, Sides
<1>11. /\ take \in Given(Int)
       /\ Known(take) => Signed(side, entry) <= Signed(side, take)
  <2> HIDE DEF entry, ahead, stopped, exits
  <2> QED  BY <1>3, <1>9, NumbersAssumption DEF Signed, Given, Known, Sides
<1>12. liquidation \in Int
  <2> HIDE DEF entry, quantity, margin
  <2>1. CASE quantity > 0
    <3>1. (IF r.strategy.cross THEN equity ELSE margin) \in Int
      BY <1>4
    <3> DEFINE backing == IF r.strategy.cross THEN equity ELSE margin
    <3> HIDE DEF backing
    <3>2. LiquidationPrice(side, entry, quantity, backing) \in Int
      BY <1>3, <1>5, <2>1, <3>1, LiquidationType DEF backing
    <3> QED  BY <2>1, <3>2 DEF backing
  <2>2. CASE ~(quantity > 0)
    BY <2>2
  <2> QED  BY <2>1, <2>2
<1>13. fee \in Int
  <2> HIDE DEF levered
  <2>1. levered * Fee \in Int
    BY <1>2, <1>4, TimesType
  <2> QED  BY <2>1, DivType
<1>14. next \in Int
  <2>1. r.bars[i].time \div FundingEvery \in Int
    BY <1>1, <1>2, DivType
  <2>2. r.bars[i].time \div FundingEvery + 1 \in Int /\ FundingEvery \in Int
    BY <1>2, <2>1
  <2> QED  BY <2>2, TimesType
<1>15. p = [side |-> side, entryAt |-> i, entry |-> entry, margin |-> margin, quantity |-> quantity,
            liquidation |-> liquidation, fee |-> fee, paid |-> 0, nextFunding |-> next,
            peak |-> entry, risk |-> risk, armed |-> FALSE, stop |-> stop, take |-> take,
            runUp |-> 0, drawdown |-> 0]
  BY DEF Position
<1>16. i \in Int
  OBVIOUS
<1> HIDE DEF p, entry, margin, quantity, liquidation, fee, next, risk, stop, take, open
<1>17. p \in PositionRow
  BY <1>3, <1>4, <1>5, <1>8, <1>10, <1>11, <1>12, <1>13, <1>14, <1>15, <1>16 DEF PositionRow
<1>18. p.side = side /\ p.entry = entry /\ p.stop = stop /\ p.take = take
  BY <1>15
<1>19. FreshAt(p, open)
  BY <1>3, <1>10, <1>11, <1>18 DEF FreshAt
<1> QED  BY <1>17, <1>19 DEF p, open

(* A step of the exit levels: what the position is stays, and its stop     *)
(* moves the trade's way but for the step that arms break-even.            *)
SameTrade(p, q) ==
  /\ q.side = p.side /\ q.entryAt = p.entryAt /\ q.entry = p.entry
  /\ q.liquidation = p.liquidation /\ q.take = p.take

NotLooser(p, q) ==
  Known(p.stop) => \/ Known(q.stop) /\ Signed(p.side, q.stop) >= Signed(p.side, p.stop)
                   \/ q.armed /\ ~p.armed

LEMMA RowFacts ==
  ASSUME NEW p \in PositionRow
  PROVE  /\ p.side \in Sides /\ p.entryAt \in Int /\ p.entry \in Int /\ p.margin \in Int
         /\ p.quantity \in Int /\ p.liquidation \in Int /\ p.fee \in Int /\ p.paid \in Int
         /\ p.nextFunding \in Int /\ p.peak \in Int /\ p.risk \in Nat /\ p.armed \in BOOLEAN
         /\ p.stop \in Given(Int) /\ p.take \in Given(Int) /\ p.runUp \in Int /\ p.drawdown \in Int
  BY DEF PositionRow

LEMMA PeakedType ==
  ASSUME NEW p \in PositionRow, NEW bar, bar.high \in Int, bar.low \in Int
  PROVE  /\ Peaked(p, bar) \in PositionRow /\ SameTrade(p, Peaked(p, bar))
         /\ Peaked(p, bar).stop = p.stop /\ Peaked(p, bar).armed = p.armed
<1> DEFINE peak == IF p.side = "long" THEN Max({p.peak, bar.high}) ELSE Min({p.peak, bar.low})
<1>1. peak \in Int
  BY RowFacts, MoreOf, LessOf
<1>2. Peaked(p, bar) = [p EXCEPT !.peak = peak]
  BY DEF Peaked
<1> HIDE DEF peak
<1> QED  BY <1>1, <1>2 DEF PositionRow, SameTrade

LEMMA BreakEvenType ==
  ASSUME NEW exits, NEW p \in PositionRow
  PROVE  /\ BreakEven(exits, p) \in PositionRow /\ SameTrade(p, BreakEven(exits, p))
         /\ \/ BreakEven(exits, p).stop = p.stop /\ BreakEven(exits, p).armed = p.armed
            \/ BreakEven(exits, p).armed /\ ~p.armed
<1> DEFINE arms == /\ Known(exits.breakEvenR) /\ p.risk > 0 /\ ~p.armed
                   /\ Signed(p.side, p.peak - p.entry) >= p.risk * exits.breakEvenR
<1>1. BreakEven(exits, p) = IF arms THEN [p EXCEPT !.stop = p.entry, !.armed = TRUE] ELSE p
  BY DEF BreakEven
<1>2. arms => ~p.armed
  OBVIOUS
<1>3. p.entry \in Given(Int)
  <2>1. p.entry \in Int
    BY RowFacts
  <2> QED  BY <2>1 DEF Given
<1> HIDE DEF arms
<1>4. CASE arms
  <2> DEFINE q == [p EXCEPT !.stop = p.entry, !.armed = TRUE]
  <2>1. q \in PositionRow /\ SameTrade(p, q) /\ q.armed = TRUE
    BY <1>3 DEF PositionRow, SameTrade
  <2>2. BreakEven(exits, p) = q
    BY <1>1, <1>4
  <2> HIDE DEF q
  <2> QED  BY <1>2, <1>4, <2>1, <2>2
<1>5. CASE ~arms
  BY <1>1, <1>5 DEF SameTrade
<1> QED  BY <1>4, <1>5

LEMMA TrailedType ==
  ASSUME NEW exits, exits.trailAtr \in Given(Int), NEW p \in PositionRow, NEW atr \in Given(Nat)
  PROVE  /\ Trailed(exits, p, atr) \in PositionRow /\ SameTrade(p, Trailed(exits, p, atr))
         /\ Trailed(exits, p, atr).armed = p.armed
         /\ Known(p.stop) => /\ Known(Trailed(exits, p, atr).stop)
                             /\ Signed(p.side, Trailed(exits, p, atr).stop) >= Signed(p.side, p.stop)
<1> DEFINE candidate == p.peak - Signed(p.side, atr * exits.trailAtr)
           stop == IF Known(p.stop) THEN Tighter(p.side, p.stop, candidate) ELSE candidate
<1>1. p.peak \in Int /\ p.stop \in Given(Int) /\ p.side \in Sides
  BY RowFacts
<1>2. CASE Known(exits.trailAtr) /\ Known(atr)
  <2>1. exits.trailAtr \in Int /\ atr \in Int
    BY <1>2 DEF Known, Given
  <2>2. Signed(p.side, atr * exits.trailAtr) \in Int
    BY <2>1, TimesType, SignedType
  <2>3. candidate \in Int
    BY <1>1, <2>2
  <2> HIDE DEF candidate
  <2>4. Known(p.stop) => /\ Tighter(p.side, p.stop, candidate) \in Int
                         /\ Signed(p.side, Tighter(p.side, p.stop, candidate)) >= Signed(p.side, p.stop)
    <3> SUFFICES ASSUME Known(p.stop)
                 PROVE  /\ Tighter(p.side, p.stop, candidate) \in Int
                        /\ Signed(p.side, Tighter(p.side, p.stop, candidate)) >= Signed(p.side, p.stop)
      OBVIOUS
    <3>1. p.stop \in Int
      BY <1>1 DEF Known, Given
    <3>2. Max({p.stop, candidate}) \in Int /\ Max({p.stop, candidate}) >= p.stop
      BY <2>3, <3>1, MoreOf
    <3>3. Min({p.stop, candidate}) \in Int /\ Min({p.stop, candidate}) <= p.stop
      BY <2>3, <3>1, LessOf
    <3> QED  BY <3>1, <3>2, <3>3 DEF Tighter, Signed
  <2>5. stop \in Int /\ (Known(p.stop) => Signed(p.side, stop) >= Signed(p.side, p.stop))
    BY <2>3, <2>4
  <2>6. Trailed(exits, p, atr) = [p EXCEPT !.stop = stop]
    BY <1>2 DEF Trailed, candidate
  <2> HIDE DEF stop
  <2>7. Known(stop) /\ stop \in Given(Int)
    BY <2>5, NumbersAssumption DEF Known, Given
  <2>8. Trailed(exits, p, atr).stop = stop /\ Trailed(exits, p, atr).armed = p.armed
    BY <2>6 DEF PositionRow
  <2>9. Trailed(exits, p, atr) \in PositionRow /\ SameTrade(p, Trailed(exits, p, atr))
    BY <2>6, <2>7 DEF PositionRow, SameTrade
  <2> QED  BY <2>5, <2>7, <2>8, <2>9
<1>3. CASE ~(Known(exits.trailAtr) /\ Known(atr))
  <2>1. Trailed(exits, p, atr) = p
    BY <1>3 DEF Trailed
  <2>2. Known(p.stop) => Signed(p.side, p.stop) \in Int
    BY <1>1, SignedType DEF Known, Given
  <2> QED  BY <2>1, <2>2 DEF SameTrade
<1> QED  BY <1>2, <1>3

LEMMA UpdatedFacts ==
  ASSUME NEW r, IsRun(r), NEW i \in 1..Len(r.bars), NEW p \in PositionRow
  PROVE  /\ UpdatedPosition(r, p, i) \in PositionRow
         /\ SameTrade(p, UpdatedPosition(r, p, i))
         /\ NotLooser(p, UpdatedPosition(r, p, i))
<1> DEFINE x == Peaked(p, r.bars[i])
           y == BreakEven(r.strategy.exits, x)
           z == Trailed(r.strategy.exits, y, r.atr[i])
<1>1. x \in PositionRow /\ SameTrade(p, x) /\ x.stop = p.stop /\ x.armed = p.armed
  <2>1. r.bars[i].high \in Int /\ r.bars[i].low \in Int
    BY RunFacts
  <2> QED  BY <2>1, PeakedType
<1> HIDE DEF x
<1>2. /\ y \in PositionRow /\ SameTrade(x, y)
      /\ (y.stop = x.stop /\ y.armed = x.armed) \/ (y.armed /\ ~x.armed)
  BY <1>1, BreakEvenType
<1> HIDE DEF y
<1>3. /\ z \in PositionRow /\ SameTrade(y, z) /\ z.armed = y.armed
      /\ Known(y.stop) => Known(z.stop) /\ Signed(y.side, z.stop) >= Signed(y.side, y.stop)
  <2>1. r.atr[i] \in Given(Nat) /\ r.strategy.exits.trailAtr \in Given(Int)
    BY RunFacts, ExitsFacts
  <2> QED  BY <1>2, <2>1, TrailedType
<1>4. UpdatedPosition(r, p, i) = z
  BY DEF UpdatedPosition, x, y
<1> HIDE DEF z
<1>5. SameTrade(p, z)
  BY <1>1, <1>2, <1>3 DEF SameTrade
<1>6. y.side = p.side
  BY <1>1, <1>2 DEF SameTrade
<1>7. NotLooser(p, z)
  BY <1>1, <1>2, <1>3, <1>6 DEF NotLooser
<1> QED  BY <1>3, <1>4, <1>5, <1>7

-----------------------------------------------------------------------------
(* The bar loop: exits.                                                    *)

Hits(p, range) == LiquidationHit(p, range) \/ StopHit(p, range) \/ TakeHit(p, range)

LEMMA ExitFacts ==
  ASSUME NEW p \in PositionRow, NEW range
  PROVE  /\ ExitIn(p, range) # NoExit <=> Hits(p, range)
         /\ ExitIn(p, range) # NoExit => ExitIn(p, range).price \in Int /\ ExitIn(p, range).reason \in Reasons
<1>1. p.liquidation \in Int /\ p.stop \in Given(Int) /\ p.take \in Given(Int)
  BY RowFacts
<1>2. StopHit(p, range) => p.stop \in Int
  BY <1>1 DEF StopHit, Above, Below, Known, Given
<1>3. TakeHit(p, range) => p.take \in Int
  BY <1>1 DEF TakeHit, Above, Below, Known, Given
<1> DEFINE h == ExitIn(p, range)
<1>4. CASE LiquidationHit(p, range)
  <2>1. h = [reason |-> "liquidation", price |-> p.liquidation]
    BY <1>4 DEF ExitIn
  <2> HIDE DEF h
  <2>2. h.reason = "liquidation" /\ h.price = p.liquidation /\ h # NoExit
    BY <2>1 DEF NoExit
  <2> QED  BY <1>1, <1>4, <2>2 DEF Hits, Reasons, h
<1>5. CASE ~LiquidationHit(p, range) /\ StopHit(p, range)
  <2>1. h = [reason |-> "stop_loss", price |-> p.stop]
    BY <1>5 DEF ExitIn
  <2> HIDE DEF h
  <2>2. h.reason = "stop_loss" /\ h.price = p.stop /\ h # NoExit
    BY <2>1 DEF NoExit
  <2> QED  BY <1>2, <1>5, <2>2 DEF Hits, Reasons, h
<1>6. CASE ~LiquidationHit(p, range) /\ ~StopHit(p, range) /\ TakeHit(p, range)
  <2>1. h = [reason |-> "take_profit", price |-> p.take]
    BY <1>6 DEF ExitIn
  <2> HIDE DEF h
  <2>2. h.reason = "take_profit" /\ h.price = p.take /\ h # NoExit
    BY <2>1 DEF NoExit
  <2> QED  BY <1>3, <1>6, <2>2 DEF Hits, Reasons, h
<1>7. CASE ~Hits(p, range)
  BY <1>7 DEF Hits, ExitIn
<1> QED  BY <1>4, <1>5, <1>6, <1>7 DEF Hits

(* The levels of a position that has survived a range of prices: the take  *)
(* lies beyond the stop and beyond a liquidation that can happen.          *)
Exposed(p) == IF p.side = "long" THEN p.liquidation > 0 ELSE p.liquidation < Inf

Apart(p) ==
  Known(p.take) => /\ Known(p.stop) => Signed(p.side, p.stop) < Signed(p.side, p.take)
                   /\ Exposed(p) => Signed(p.side, p.liquidation) < Signed(p.side, p.take)

LEMMA CalmIsApart ==
  ASSUME NEW p \in PositionRow, NEW range, range.low \in Int, range.high \in Int,
         range.low <= range.high, ~Hits(p, range)
  PROVE  Apart(p)
<1>1. p.liquidation \in Int /\ p.side \in Sides /\ Inf \in Int
  BY RowFacts, NumbersAssumption
<1>2. Known(p.stop) => p.stop \in Int
  BY RowFacts DEF Known, Given
<1>3. Known(p.take) => p.take \in Int
  BY RowFacts DEF Known, Given
<1>4. CASE p.side = "long"
  <2>1. Known(p.take) => range.high < p.take
    BY <1>3, <1>4 DEF Hits, TakeHit, Above
  <2>2. Known(p.stop) => p.stop < range.low
    BY <1>2, <1>4 DEF Hits, StopHit, Below
  <2>3. Exposed(p) => p.liquidation < range.low
    BY <1>1, <1>4 DEF Hits, LiquidationHit, Exposed
  <2>4. Known(p.take) => /\ Known(p.stop) => p.stop < p.take
                         /\ Exposed(p) => p.liquidation < p.take
    BY <1>1, <1>2, <1>3, <2>1, <2>2, <2>3
  <2> QED  BY <1>4, <2>4 DEF Apart, Signed
<1>5. CASE p.side # "long"
  <2>1. Known(p.take) => p.take < range.low
    BY <1>3, <1>5 DEF Hits, TakeHit, Below
  <2>2. Known(p.stop) => range.high < p.stop
    BY <1>2, <1>5 DEF Hits, StopHit, Above
  <2>3. Exposed(p) => range.high < p.liquidation
    BY <1>1, <1>5 DEF Hits, LiquidationHit, Exposed
  <2>4. Known(p.take) => /\ Known(p.stop) => -p.stop < -p.take
                         /\ Exposed(p) => -p.liquidation < -p.take
    BY <1>1, <1>2, <1>3, <2>1, <2>2, <2>3
  <2> QED  BY <1>5, <2>4 DEF Apart, Signed
<1> QED  BY <1>4, <1>5

(* A walk ends at the first of its ranges that holds an exit.              *)
LEMMA WalkedFacts ==
  ASSUME NEW p \in PositionRow, NEW ranges, NEW some \in SUBSET Nat
  PROVE  LET h == Walked(p, ranges, some)
         IN  \/ h = NoExit /\ \A k \in some : ~Hits(p, ranges[k])
             \/ \E k \in some : /\ h = ExitIn(p, ranges[k]) /\ Hits(p, ranges[k])
                                /\ \A j \in some : Hits(p, ranges[j]) => k <= j
<1> DEFINE h == Walked(p, ranges, some)
           hits == {k \in some : ExitIn(p, ranges[k]) # NoExit}
<1>1. \A k \in some : k \in hits <=> Hits(p, ranges[k])
  BY ExitFacts
<1>2. hits \in SUBSET Nat /\ hits \subseteq some
  OBVIOUS
<1>3. h = IF hits = {} THEN NoExit ELSE ExitIn(p, ranges[Min(hits)])
  BY DEF Walked
<1> HIDE DEF h, hits
<1>4. CASE hits = {}
  BY <1>1, <1>3, <1>4 DEF h
<1>5. CASE hits # {}
  <2>1. Min(hits) \in hits /\ \A y \in hits : Min(hits) <= y
    BY <1>2, <1>5, LeastIs
  <2>2. Min(hits) \in some /\ h = ExitIn(p, ranges[Min(hits)]) /\ Hits(p, ranges[Min(hits)])
    BY <1>1, <1>2, <1>3, <1>5, <2>1
  <2>3. \A j \in some : Hits(p, ranges[j]) => Min(hits) <= j
    BY <1>1, <2>1
  <2>4. \E k \in some : /\ h = ExitIn(p, ranges[k]) /\ Hits(p, ranges[k])
                        /\ \A j \in some : Hits(p, ranges[j]) => k <= j
    BY <2>2, <2>3
  <2> QED  BY <2>4 DEF h
<1> QED  BY <1>4, <1>5

LEMMA ResolvedFacts ==
  ASSUME NEW r, IsRun(r), NEW i \in 1..Len(r.bars), NEW p \in PositionRow
  PROVE  LET h == Resolved(r, p, i)
         IN  /\ h # NoExit => h.price \in Int /\ h.reason \in Reasons
             /\ h = NoExit => Apart(p)
<1> DEFINE h == Resolved(r, p, i)
           inside == {k \in DOMAIN r.fine : /\ r.bars[i].time <= r.fine[k].time
                                            /\ r.fine[k].time < EndOf(r.bars, i)}
<1>1. h = IF inside = {} THEN ExitIn(p, r.bars[i]) ELSE Walked(p, r.fine, inside)
  BY DEF Resolved
<1>2. \A k \in inside : /\ k \in Nat /\ r.fine[k].low \in Int /\ r.fine[k].high \in Int
                        /\ r.fine[k].low <= r.fine[k].high
  <2>1. r.fine \in Seq(Minute1) /\ \A k \in DOMAIN r.fine : r.fine[k].low <= r.fine[k].high
    BY DEF IsRun
  <2>2. DOMAIN r.fine = 1..Len(r.fine) /\ Len(r.fine) \in Nat /\ \A k \in 1..Len(r.fine) : r.fine[k] \in Minute1
    <3> HIDE DEF Minute1
    <3> QED  BY <2>1
  <2>3. \A m \in Minute1 : m.low \in Int /\ m.high \in Int
    BY DEF Minute1
  <2> QED  BY <2>1, <2>2, <2>3
<1>3. r.bars[i].low \in Int /\ r.bars[i].high \in Int /\ r.bars[i].low <= r.bars[i].high
  BY RunFacts
<1> HIDE DEF h, inside
<1>4. CASE inside = {}
  <2>1. h = ExitIn(p, r.bars[i])
    BY <1>1, <1>4
  <2>2. h # NoExit => h.price \in Int /\ h.reason \in Reasons
    BY <2>1, ExitFacts
  <2>3. h = NoExit => Apart(p)
    BY <1>3, <2>1, ExitFacts, CalmIsApart
  <2> QED  BY <2>2, <2>3 DEF h
<1>5. CASE inside # {}
  <2>1. h = Walked(p, r.fine, inside) /\ inside \in SUBSET Nat
    BY <1>1, <1>2, <1>5
  <2>2. \/ h = NoExit /\ \A k \in inside : ~Hits(p, r.fine[k])
        \/ \E k \in inside : h = ExitIn(p, r.fine[k]) /\ Hits(p, r.fine[k])
    BY <2>1, WalkedFacts
  <2>3. CASE h = NoExit /\ \A k \in inside : ~Hits(p, r.fine[k])
    <3>1. PICK k \in inside : TRUE
      BY <1>5
    <3>2. Apart(p)
      BY <1>2, <2>3, CalmIsApart
    <3> QED  BY <2>3, <3>2 DEF h
  <2>4. CASE \E k \in inside : h = ExitIn(p, r.fine[k]) /\ Hits(p, r.fine[k])
    <3>1. PICK k \in inside : h = ExitIn(p, r.fine[k]) /\ Hits(p, r.fine[k])
      BY <2>4
    <3>2. h # NoExit /\ h.price \in Int /\ h.reason \in Reasons
      BY <3>1, ExitFacts
    <3> QED  BY <3>2 DEF h
  <2> QED  BY <2>2, <2>3, <2>4
<1> QED  BY <1>4, <1>5

-----------------------------------------------------------------------------
(* The bar loop: what a bar does to an account.                            *)

LEMMA AccountFacts ==
  ASSUME NEW a \in Account
  PROVE  /\ a.equity \in Int /\ a.pending \in Sides \cup {"none"} /\ a.trades \in Seq(TradeRow)
         /\ a.path \in Seq(Int) /\ a.position \in PositionRow \cup {NoPosition}
         /\ a.position # NoPosition => a.position \in PositionRow
         /\ NoPosition \notin PositionRow
  BY DEF Account, NoPosition, PositionRow, Sides

LEMMA ClosedFacts ==
  ASSUME NEW r, NEW a \in Account, a.position # NoPosition, NEW i \in Int, NEW price \in Int,
         NEW reason \in Reasons
  PROVE  /\ Closed(r, a, i, price, reason) \in Account
         /\ Closed(r, a, i, price, reason).position = NoPosition
         /\ Closed(r, a, i, price, reason).path = a.path
<1> DEFINE p == a.position
           exit == IF reason = "liquidation" THEN price ELSE Slipped(price, p.side = "short")
           value == exit * p.quantity
           charge == (value * Fee) \div 1000
           gross == Signed(p.side, (exit - p.entry) * p.quantity)
           made == gross - p.fee - charge - p.paid
           backing == IF r.strategy.cross THEN a.equity ELSE p.margin
           net == IF reason = "liquidation" THEN Max({made, -backing}) ELSE made
           trade == [side |-> p.side, entryAt |-> p.entryAt, exitAt |-> i, exit |-> exit,
                     reason |-> reason, net |-> net, runUp |-> p.runUp, drawdown |-> p.drawdown]
<1>1. a.equity \in Int /\ p \in PositionRow
  BY AccountFacts
<1>2. /\ p.side \in Sides /\ p.entryAt \in Int /\ p.entry \in Int /\ p.margin \in Int /\ p.quantity \in Int
      /\ p.fee \in Int /\ p.paid \in Int /\ p.runUp \in Int /\ p.drawdown \in Int
  BY <1>1, RowFacts
<1>3. Fee \in Int /\ Slip \in Int
  BY BacktestAssumption
<1> HIDE DEF p
<1>4. exit \in Int
  BY <1>3 DEF Slipped
<1> HIDE DEF exit
<1>5. value \in Int
  BY <1>2, <1>4, TimesType
<1> HIDE DEF value
<1>6. charge \in Int
  <2>1. value * Fee \in Int
    BY <1>3, <1>5, TimesType
  <2> QED  BY <2>1, DivType
<1>7. gross \in Int
  <2>1. exit - p.entry \in Int
    BY <1>2, <1>4
  <2>2. (exit - p.entry) * p.quantity \in Int
    BY <1>2, <2>1, TimesType
  <2> QED  BY <2>2, SignedType
<1> HIDE DEF charge, gross
<1>8. made \in Int /\ -backing \in Int
  BY <1>1, <1>2, <1>6, <1>7
<1> HIDE DEF made, backing
<1>9. net \in Int
  BY <1>8, MoreOf
<1> HIDE DEF net
<1>10. trade \in TradeRow
  BY <1>2, <1>4, <1>9 DEF TradeRow
<1>11. Closed(r, a, i, price, reason)
         = [a EXCEPT !.equity = @ + net, !.position = NoPosition, !.trades = Append(@, trade)]
  BY DEF Closed, p, exit, value, charge, gross, made, backing, net
<1> HIDE DEF trade
<1>12. Append(a.trades, trade) \in Seq(TradeRow)
  <2>1. a.trades \in Seq(TradeRow)
    BY AccountFacts
  <2> HIDE DEF TradeRow
  <2> QED  BY <1>10, <2>1
<1>13. a.equity + net \in Int
  BY <1>1, <1>9
<1> QED  BY <1>11, <1>12, <1>13 DEF Account

LEMMA EndType ==
  ASSUME NEW r, IsRun(r), NEW i \in 1..Len(r.bars)
  PROVE  EndOf(r.bars, i) \in Int
<1>1. r.bars[i].time \in Int
  BY RunFacts
<1>2. CASE i < Len(r.bars)
  <2>1. i + 1 \in 1..Len(r.bars)
    BY <1>2, RunFacts
  <2>2. r.bars[i + 1].time \in Int
    BY <2>1, RunFacts
  <2> QED  BY <1>2, <2>2 DEF EndOf
<1> QED  BY <1>1, <1>2 DEF EndOf

LEMMA DivNat ==
  ASSUME NEW a \in Nat, NEW b \in Nat \ {0}
  PROVE  a \div b \in Nat
  OBVIOUS

(* What funding and the run-up leave alone.                                *)
SameLevels(p, q) == SameTrade(p, q) /\ q.stop = p.stop /\ q.armed = p.armed

LEMMA FundedFacts ==
  ASSUME NEW r, IsRun(r), NEW i \in 1..Len(r.bars), NEW p \in PositionRow
  PROVE  Funded(r, p, i) \in PositionRow /\ SameLevels(p, Funded(r, p, i))
<1> DEFINE end == EndOf(r.bars, i)
           due == IF p.nextFunding < end THEN (end - 1 - p.nextFunding) \div FundingEvery + 1 ELSE 0
           Settles(k) == p.nextFunding + (k - 1) * FundingEvery
           Charge(k) == IF Settles(k) >= r.bars[i].time /\ Settles(k) \in DOMAIN Rates
                        THEN (r.bars[i].close * p.quantity * Rates[Settles(k)]) \div 1000 ELSE 0
           charges == [k \in 1..due |-> Charge(k)]
           next == p.nextFunding + FundingEvery * due
           paid == p.paid + Signed(p.side, Total(charges))
<1>1. p.nextFunding \in Int /\ p.quantity \in Int /\ p.paid \in Int
  BY RowFacts
<1>2. end \in Int /\ r.bars[i].close \in Int
  BY EndType, RunFacts
<1>3. FundingEvery \in Nat \ {0} /\ \A t \in DOMAIN Rates : Rates[t] \in Int
  BY BacktestAssumption
<1> HIDE DEF end
<1>4. due \in Nat
  <2>1. CASE p.nextFunding < end
    <3>1. end - 1 - p.nextFunding \in Nat
      BY <1>1, <1>2, <2>1
    <3>2. (end - 1 - p.nextFunding) \div FundingEvery \in Nat
      BY <1>3, <3>1, DivNat
    <3> QED  BY <2>1, <3>2
  <2>2. CASE ~(p.nextFunding < end)
    BY <2>2
  <2> QED  BY <2>1, <2>2
<1> HIDE DEF due
<1>5. \A k \in 1..due : Charge(k) \in Int
  <2> SUFFICES ASSUME NEW k \in 1..due PROVE Charge(k) \in Int
    OBVIOUS
  <2> DEFINE t == Settles(k)
             value == r.bars[i].close * p.quantity
  <2>1. value \in Int
    BY <1>1, <1>2, TimesType
  <2> HIDE DEF value
  <2>2. CASE t \in DOMAIN Rates
    <3>1. Rates[t] \in Int
      BY <1>3, <2>2
    <3> DEFINE amount == value * Rates[t]
    <3>2. amount \in Int
      BY <2>1, <3>1, TimesType
    <3> HIDE DEF amount
    <3>3. amount \div 1000 \in Int
      BY <3>2, DivType
    <3>4. (r.bars[i].close * p.quantity * Rates[Settles(k)]) \div 1000 \in Int
      BY <3>3 DEF amount, value
    <3> HIDE DEF t
    <3> QED  BY <3>4
  <2>3. CASE t \notin DOMAIN Rates
    BY <2>3
  <2> QED  BY <2>2, <2>3
<1> HIDE DEF Charge
<1>6. charges \in Seq(Int) /\ Len(charges) = due
  BY <1>4, <1>5
<1> HIDE DEF charges
<1>7. Total(charges) \in Int
  <2>1. Sums(charges) \in [0..Len(charges) -> Int] /\ Len(charges) \in 0..Len(charges)
    BY <1>4, <1>6, SumsAre
  <2> QED  BY <2>1, TotalIs
<1>8. paid \in Int
  <2>1. Signed(p.side, Total(charges)) \in Int
    BY <1>7, SignedType
  <2> QED  BY <1>1, <2>1
<1>9. next \in Int
  <2>1. FundingEvery \in Int /\ due \in Int
    BY <1>3, <1>4
  <2>2. FundingEvery * due \in Int
    BY <2>1, TimesType
  <2> QED  BY <1>1, <2>2
<1>10. Funded(r, p, i) = [p EXCEPT !.nextFunding = next, !.paid = paid]
  BY DEF Funded, charges, Charge, due, end
<1> HIDE DEF next, paid
<1> QED  BY <1>8, <1>9, <1>10 DEF PositionRow, SameLevels, SameTrade

LEMMA TrackedFacts ==
  ASSUME NEW p \in PositionRow, NEW bar, bar.high \in Int, bar.low \in Int
  PROVE  Tracked(p, bar) \in PositionRow /\ SameLevels(p, Tracked(p, bar))
<1> DEFINE way == (IF p.side = "long" THEN bar.high ELSE bar.low) - p.entry
           back == (IF p.side = "long" THEN bar.low ELSE bar.high) - p.entry
           best == Signed(p.side, way) * p.quantity
           worst == Signed(p.side, back) * p.quantity
           runUp == Max({p.runUp, best})
           drawdown == Min({p.drawdown, worst})
<1>1. p.entry \in Int /\ p.quantity \in Int /\ p.runUp \in Int /\ p.drawdown \in Int
  BY RowFacts
<1>2. Signed(p.side, way) \in Int /\ Signed(p.side, back) \in Int
  <2>1. way \in Int /\ back \in Int
    BY <1>1
  <2> HIDE DEF way, back
  <2> QED  BY <2>1, SignedType
<1> HIDE DEF way, back
<1>3. best \in Int /\ worst \in Int
  BY <1>1, <1>2, TimesType
<1> HIDE DEF best, worst
<1>4. runUp \in Int /\ drawdown \in Int
  BY <1>1, <1>3, MoreOf, LessOf
<1>5. Tracked(p, bar) = [p EXCEPT !.runUp = runUp, !.drawdown = drawdown]
  BY DEF Tracked, best, worst, way, back
<1> HIDE DEF runUp, drawdown
<1> QED  BY <1>4, <1>5 DEF PositionRow, SameLevels, SameTrade

LEMMA ApartKept ==
  ASSUME NEW p, NEW q, SameLevels(p, q), Apart(p)
  PROVE  Apart(q)
  BY DEF SameLevels, SameTrade, Apart, Exposed

-----------------------------------------------------------------------------
(* The bar loop: a bar.                                                    *)

LEMMA OpenedFacts ==
  ASSUME NEW r, IsRun(r), NEW i \in 1..Len(r.bars), NEW a \in Account
  PROVE  LET o == Opened(r, a, i)
         IN  /\ o \in Account
             /\ o = a \/ (a.position = NoPosition /\ FreshAt(o.position, r.bars[i].open))
<1> DEFINE o == Opened(r, a, i)
           p == Position(r, a.pending, i, a.equity)
<1>1. a.equity \in Int /\ a.pending \in Sides \cup {"none"}
  BY AccountFacts
<1>2. CASE a.pending # "none" /\ a.position = NoPosition
  <2>1. a.pending \in Sides
    BY <1>1, <1>2
  <2>2. p \in PositionRow /\ FreshAt(p, r.bars[i].open)
    BY <1>1, <2>1, PositionFacts
  <2>3. o = [a EXCEPT !.pending = "none", !.position = p]
    BY <1>2 DEF Opened
  <2> HIDE DEF p, o
  <2>4. o \in Account /\ o.position = p
    BY <2>2, <2>3 DEF Account
  <2> QED  BY <1>2, <2>2, <2>4 DEF o
<1>3. CASE ~(a.pending # "none" /\ a.position = NoPosition)
  BY <1>3 DEF Opened
<1> QED  BY <1>2, <1>3

LEMMA ManagedFacts ==
  ASSUME NEW r, IsRun(r), NEW i \in 1..Len(r.bars), NEW a \in Account
  PROVE  LET m == Managed(r, a, i)
         IN  /\ m \in Account
             /\ m.position # NoPosition =>
                  /\ a.position # NoPosition
                  /\ m.position.side = a.position.side
                  /\ NotLooser(a.position, m.position)
                  /\ Apart(m.position)
<1> DEFINE m == Managed(r, a, i)
           p == UpdatedPosition(r, a.position, i)
           hit == Resolved(r, p, i)
           held == [a EXCEPT !.position = p]
           f == Funded(r, p, i)
           t == Tracked(f, r.bars[i])
<1>1. CASE a.position = NoPosition
  BY <1>1 DEF Managed
<1>2. CASE a.position # NoPosition
  <2>0. a.position \in PositionRow /\ NoPosition \notin PositionRow
    BY <1>2, AccountFacts
  <2>1. p \in PositionRow /\ SameTrade(a.position, p) /\ NotLooser(a.position, p)
    BY <2>0, UpdatedFacts
  <2>2. /\ hit # NoExit => hit.price \in Int /\ hit.reason \in Reasons
        /\ hit = NoExit => Apart(p)
    <3> HIDE DEF p
    <3> QED  BY <2>1, ResolvedFacts
  <2>3. m = IF hit # NoExit THEN Closed(r, held, i, hit.price, hit.reason) ELSE [a EXCEPT !.position = t]
    BY <1>2 DEF Managed
  <2> HIDE DEF p, m, hit
  <2>4. CASE hit # NoExit
    <3>1. held \in Account /\ held.position = p /\ held.position # NoPosition
      BY <2>0, <2>1 DEF Account
    <3>2. m = Closed(r, held, i, hit.price, hit.reason) /\ i \in Int
      BY <2>3, <2>4
    <3> HIDE DEF held
    <3>3. m \in Account /\ m.position = NoPosition
      BY <2>2, <2>4, <3>1, <3>2, ClosedFacts
    <3> QED  BY <3>3 DEF m
  <2>5. CASE hit = NoExit
    <3>1. f \in PositionRow /\ SameLevels(p, f)
      BY <2>1, FundedFacts
    <3> HIDE DEF f
    <3>2. t \in PositionRow /\ SameLevels(f, t)
      <4>1. r.bars[i].high \in Int /\ r.bars[i].low \in Int
        BY RunFacts
      <4> QED  BY <3>1, <4>1, TrackedFacts
    <3> HIDE DEF t
    <3>3. SameLevels(p, t)
      BY <3>1, <3>2 DEF SameLevels, SameTrade
    <3>4. m \in Account /\ m.position = t
      BY <2>3, <2>5, <3>2 DEF Account
    <3>5. Apart(t)
      BY <2>2, <2>5, <3>3, ApartKept
    <3>6. NotLooser(a.position, t) /\ t.side = a.position.side
      BY <2>1, <3>3 DEF SameLevels, SameTrade, NotLooser
    <3> QED  BY <1>2, <3>4, <3>5, <3>6 DEF m
  <2> QED  BY <2>4, <2>5
<1> QED  BY <1>1, <1>2

LEMMA SignalledFacts ==
  ASSUME NEW r, IsRun(r), NEW i \in 1..Len(r.bars), NEW a \in Account
  PROVE  LET s == Signalled(r, a, i)
         IN  /\ s \in Account
             /\ s.position # NoPosition => s.position = a.position
<1> DEFINE s == Signalled(r, a, i)
           reason == SignalExit(r, a.position, i)
           closed == Closed(r, a, i + 1, r.bars[i + 1].open, reason)
           wanted == Wanted(r, i)
<1>1. wanted \in Sides \cup {"none"}
  BY DEF Wanted, Sides
<1>2. reason \in {"time_exit", "opposite_signal", "none"}
  BY DEF SignalExit
<1>3. CASE a.position = NoPosition
  <2>1. s = IF a.pending = "none" THEN [a EXCEPT !.pending = wanted] ELSE a
    BY <1>3 DEF Signalled
  <2> HIDE DEF wanted, s
  <2>2. s \in Account /\ s.position = a.position
    BY <1>1, <2>1 DEF Account
  <2> QED  BY <2>2 DEF s
<1>4. CASE a.position # NoPosition
  <2>1. s = IF reason = "none" \/ i = Len(r.bars) THEN a
            ELSE IF reason = "opposite_signal" THEN [closed EXCEPT !.pending = wanted]
            ELSE closed
    BY <1>4 DEF Signalled
  <2> HIDE DEF wanted, reason, s
  <2>2. CASE reason = "none" \/ i = Len(r.bars)
    <3>1. s = a
      BY <2>1, <2>2
    <3> QED  BY <3>1 DEF s
  <2>3. CASE ~(reason = "none" \/ i = Len(r.bars))
    <3>1. i + 1 \in 1..Len(r.bars) /\ i + 1 \in Int
      BY <2>3, RunFacts
    <3>2. r.bars[i + 1].open \in Int
      BY <3>1, RunFacts
    <3>3. reason \in Reasons
      BY <1>2, <2>3 DEF Reasons
    <3>4. closed \in Account /\ closed.position = NoPosition
      BY <1>4, <3>1, <3>2, <3>3, ClosedFacts
    <3> HIDE DEF closed
    <3>5. s = IF reason = "opposite_signal" THEN [closed EXCEPT !.pending = wanted] ELSE closed
      BY <2>1, <2>3
    <3>6. s \in Account /\ s.position = NoPosition
      BY <1>1, <3>4, <3>5 DEF Account
    <3> QED  BY <3>6 DEF s
  <2> QED  BY <2>2, <2>3
<1> QED  BY <1>3, <1>4

LEMMA MarkedFacts ==
  ASSUME NEW r, IsRun(r), NEW i \in 1..Len(r.bars), NEW a \in Account
  PROVE  Marked(r, a, i) \in Account /\ Marked(r, a, i).position = a.position
<1> DEFINE p == a.position
           gain == (r.bars[i].close - p.entry) * p.quantity
           open == IF p = NoPosition THEN 0 ELSE Signed(p.side, gain)
           value == a.equity + open
<1>1. open \in Int
  <2>1. CASE p = NoPosition
    BY <2>1
  <2>2. CASE p # NoPosition
    <3>1. p \in PositionRow
      BY <2>2, AccountFacts
    <3>2. p.entry \in Int /\ p.quantity \in Int /\ r.bars[i].close \in Int
      BY <3>1, RowFacts, RunFacts
    <3>3. r.bars[i].close - p.entry \in Int
      BY <3>2
    <3>4. gain \in Int
      BY <3>2, <3>3, TimesType
    <3> HIDE DEF gain, p
    <3>5. Signed(p.side, gain) \in Int
      BY <3>4, SignedType
    <3> QED  BY <2>2, <3>5
  <2> QED  BY <2>1, <2>2
<1> HIDE DEF open
<1>2. value \in Int
  BY <1>1, AccountFacts
<1>3. Marked(r, a, i) = [a EXCEPT !.path = Append(@, value)]
  BY DEF Marked, open
<1> HIDE DEF value
<1>4. Append(a.path, value) \in Seq(Int)
  BY <1>2, AccountFacts
<1> QED  BY <1>3, <1>4 DEF Account

LEMMA BarFacts ==
  ASSUME NEW r, IsRun(r), NEW i \in 1..Len(r.bars), NEW a \in Account
  PROVE  LET b == BarDone(r, a, i)
         IN  /\ b \in Account
             /\ b.position # NoPosition =>
                  /\ Apart(b.position)
                  /\ a.position # NoPosition => /\ b.position.side = a.position.side
                                                /\ NotLooser(a.position, b.position)
<1> DEFINE o == Opened(r, a, i)
           m == Managed(r, o, i)
           s == Signalled(r, m, i)
           b == Marked(r, s, i)
<1>1. o \in Account /\ (a.position # NoPosition => o = a)
  BY OpenedFacts
<1> HIDE DEF o
<1>2. /\ m \in Account
      /\ m.position # NoPosition =>
           /\ o.position # NoPosition
           /\ m.position.side = o.position.side
           /\ NotLooser(o.position, m.position)
           /\ Apart(m.position)
  BY <1>1, ManagedFacts
<1> HIDE DEF m
<1>3. s \in Account /\ (s.position # NoPosition => s.position = m.position)
  BY <1>2, SignalledFacts
<1> HIDE DEF s
<1>4. b \in Account /\ b.position = s.position
  BY <1>3, MarkedFacts
<1>5. BarDone(r, a, i) = b
  BY DEF BarDone, o, m, s
<1> HIDE DEF b
<1> QED  BY <1>1, <1>2, <1>3, <1>4, <1>5

LEMMA EndFacts ==
  ASSUME NEW r, IsRun(r), NEW a \in Account, a.position # NoPosition => Len(r.bars) # 0
  PROVE  ClosedAtEnd(r, a) \in Account /\ ClosedAtEnd(r, a).position = NoPosition
<1> DEFINE n == Len(r.bars)
           closed == Closed(r, a, n, r.bars[n].close, "end_of_data")
<1>1. CASE a.position = NoPosition
  BY <1>1 DEF ClosedAtEnd
<1>2. CASE a.position # NoPosition
  <2>1. n \in 1..Len(r.bars) /\ n \in Int
    <3>1. r.bars \in Seq(Candle)
      BY DEF IsRun
    <3>2. Len(r.bars) \in Nat /\ Len(r.bars) # 0
      BY <1>2, <3>1
    <3> QED  BY <3>2
  <2>2. r.bars[n].close \in Int
    BY <2>1, RunFacts
  <2>3. closed \in Account /\ closed.position = NoPosition
    BY <1>2, <2>1, <2>2, ClosedFacts DEF Reasons
  <2>4. ClosedAtEnd(r, a) = [closed EXCEPT !.path[n] = closed.equity]
    BY <1>2 DEF ClosedAtEnd
  <2> HIDE DEF closed, n
  <2> DEFINE path == [closed.path EXCEPT ![n] = closed.equity]
  <2>5. closed.path \in Seq(Int) /\ closed.equity \in Int
    BY <2>3, AccountFacts
  <2>6. path \in Seq(Int)
    <3>1. Len(closed.path) \in Nat /\ closed.path \in [1..Len(closed.path) -> Int]
      BY <2>5
    <3>2. path \in [1..Len(closed.path) -> Int]
      BY <2>5, <3>1
    <3> QED  BY <3>1, <3>2
  <2>7. ClosedAtEnd(r, a) = [closed EXCEPT !.path = path]
    BY <2>4
  <2> HIDE DEF path
  <2> QED  BY <2>3, <2>6, <2>7 DEF Account
<1> QED  BY <1>1, <1>2

-----------------------------------------------------------------------------
(* The bar loop: the exit of a bar against the paths through it.           *)

IsRange(range) == range.low \in Int /\ range.high \in Int /\ range.low <= range.high

LEMMA PathLegs ==
  ASSUME NEW bar, bar.open \in Int, bar.high \in Int, bar.low \in Int, bar.close \in Int,
         bar.low <= bar.open, bar.open <= bar.high, bar.low <= bar.close, bar.close <= bar.high,
         NEW path \in Paths(bar)
  PROVE  /\ \A k \in 1..3 : /\ IsRange(Legs(path)[k])
                            /\ bar.low <= Legs(path)[k].low /\ Legs(path)[k].high <= bar.high
         /\ Legs(path)[1].low <= bar.open /\ bar.open <= Legs(path)[1].high
<1>1. /\ Len(path) = 4 /\ path[1] = bar.open
      /\ (path[2] = bar.low /\ path[3] = bar.high) \/ (path[2] = bar.high /\ path[3] = bar.low)
      /\ path[4] = bar.close
  <2>1. path = <<bar.open, bar.low, bar.high, bar.close>> \/ path = <<bar.open, bar.high, bar.low, bar.close>>
    BY DEF Paths
  <2>2. CASE path = <<bar.open, bar.low, bar.high, bar.close>>
    BY <2>2
  <2>3. CASE path = <<bar.open, bar.high, bar.low, bar.close>>
    BY <2>3
  <2> QED  BY <2>1, <2>2, <2>3
<1>2. \A k \in 1..4 : path[k] \in Int /\ bar.low <= path[k] /\ path[k] <= bar.high
  <2> SUFFICES ASSUME NEW k \in 1..4 PROVE path[k] \in Int /\ bar.low <= path[k] /\ path[k] <= bar.high
    OBVIOUS
  <2>1. k = 1 \/ k = 2 \/ k = 3 \/ k = 4
    OBVIOUS
  <2>2. bar.low <= bar.high
    OBVIOUS
  <2> QED  BY <1>1, <2>1, <2>2
<1>3. \A k \in 1..3 : Legs(path)[k] = [high |-> Max({path[k], path[k + 1]}), low |-> Min({path[k], path[k + 1]})]
  BY <1>1 DEF Legs
<1>4. ASSUME NEW k \in 1..3
      PROVE  /\ IsRange(Legs(path)[k])
             /\ bar.low <= Legs(path)[k].low /\ Legs(path)[k].high <= bar.high
             /\ Legs(path)[k].low <= path[k] /\ path[k] <= Legs(path)[k].high
  <2> DEFINE leg == Legs(path)[k]
             x == path[k]
             y == path[k + 1]
  <2>1. k \in 1..4 /\ k + 1 \in 1..4
    OBVIOUS
  <2>2. x \in Int /\ bar.low <= x /\ x <= bar.high /\ y \in Int /\ bar.low <= y /\ y <= bar.high
    BY <1>2, <2>1
  <2>3. leg.high = Max({x, y}) /\ leg.low = Min({x, y})
    BY <1>3
  <2> HIDE DEF leg, x, y
  <2>4. leg.high = (IF x >= y THEN x ELSE y) /\ leg.low = (IF x <= y THEN x ELSE y)
    BY <2>2, <2>3, MoreOf, LessOf
  <2>5. /\ leg.low \in Int /\ leg.high \in Int /\ leg.low <= leg.high
        /\ bar.low <= leg.low /\ leg.high <= bar.high /\ leg.low <= x /\ x <= leg.high
    BY <2>2, <2>4
  <2> QED  BY <2>5 DEF IsRange, leg, x
<1> QED  BY <1>1, <1>4

LEMMA PriceOf ==
  ASSUME NEW p, NEW range, Hits(p, range)
  PROVE  ExitIn(p, range).price = IF LiquidationHit(p, range) THEN p.liquidation
                                  ELSE IF StopHit(p, range) THEN p.stop ELSE p.take
  BY DEF ExitIn, Hits

LEMMA WiderHits ==
  ASSUME NEW p \in PositionRow, NEW leg, NEW bar, IsRange(leg), IsRange(bar),
         bar.low <= leg.low, leg.high <= bar.high
  PROVE  /\ LiquidationHit(p, leg) => LiquidationHit(p, bar)
         /\ StopHit(p, leg) => StopHit(p, bar)
         /\ TakeHit(p, leg) => TakeHit(p, bar)
<1>1. p.liquidation \in Int /\ Inf \in Int
  BY RowFacts, NumbersAssumption
<1>2. (Known(p.stop) => p.stop \in Int) /\ (Known(p.take) => p.take \in Int)
  BY RowFacts DEF Known, Given
<1>3. leg.low \in Int /\ leg.high \in Int /\ bar.low \in Int /\ bar.high \in Int
  BY DEF IsRange
<1> QED  BY <1>1, <1>2, <1>3 DEF LiquidationHit, StopHit, TakeHit, Above, Below

LEMMA WorstFirst ==
  ASSUME NEW p \in PositionRow, NEW bar, bar.open \in Int, bar.high \in Int, bar.low \in Int,
         bar.close \in Int, bar.low <= bar.open, bar.open <= bar.high,
         bar.low <= bar.close, bar.close <= bar.high,
         Apart(p) \/ FreshAt(p, bar.open),
         NEW path \in Paths(bar), Walked(p, Legs(path), 1..3) # NoExit
  PROVE  /\ ExitIn(p, bar) # NoExit
         /\ Signed(p.side, ExitIn(p, bar).price) <= Signed(p.side, Walked(p, Legs(path), 1..3).price)
<1> DEFINE real == Walked(p, Legs(path), 1..3)
           coarse == ExitIn(p, bar)
           legs == Legs(path)
<1>1. PICK k \in 1..3 : /\ real = ExitIn(p, legs[k]) /\ Hits(p, legs[k])
                        /\ \A j \in 1..3 : Hits(p, legs[j]) => k <= j
  <2>1. 1..3 \in SUBSET Nat
    OBVIOUS
  <2> QED  BY <2>1, WalkedFacts
<1>2. /\ IsRange(legs[k]) /\ bar.low <= legs[k].low /\ legs[k].high <= bar.high
      /\ IsRange(legs[1]) /\ legs[1].low <= bar.open /\ bar.open <= legs[1].high
  BY PathLegs
<1>3. IsRange(bar)
  BY DEF IsRange
<1>4. /\ LiquidationHit(p, legs[k]) => LiquidationHit(p, bar)
      /\ StopHit(p, legs[k]) => StopHit(p, bar)
      /\ TakeHit(p, legs[k]) => TakeHit(p, bar)
  BY <1>2, <1>3, WiderHits
<1>5. Hits(p, bar) /\ coarse # NoExit
  BY <1>1, <1>4, ExitFacts DEF Hits
<1> HIDE DEF real, coarse, legs
<1>6. coarse.price = IF LiquidationHit(p, bar) THEN p.liquidation
                     ELSE IF StopHit(p, bar) THEN p.stop ELSE p.take
  BY <1>5, PriceOf DEF coarse
<1>7. real.price = IF LiquidationHit(p, legs[k]) THEN p.liquidation
                   ELSE IF StopHit(p, legs[k]) THEN p.stop ELSE p.take
  BY <1>1, PriceOf
<1>8. p.liquidation \in Int /\ p.entry \in Int /\ p.side \in Sides /\ Inf \in Int
  BY RowFacts, NumbersAssumption
<1>9. (Known(p.stop) => p.stop \in Int) /\ (Known(p.take) => p.take \in Int)
  BY RowFacts DEF Known, Given
<1>10. StopHit(p, bar) => Known(p.stop)
  BY DEF StopHit, Above, Below
<1>11. TakeHit(p, bar) => Known(p.take)
  BY DEF TakeHit, Above, Below
<1>12. LiquidationHit(p, bar) => Exposed(p)
  BY DEF LiquidationHit, Exposed
<1>13. /\ legs[k].low \in Int /\ legs[k].high \in Int /\ legs[1].low \in Int /\ legs[1].high \in Int
  BY <1>2 DEF IsRange
<1> DEFINE v(x) == Signed(p.side, x)
<1>14. \A x \in Int : v(x) \in Int
  BY SignedType
<1>15. CASE LiquidationHit(p, legs[k])
  <2>1. coarse.price = real.price /\ real.price \in Int
    BY <1>4, <1>6, <1>7, <1>8, <1>15
  <2> QED  BY <1>5, <1>14, <2>1 DEF coarse, real
<1>16. CASE ~LiquidationHit(p, legs[k]) /\ StopHit(p, legs[k])
  <2>1. real.price = p.stop /\ StopHit(p, bar) /\ p.stop \in Int
    BY <1>4, <1>7, <1>9, <1>10, <1>16
  <2>2. CASE LiquidationHit(p, bar)
    <3>1. coarse.price = p.liquidation
      BY <1>6, <2>2
    <3>2. v(p.liquidation) <= v(p.stop)
      BY <1>8, <1>12, <1>13, <1>16, <2>1, <2>2 DEF LiquidationHit, StopHit, Exposed, Above, Below, Signed
    <3> QED  BY <1>5, <2>1, <3>1, <3>2 DEF coarse, real
  <2>3. CASE ~LiquidationHit(p, bar)
    <3>1. coarse.price = p.stop
      BY <1>6, <2>1, <2>3
    <3> QED  BY <1>5, <1>14, <2>1, <3>1 DEF coarse, real
  <2> QED  BY <2>2, <2>3
<1>17. CASE ~LiquidationHit(p, legs[k]) /\ ~StopHit(p, legs[k])
  <2>0. TakeHit(p, legs[k])
    BY <1>1, <1>17 DEF Hits
  <2>1. real.price = p.take /\ Known(p.take) /\ p.take \in Int
    BY <1>4, <1>7, <1>9, <1>11, <1>17, <2>0
  <2>2. CASE LiquidationHit(p, bar)
    <3>1. coarse.price = p.liquidation /\ Exposed(p)
      BY <1>6, <1>12, <2>2
    <3>2. CASE Apart(p)
      <4>1. v(p.liquidation) < v(p.take)
        BY <2>1, <3>1, <3>2 DEF Apart
      <4>2. v(p.liquidation) <= v(p.take)
        BY <1>8, <1>14, <2>1, <4>1
      <4> QED  BY <1>5, <2>1, <3>1, <4>2 DEF coarse, real
    <3>3. CASE FreshAt(p, bar.open)
      <4>1. v(bar.open) <= v(p.entry) /\ v(p.entry) <= v(p.take)
        BY <2>1, <3>3 DEF FreshAt
      <4>2. v(bar.open) <= v(p.take)
        BY <1>8, <1>14, <2>1, <4>1
      <4>3. v(bar.open) < v(p.liquidation) => LiquidationHit(p, legs[1])
        BY <1>2, <1>8, <1>13, <3>1 DEF LiquidationHit, Exposed, Signed
      <4>4. ~LiquidationHit(p, legs[1])
        <5>1. LiquidationHit(p, legs[1]) => Hits(p, legs[1])
          BY DEF Hits
        <5>2. LiquidationHit(p, legs[1]) => k = 1
          BY <1>1, <5>1
        <5> QED  BY <1>17, <5>2
      <4>5. v(p.liquidation) <= v(p.take)
        BY <1>8, <1>14, <2>1, <4>2, <4>3, <4>4
      <4> QED  BY <1>5, <2>1, <3>1, <4>5 DEF coarse, real
    <3> QED  BY <3>2, <3>3
  <2>3. CASE ~LiquidationHit(p, bar) /\ StopHit(p, bar)
    <3>1. coarse.price = p.stop /\ Known(p.stop) /\ p.stop \in Int
      BY <1>6, <1>9, <1>10, <2>3
    <3>2. v(p.stop) <= v(p.take)
      <4>1. CASE Apart(p)
        <5>1. v(p.stop) < v(p.take)
          BY <2>1, <3>1, <4>1 DEF Apart
        <5> QED  BY <1>14, <2>1, <3>1, <5>1
      <4>2. CASE FreshAt(p, bar.open)
        <5>1. v(p.stop) <= v(p.entry) /\ v(p.entry) <= v(p.take)
          BY <2>1, <3>1, <4>2 DEF FreshAt
        <5> QED  BY <1>8, <1>14, <2>1, <3>1, <5>1
      <4> QED  BY <4>1, <4>2
    <3> QED  BY <1>5, <2>1, <3>1, <3>2 DEF coarse, real
  <2>4. CASE ~LiquidationHit(p, bar) /\ ~StopHit(p, bar)
    <3>1. coarse.price = p.take
      BY <1>6, <2>4
    <3> QED  BY <1>5, <1>14, <2>1, <3>1 DEF coarse, real
  <2> QED  BY <2>2, <2>3, <2>4
<1> QED  BY <1>15, <1>16, <1>17

-----------------------------------------------------------------------------
(* The bar loop: the inductive invariant.                                  *)

(* A position that is open between two bars has survived the last one.     *)
LoopInv ==
  /\ IsRun(run) /\ cut = Shortened(run)
  /\ done \in 0..(Len(run.bars) + 1)
  /\ account \in Account
  /\ account.position # NoPosition => done > 0 /\ Apart(account.position)

LEMMA LoopStart == LoopInit => LoopInv
<1> SUFFICES ASSUME LoopInit PROVE LoopInv
  OBVIOUS
<1>1. IsRun(run) /\ cut = Shortened(run) /\ done = 0 /\ account = StartingAccount
  BY DEF LoopInit
<1>2. Len(run.bars) \in Nat
  <2>1. run.bars \in Seq(Candle)
    BY <1>1 DEF IsRun
  <2> QED  BY <2>1
<1>3. account \in Account /\ account.position = NoPosition
  <2>1. InitialCapital \in Int
    BY BacktestAssumption
  <2>2. <<>> \in Seq(TradeRow) /\ <<>> \in Seq(Int)
    OBVIOUS
  <2> QED  BY <1>1, <2>1, <2>2 DEF StartingAccount, Account
<1> QED  BY <1>1, <1>2, <1>3 DEF LoopInv

LEMMA LoopStep == LoopInv /\ [LoopNext]_backtestVars => LoopInv'
<1> SUFFICES ASSUME LoopInv, [LoopNext]_backtestVars PROVE LoopInv'
  OBVIOUS
<1>1. /\ IsRun(run) /\ cut = Shortened(run) /\ done \in 0..(Len(run.bars) + 1) /\ account \in Account
      /\ account.position # NoPosition => done > 0 /\ Apart(account.position)
  BY DEF LoopInv
<1>2. Len(run.bars) \in Nat
  <2>1. run.bars \in Seq(Candle)
    BY <1>1 DEF IsRun
  <2> QED  BY <2>1
<1>3. CASE NextBar
  <2>1. /\ done < Len(run.bars) /\ done' = done + 1 /\ account' = BarDone(run, account, done + 1)
        /\ run' = run /\ cut' = cut
    BY <1>3 DEF NextBar
  <2>2. done + 1 \in 1..Len(run.bars)
    BY <1>1, <1>2, <2>1
  <2>3. account' \in Account /\ (account'.position # NoPosition => Apart(account'.position))
    BY <1>1, <2>1, <2>2, BarFacts
  <2>4. done' \in 0..(Len(run.bars) + 1) /\ done' > 0
    BY <2>1, <2>2, <1>2
  <2> QED  BY <1>1, <2>1, <2>3, <2>4 DEF LoopInv
<1>4. CASE EndOfData
  <2>1. /\ done = Len(run.bars) /\ done' = done + 1 /\ account' = ClosedAtEnd(run, account)
        /\ run' = run /\ cut' = cut
    BY <1>4 DEF EndOfData
  <2>2. account.position # NoPosition => Len(run.bars) # 0
    BY <1>1, <2>1
  <2>3. account' \in Account /\ account'.position = NoPosition
    BY <1>1, <2>1, <2>2, EndFacts
  <2>4. done' \in 0..(Len(run.bars) + 1)
    BY <2>1, <1>2
  <2> QED  BY <1>1, <2>1, <2>3, <2>4 DEF LoopInv
<1>5. CASE UNCHANGED backtestVars
  BY <1>1, <1>5 DEF LoopInv, backtestVars
<1> QED  BY <1>3, <1>4, <1>5 DEF LoopNext

LEMMA LoopAlways == LoopSpec => []LoopInv
  BY LoopStart, LoopStep, PTL DEF LoopSpec

(* Without 1m bars the exit of a bar is no better than on either path the  *)
(* price may have taken through it, as _resolve_intrabar promises.         *)
THEOREM CoarseAlwaysWorst == LoopSpec => []CoarseIsWorst
<1>1. LoopInv => CoarseIsWorst
  <2> SUFFICES ASSUME LoopInv PROVE CoarseIsWorst
    OBVIOUS
  <2> DEFINE i == done + 1
             o == Opened(run, account, i)
             p == o.position
             moved == UpdatedPosition(run, p, i)
             bar == run.bars[i]
             coarse == ExitIn(moved, bar)
  <2> SUFFICES ASSUME i <= Len(run.bars), p # NoPosition, moved.stop = p.stop,
                      NEW path \in Paths(bar), Walked(p, Legs(path), 1..3) # NoExit
               PROVE  /\ coarse # NoExit
                      /\ Signed(p.side, coarse.price) <= Signed(p.side, Walked(p, Legs(path), 1..3).price)
    BY DEF CoarseIsWorst
  <2>1. /\ IsRun(run) /\ done \in 0..(Len(run.bars) + 1) /\ account \in Account
        /\ account.position # NoPosition => Apart(account.position)
    BY DEF LoopInv
  <2>2. Len(run.bars) \in Nat
    <3>1. run.bars \in Seq(Candle)
      BY <2>1 DEF IsRun
    <3> QED  BY <3>1
  <2>3. i \in 1..Len(run.bars)
    BY <2>1, <2>2
  <2> HIDE DEF i
  <2>4. o \in Account /\ (o = account \/ FreshAt(p, bar.open))
    BY <2>1, <2>3, OpenedFacts
  <2>5. p \in PositionRow /\ (Apart(p) \/ FreshAt(p, bar.open))
    <3> HIDE DEF o
    <3> QED  BY <2>1, <2>4, AccountFacts
  <2>6. moved \in PositionRow /\ SameTrade(p, moved)
    <3> HIDE DEF p
    <3> QED  BY <2>1, <2>3, <2>5, UpdatedFacts
  <2>7. /\ bar.open \in Int /\ bar.high \in Int /\ bar.low \in Int /\ bar.close \in Int
        /\ bar.low <= bar.open /\ bar.open <= bar.high /\ bar.low <= bar.close /\ bar.close <= bar.high
    BY <2>1, <2>3, RunFacts
  <2> HIDE DEF p, bar, moved
  <2>8. coarse = ExitIn(p, bar)
    BY <2>6 DEF SameTrade, ExitIn, LiquidationHit, StopHit, TakeHit
  <2> HIDE DEF coarse
  <2> QED  BY <2>5, <2>7, <2>8, WorstFirst
<1> QED  BY <1>1, LoopAlways, PTL

(* A stop moves only in the trade's favour, but for the step that arms     *)
(* break-even (the comment of _update_position).                           *)
THEOREM StopsNeverLoosen == LoopSpec => StopNeverLoosens
<1> DEFINE Moves == LET p == account.position
                        q == account'.position
                    IN  p # NoPosition /\ q # NoPosition /\ Known(p.stop) =>
                          \/ q.entryAt # p.entryAt
                          \/ Known(q.stop) /\ Signed(p.side, q.stop) >= Signed(p.side, p.stop)
                          \/ q.armed /\ ~p.armed
<1>1. LoopInv /\ [LoopNext]_backtestVars => [Moves]_account
  <2> SUFFICES ASSUME LoopInv, [LoopNext]_backtestVars PROVE [Moves]_account
    OBVIOUS
  <2>1. /\ IsRun(run) /\ done \in 0..(Len(run.bars) + 1) /\ account \in Account
        /\ account.position # NoPosition => done > 0
    BY DEF LoopInv
  <2>2. Len(run.bars) \in Nat
    <3>1. run.bars \in Seq(Candle)
      BY <2>1 DEF IsRun
    <3> QED  BY <3>1
  <2>3. CASE NextBar
    <3>1. done < Len(run.bars) /\ account' = BarDone(run, account, done + 1)
      BY <2>3 DEF NextBar
    <3>2. done + 1 \in 1..Len(run.bars)
      BY <2>1, <2>2, <3>1
    <3>3. account'.position # NoPosition /\ account.position # NoPosition
            => NotLooser(account.position, account'.position)
      BY <2>1, <3>1, <3>2, BarFacts
    <3> QED  BY <3>3 DEF NotLooser
  <2>4. CASE EndOfData
    <3>1. done = Len(run.bars) /\ account' = ClosedAtEnd(run, account)
      BY <2>4 DEF EndOfData
    <3>2. account'.position = NoPosition
      BY <2>1, <3>1, EndFacts
    <3> QED  BY <3>2
  <2>5. CASE UNCHANGED backtestVars
    BY <2>5 DEF backtestVars
  <2> QED  BY <2>3, <2>4, <2>5 DEF LoopNext
<1>2. LoopSpec => [][Moves]_account
  BY <1>1, LoopAlways, PTL DEF LoopSpec
<1> QED  BY <1>2 DEF StopNeverLoosens

-----------------------------------------------------------------------------
(* The bar loop: what a bar knows.                                         *)

LEMMA FrontFacts ==
  ASSUME NEW S, NEW s \in Seq(S), Len(s) > 0
  PROVE  Len(Front(s)) = Len(s) - 1 /\ \A i \in 1..(Len(s) - 1) : Front(s)[i] = s[i]
<1> DEFINE n == Len(s) - 1
<1>1. n \in Nat /\ s \in [1..Len(s) -> S] /\ Len(s) = n + 1
  OBVIOUS
<1>2. Front(s) = SubSeq(s, 1, n)
  BY DEF Front
<1> HIDE DEF n
<1>3. SubSeq(s, 1, n) = [i \in 1..n |-> s[i]]
  BY <1>1
<1>4. \A i \in 1..n : s[i] \in S
  BY <1>1
<1>5. [i \in 1..n |-> s[i]] \in Seq(S) /\ Len([i \in 1..n |-> s[i]]) = n
  BY <1>1, <1>4
<1>6. Len(Front(s)) = n /\ \A i \in 1..n : Front(s)[i] = s[i]
  BY <1>2, <1>3, <1>5
<1> QED  BY <1>6 DEF n

LEMMA CutFacts ==
  ASSUME NEW r, IsRun(r), NEW c, c = Shortened(r), NEW i \in 1..Len(c.bars)
  PROVE  /\ i \in 1..Len(r.bars) /\ Len(c.bars) = Len(r.bars) - 1 /\ Len(r.bars) \in Nat
         /\ c.strategy = r.strategy /\ c.fine = r.fine
         /\ \A j \in 1..i : /\ c.bars[j] = r.bars[j] /\ c.longs[j] = r.longs[j]
                            /\ c.shorts[j] = r.shorts[j] /\ c.atr[j] = r.atr[j]
         /\ i < Len(c.bars) => c.bars[i + 1] = r.bars[i + 1]
<1>1. /\ c.bars = Front(r.bars) /\ c.longs = Front(r.longs) /\ c.shorts = Front(r.shorts)
      /\ c.atr = Front(r.atr) /\ c.strategy = r.strategy /\ c.fine = r.fine
  BY DEF Shortened
<1>2. r.bars \in Seq(Candle)
  BY DEF IsRun
<1> DEFINE n == Len(r.bars)
<1>3. n \in Nat /\ DOMAIN r.bars = 1..n
  BY <1>2
<1>4. r.longs \in [1..n -> BOOLEAN] /\ r.shorts \in [1..n -> BOOLEAN] /\ r.atr \in [1..n -> Given(Nat)]
  BY <1>3 DEF IsRun
<1>5. /\ r.longs \in Seq(BOOLEAN) /\ Len(r.longs) = n
      /\ r.shorts \in Seq(BOOLEAN) /\ Len(r.shorts) = n
      /\ r.atr \in Seq(Given(Nat)) /\ Len(r.atr) = n
  <2> DEFINE G == Given(Nat)
  <2> HIDE DEF n, G
  <2> QED  BY <1>3, <1>4 DEF G
<1>6. n > 0
  <2>1. CASE n = 0
    <3>1. c.bars = SubSeq(r.bars, 1, -1)
      BY <1>1, <2>1 DEF Front
    <3>2. Len(c.bars) = 0
      BY <1>2, <3>1
    <3> QED  BY <3>2
  <2> QED  BY <1>3, <2>1
<1>7. /\ Len(c.bars) = n - 1
      /\ \A j \in 1..(n - 1) : /\ c.bars[j] = r.bars[j] /\ c.longs[j] = r.longs[j]
                               /\ c.shorts[j] = r.shorts[j] /\ c.atr[j] = r.atr[j]
  <2>1. Len(c.bars) = n - 1 /\ \A j \in 1..(n - 1) : c.bars[j] = r.bars[j]
    BY <1>1, <1>2, <1>6, FrontFacts
  <2>2. \A j \in 1..(n - 1) : c.longs[j] = r.longs[j]
    BY <1>1, <1>5, <1>6, FrontFacts
  <2>3. \A j \in 1..(n - 1) : c.shorts[j] = r.shorts[j]
    BY <1>1, <1>5, <1>6, FrontFacts
  <2>4. \A j \in 1..(n - 1) : c.atr[j] = r.atr[j]
    BY <1>1, <1>5, <1>6, FrontFacts
  <2> HIDE DEF n
  <2> QED  BY <2>1, <2>2, <2>3, <2>4
<1> HIDE DEF n
<1>8. i \in 1..(n - 1)
  BY <1>7
<1>9. \A j \in 1..i : j \in 1..(n - 1)
  BY <1>3, <1>8
<1>10. i < Len(c.bars) => i + 1 \in 1..(n - 1)
  BY <1>3, <1>7, <1>8
<1>11. i \in 1..n
  BY <1>3, <1>8
<1> QED  BY <1>1, <1>3, <1>7, <1>9, <1>10, <1>11 DEF n

LEMMA SameOpening ==
  ASSUME NEW r, IsRun(r), NEW c, c = Shortened(r), NEW i \in 1..Len(c.bars), NEW a
  PROVE  Opened(c, a, i) = Opened(r, a, i)
<1>1. /\ c.strategy = r.strategy /\ c.bars[i] = r.bars[i] /\ (i # 1 => c.atr[i - 1] = r.atr[i - 1])
  <2>1. /\ c.strategy = r.strategy /\ \A j \in 1..i : c.bars[j] = r.bars[j] /\ c.atr[j] = r.atr[j]
        /\ i \in 1..Len(r.bars) /\ Len(r.bars) \in Nat
    BY CutFacts
  <2>2. i \in 1..i /\ (i # 1 => i - 1 \in 1..i)
    BY <2>1
  <2> QED  BY <2>1, <2>2
<1>2. (IF i = 1 THEN NaN ELSE c.atr[i - 1]) = (IF i = 1 THEN NaN ELSE r.atr[i - 1])
  BY <1>1
<1>3. Position(c, a.pending, i, a.equity) = Position(r, a.pending, i, a.equity)
  <2>1. CASE i = 1
    BY <1>1, <2>1 DEF Position
  <2>2. CASE i # 1
    <3>1. c.bars[i] = r.bars[i] /\ c.strategy = r.strategy
      BY <1>1
    <3>2. c.atr[i - 1] = r.atr[i - 1]
      BY <1>1, <2>2
    <3> QED  BY <2>2, <3>1, <3>2, SMTT(30) DEF Position
  <2> QED  BY <2>1, <2>2
<1> QED  BY <1>3 DEF Opened

LEMMA SameBar ==
  ASSUME NEW r, IsRun(r), NEW c, c = Shortened(r), NEW i \in 1..Len(c.bars), i < Len(c.bars), NEW a
  PROVE  BarDone(c, a, i) = BarDone(r, a, i)
<1>1. /\ c.strategy = r.strategy /\ c.fine = r.fine /\ c.bars[i] = r.bars[i] /\ c.longs[i] = r.longs[i]
      /\ c.shorts[i] = r.shorts[i] /\ c.atr[i] = r.atr[i] /\ c.bars[i + 1] = r.bars[i + 1]
      /\ i < Len(r.bars) /\ i # Len(r.bars) /\ i # Len(c.bars)
  <2>1. /\ c.strategy = r.strategy /\ c.fine = r.fine
        /\ \A j \in 1..i : /\ c.bars[j] = r.bars[j] /\ c.longs[j] = r.longs[j]
                           /\ c.shorts[j] = r.shorts[j] /\ c.atr[j] = r.atr[j]
        /\ i \in 1..Len(r.bars) /\ Len(r.bars) \in Nat /\ Len(c.bars) = Len(r.bars) - 1
        /\ c.bars[i + 1] = r.bars[i + 1]
    BY CutFacts
  <2>2. i \in 1..i
    BY <2>1
  <2>3. i < Len(r.bars) /\ i # Len(r.bars) /\ i # Len(c.bars)
    BY <2>1
  <2> QED  BY <2>1, <2>2, <2>3
<1>2. EndOf(c.bars, i) = EndOf(r.bars, i)
  BY <1>1 DEF EndOf
<1> DEFINE o == Opened(r, a, i)
           m == Managed(r, o, i)
           s == Signalled(r, m, i)
<1>3. Opened(c, a, i) = o
  BY SameOpening
<1>4. \A x, y, j, price, reason : Closed(c, x, j, price, reason) = Closed(r, x, j, price, reason)
  BY <1>1 DEF Closed
<1>5. \A p : UpdatedPosition(c, p, i) = UpdatedPosition(r, p, i)
  BY <1>1 DEF UpdatedPosition
<1>6. \A p : Resolved(c, p, i) = Resolved(r, p, i)
  BY <1>1, <1>2 DEF Resolved
<1>7. \A p : Funded(c, p, i) = Funded(r, p, i)
  BY <1>1, <1>2 DEF Funded
<1>8. Managed(c, o, i) = m
  BY <1>1, <1>4, <1>5, <1>6, <1>7 DEF Managed
<1>9. \A p : SignalExit(c, p, i) = SignalExit(r, p, i)
  BY <1>1 DEF SignalExit
<1>10. Wanted(c, i) = Wanted(r, i)
  BY <1>1 DEF Wanted
<1>11. Signalled(c, m, i) = s
  BY <1>1, <1>4, <1>9, <1>10 DEF Signalled
<1>12. Marked(c, s, i) = Marked(r, s, i)
  BY <1>1 DEF Marked
<1> QED  BY <1>3, <1>8, <1>11, <1>12 DEF BarDone

PastInv == LoopInv /\ (done < Len(cut.bars) => shorter = account)

LEMMA CutLength ==
  ASSUME NEW r, IsRun(r)
  PROVE  Len(Shortened(r).bars) \in Nat
<1>1. r.bars \in Seq(Candle) /\ Shortened(r).bars = SubSeq(r.bars, 1, Len(r.bars) - 1)
  BY DEF IsRun, Shortened, Front
<1>2. SubSeq(r.bars, 1, Len(r.bars) - 1) \in Seq(Candle)
  <2> DEFINE s == r.bars
  <2>1. s \in Seq(Candle)
    BY <1>1
  <2> HIDE DEF s, Candle
  <2>2. SubSeq(s, 1, Len(s) - 1) \in Seq(Candle)
    <3>1. Len(s) \in Nat /\ \A j \in 1..Len(s) : s[j] \in Candle
      BY <2>1
    <3>2. SubSeq(s, 1, Len(s) - 1) = [j \in 1..(Len(s) - 1) |-> s[j]]
      BY <2>1, <3>1
    <3>3. \A j \in 1..(Len(s) - 1) : s[j] \in Candle
      BY <3>1
    <3>4. CASE Len(s) = 0
      <4>1. SubSeq(s, 1, Len(s) - 1) = <<>>
        BY <2>1, <3>4
      <4> QED  BY <4>1
    <3>5. CASE Len(s) # 0
      <4>1. Len(s) - 1 \in Nat
        BY <3>1, <3>5
      <4> QED  BY <3>2, <3>3, <4>1
    <3> QED  BY <3>4, <3>5
  <2> QED  BY <2>2 DEF s
<1> QED  BY <1>1, <1>2

(* The bar loop has no lookahead: until the next bar is the last one, at   *)
(* whose open an exit fills, the account is the one of a history without   *)
(* that bar, and the same position opens (run_backtest reads no later bar  *)
(* than the next open).                                                    *)
THEOREM PastAlwaysFollowed == LoopSpec => []FollowsThePast
<1>1. LoopInit => PastInv
  <2>1. LoopInit => shorter = account
    BY DEF LoopInit
  <2> QED  BY <2>1, LoopStart DEF PastInv
<1>2. PastInv /\ [LoopNext]_backtestVars => PastInv'
  <2> SUFFICES ASSUME PastInv, [LoopNext]_backtestVars PROVE PastInv'
    OBVIOUS
  <2>1. LoopInv' /\ LoopInv
    BY LoopStep DEF PastInv
  <2>2. /\ IsRun(run) /\ cut = Shortened(run) /\ done \in 0..(Len(run.bars) + 1)
        /\ done < Len(cut.bars) => shorter = account
    BY DEF PastInv, LoopInv
  <2>3. Len(cut.bars) \in Nat /\ Len(run.bars) \in Nat
    <3>1. run.bars \in Seq(Candle)
      BY <2>2 DEF IsRun
    <3> QED  BY <2>2, <3>1, CutLength
  <2>4. done' < Len(cut'.bars) => shorter' = account'
    <3>1. CASE NextBar
      <4>1. /\ done' = done + 1 /\ account' = BarDone(run, account, done + 1) /\ cut' = cut
            /\ shorter' = IF done' < Len(cut.bars) THEN BarDone(cut, shorter, done + 1) ELSE shorter
        BY <3>1 DEF NextBar
      <4> SUFFICES ASSUME done + 1 < Len(cut.bars) PROVE shorter' = account'
        BY <4>1
      <4>2. done \in Nat
        BY <2>2, <2>3
      <4>3. done + 1 \in 1..Len(cut.bars) /\ done < Len(cut.bars)
        BY <2>3, <4>2
      <4>4. shorter' = BarDone(cut, account, done + 1)
        BY <2>2, <4>1, <4>3
      <4> QED  BY <2>2, <4>1, <4>3, <4>4, SameBar
    <3>2. CASE EndOfData
      <4>1. done = Len(run.bars) /\ done' = done + 1 /\ cut' = cut
        BY <3>2 DEF EndOfData
      <4>2. ~(done' < Len(cut.bars))
        <5>1. ASSUME done' < Len(cut.bars) PROVE FALSE
          <6>1. Len(cut.bars) \in 1..Len(cut.bars)
            BY <2>3, <4>1, <5>1
          <6>2. Len(cut.bars) = Len(run.bars) - 1
            BY <2>2, <6>1, CutFacts
          <6> QED  BY <2>3, <4>1, <5>1, <6>2
        <5> QED  BY <5>1
      <4> QED  BY <4>1, <4>2
    <3>3. CASE UNCHANGED backtestVars
      BY <2>2, <3>3 DEF backtestVars
    <3> QED  BY <3>1, <3>2, <3>3 DEF LoopNext
  <2> QED  BY <2>1, <2>4 DEF PastInv
<1>3. PastInv => FollowsThePast
  <2> SUFFICES ASSUME PastInv PROVE FollowsThePast
    OBVIOUS
  <2>1. /\ IsRun(run) /\ cut = Shortened(run) /\ done \in 0..(Len(run.bars) + 1)
        /\ done < Len(cut.bars) => shorter = account
    BY DEF PastInv, LoopInv
  <2>2. Len(cut.bars) \in Nat /\ Len(run.bars) \in Nat
    <3>1. run.bars \in Seq(Candle)
      BY <2>1 DEF IsRun
    <3> QED  BY <2>1, <3>1, CutLength
  <2>3. done < Len(cut.bars) => done + 1 \in 1..Len(cut.bars)
    BY <2>1, <2>2
  <2>4. done < Len(cut.bars) =>
          Opened(cut, shorter, done + 1) = Opened(run, account, done + 1)
    BY <2>1, <2>3, SameOpening
  <2> QED  BY <2>1, <2>4 DEF FollowsThePast
<1> QED  BY <1>1, <1>2, <1>3, PTL DEF LoopSpec
=============================================================================
