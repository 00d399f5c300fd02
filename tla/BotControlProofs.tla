-------------------------- MODULE BotControlProofs --------------------------
(***************************************************************************)
(* Proofs about BotControl, for every set of bots, markets and requests:   *)
(* the inductive invariant IInv, the safety invariants it contains, and    *)
(* that the routes implement BotLifecycle.                                 *)
(***************************************************************************)
EXTENDS BotControl, TLAPS

-----------------------------------------------------------------------------
(* Rows.                                                                   *)

LEMMA NoRowType == NoRow \in Row
  BY LeveragesAssumption DEF NoRow, NewRow, Row, States, Missing, Reasons

LEMMA NewRowType ==
  ASSUME NEW leverage \in Leverages, NEW limit \in Leverages
  PROVE  NewRow("stopped", leverage, limit) \in Row
  BY DEF NewRow, Row, States, Missing, Reasons

(* An UPDATE writes a row of the table's type.                             *)
LEMMA MergedType ==
  ASSUME NEW now \in Row, NEW old \in Row, NEW new \in Row
  PROVE  Merged(now, old, new) \in Row
  BY DEF Merged, Column, Row

(* From a copy that is not outdated, an UPDATE writes just what was meant. *)
LEMMA MergedFresh ==
  ASSUME NEW now \in Row, NEW new \in Row, now.state \notin Missing
  PROVE  Merged(now, now, new) = new
  BY DEF Merged, Column, Row

-----------------------------------------------------------------------------
(* Types.                                                                  *)

LEMMA IdleType == Idle \in Request
  BY NoRowType DEF Idle, Request, Stages

LEMMA NotifiedType ==
  ASSUME TypeOK, NEW q \in Requests, NEW S \in SUBSET Bots
  PROVE  Notified(q, S) \in Request
<1>1. req[q] \in Request
  BY DEF TypeOK
<1>2. [req[q] EXCEPT !.outdated = @ \cup S, !.since = @ \cup S] \in Request
  BY <1>1 DEF Request
<1> QED  BY <1>1, <1>2 DEF Notified

LEMMA RemovedType ==
  ASSUME TypeOK, NEW S \in SUBSET Bots
  PROVE  Removed(S) \in [Bots -> Row]
  BY DEF Removed, Exists, TypeOK, Row, States, Missing

LEMMA LoadType ==
  ASSUME TypeOK, NEW p \in Requests, NEW stage \in Stages, NEW S \in SUBSET Bots,
         NEW w \in [Bots -> Row], NEW code \in BOOLEAN,
         Load(p, stage, S, w, code)
  PROVE  TypeOK'
<1>1. [stage |-> stage, on |-> S,
       loaded |-> [b \in Bots |-> IF b \in S THEN rows[b] ELSE NoRow],
       write |-> [b \in Bots |-> IF b \in S THEN w[b] ELSE NoRow],
       code |-> code, outdated |-> {}, since |-> {}] \in Request
  BY NoRowType DEF TypeOK, Request
<1>2. started' \in 0..MaxStarted
  BY MaxStartedAssumption DEF Load, TypeOK
<1> QED  BY <1>1, <1>2 DEF Load, TypeOK

LEMMA CommitType ==
  ASSUME TypeOK, NEW p \in Requests, NEW next \in [Bots -> Row],
         CommitRows(p, next), unseen' \in [Bots -> SUBSET Bots]
  PROVE  TypeOK'
<1> DEFINE changed == {b \in Bots : next[b] # rows[b]}
<1>1. req' \in [Requests -> Request]
  <2>1. \A q \in Requests : Notified(q, changed) \in Request
    BY NotifiedType
  <2> QED  BY <2>1, IdleType DEF CommitRows
<1> QED  BY <1>1 DEF CommitRows, TypeOK

LEMMA UpdateType ==
  ASSUME TypeOK, NEW p \in Requests, Update(p), unseen' \in [Bots -> SUBSET Bots]
  PROVE  TypeOK'
<1> DEFINE next == [b \in Bots |-> IF b \in req[p].on
                      THEN Merged(rows[b], req[p].loaded[b], req[p].write[b]) ELSE rows[b]]
<1>1. next \in [Bots -> Row]
  BY MergedType DEF TypeOK, Request
<1>2. CommitRows(p, next)
  BY DEF Update
<1> HIDE DEF next
<1> QED  BY <1>1, <1>2, CommitType

LEMMA RollbackType ==
  ASSUME TypeOK, NEW p \in Requests, Rollback(p)
  PROVE  TypeOK'
  BY IdleType DEF Rollback, TypeOK

(* Every handler keeps the types.                                          *)
LEMMA TypeStep ==
  ASSUME TypeOK, [Next]_vars
  PROVE  TypeOK'
<1> SUFFICES ASSUME NEW p \in Requests, Handler(p) PROVE TypeOK'
  BY DEF Next, TypeOK, vars
<1>1. CASE CreateBot(p)
  BY <1>1, NewRowType, MaxStartedAssumption DEF CreateBot, TypeOK
<1>2. CASE UpdateLoad(p)
  <2>1. PICK b \in Bots, leverage \in Leverages, limit \in Leverages, code \in BOOLEAN :
          Load(p, "update", {b}, [rows EXCEPT ![b].leverage = leverage, ![b].limit = limit], code)
    BY <1>2 DEF UpdateLoad
  <2>2. [rows EXCEPT ![b].leverage = leverage, ![b].limit = limit] \in [Bots -> Row]
    BY DEF Row, TypeOK
  <2> QED  BY <2>1, <2>2, LoadType DEF Stages
<1>3. CASE UpdateCommit(p)
  BY <1>3, UpdateType DEF UpdateCommit, TypeOK
<1>4. CASE DeleteLoad(p)
  <2>1. PICK b \in Bots : Load(p, "delete", {b}, rows, FALSE)
    BY <1>4 DEF DeleteLoad
  <2> QED  BY <2>1, LoadType DEF Stages, TypeOK
<1>5. CASE DeleteCommit(p)
  <2>1. Removed(req[p].on) \in [Bots -> Row]
    BY RemovedType DEF Request, TypeOK
  <2> QED  BY <1>5, <2>1, CommitType DEF DeleteCommit, TypeOK
<1>6. CASE DeleteStrategy(p)
  <2>1. PICK b \in Bots :
          LET next == Removed({c \in Bots : Strategy[c] = Strategy[b]})
              changed == {c \in Bots : next[c] # rows[c]} IN
          rows' = next /\ req' = [q \in Requests |-> Notified(q, changed)]
    BY <1>6 DEF DeleteStrategy
  <2>2. rows' \in [Bots -> Row]
    BY <2>1, RemovedType DEF TypeOK
  <2>3. req' \in [Requests -> Request]
    BY <2>1, NotifiedType
  <2> QED  BY <1>6, <2>2, <2>3, MaxStartedAssumption DEF DeleteStrategy, TypeOK
<1>7. CASE ArmLoad(p)
  <2>1. PICK b \in Bots :
          Load(p, "arm_venue", {b}, [rows EXCEPT ![b].state = "armed"], TRUE)
    BY <1>7 DEF ArmLoad
  <2>2. [rows EXCEPT ![b].state = "armed"] \in [Bots -> Row]
    BY DEF Row, States, TypeOK
  <2> QED  BY <2>1, <2>2, LoadType DEF Stages
<1>8. CASE ArmPreflight(p)
  <2>1. CASE Rollback(p)
    BY <2>1, RollbackType
  <2>2. CASE /\ req' = [req EXCEPT ![p].stage = "arm_commit", ![p].since = {}]
             /\ UNCHANGED <<rows, started, overwritten, unseen>>
    <3>1. req[p] \in Request
      BY DEF TypeOK
    <3>2. [req[p] EXCEPT !.stage = "arm_commit", !.since = {}] \in Request
      BY <3>1 DEF Request, Stages
    <3>3. req' = [req EXCEPT ![p] = [req[p] EXCEPT !.stage = "arm_commit", !.since = {}]]
      BY <2>2 DEF TypeOK
    <3>4. req' \in [Requests -> Request]
      BY <3>2, <3>3 DEF TypeOK
    <3> QED  BY <2>2, <3>4 DEF TypeOK
  <2> QED  BY <1>8, <2>1, <2>2 DEF ArmPreflight
<1>9. CASE ArmCommit(p)
  <2>1. unseen' \in [Bots -> SUBSET Bots]
    BY <1>9 DEF ArmCommit, Request, TypeOK
  <2> QED  BY <1>9, <2>1, UpdateType DEF ArmCommit
<1>10. CASE StopLoad(p)
  <2>1. PICK b \in Bots :
          Load(p, "stop", {b}, [rows EXCEPT ![b].state = "stopped"], FALSE)
    BY <1>10 DEF StopLoad
  <2>2. [rows EXCEPT ![b].state = "stopped"] \in [Bots -> Row]
    BY DEF Row, States, TypeOK
  <2> QED  BY <2>1, <2>2, LoadType DEF Stages
<1>11. CASE StopCommit(p)
  BY <1>11, UpdateType DEF StopCommit, TypeOK
<1>12. CASE ClearLoad(p)
  <2>1. PICK b \in Bots :
          Load(p, "clear", {b},
               [rows EXCEPT ![b].state = "stopped", ![b].haltReason = "none"], FALSE)
    BY <1>12 DEF ClearLoad
  <2>2. [rows EXCEPT ![b].state = "stopped", ![b].haltReason = "none"] \in [Bots -> Row]
    BY DEF Row, States, Reasons, TypeOK
  <2> QED  BY <2>1, <2>2, LoadType DEF Stages
<1>13. CASE ClearCommit(p)
  BY <1>13, UpdateType DEF ClearCommit, TypeOK
<1>14. CASE KillLoad(p)
  <2>1. [b \in Bots |-> Halted(rows[b])] \in [Bots -> Row]
    BY DEF Halted, Row, States, Reasons, TypeOK
  <2> QED  BY <1>14, <2>1, LoadType DEF KillLoad, Stages
<1>15. CASE KillCommit(p)
  BY <1>15, UpdateType DEF KillCommit, TypeOK
<1>16. CASE Abort(p)
  BY <1>16, RollbackType DEF Abort
<1> QED  BY <1>1, <1>2, <1>3, <1>4, <1>5, <1>6, <1>7, <1>8, <1>9, <1>10, <1>11,
            <1>12, <1>13, <1>14, <1>15, <1>16 DEF Handler

LEMMA TypeInit == Init => TypeOK
<1> SUFFICES ASSUME Init PROVE TypeOK
  OBVIOUS
<1>1. rows \in [Bots -> Row]
  BY NoRowType, NewRowType DEF Init
<1> QED  BY <1>1, IdleType, MaxStartedAssumption DEF Init, TypeOK

(* Every reachable state is well typed: no handler leaves a row with a     *)
(* state or a reason that the columns do not have.                         *)
THEOREM TypeCorrect == Spec => []TypeOK
  BY TypeInit, TypeStep, PTL DEF Spec

-----------------------------------------------------------------------------
(* The requests in flight.                                                 *)

Copies == CopiesAreFresh /\ CopiesAreIntended /\ ArmsAreSingle /\ ClashesAreNoted

(* The step tells every request that goes on which rows it changed.        *)
Announces ==
  \A q \in Requests :
    \/ req'[q] = Idle
    \/ req'[q] = Notified(q, {b \in Bots : rows'[b] # rows[b]})

LEMMA CommitAnnounces ==
  ASSUME TypeOK, NEW p \in Requests, NEW next, CommitRows(p, next)
  PROVE  Announces
  BY DEF CommitRows, Announces

LEMMA DeleteStrategyAnnounces ==
  ASSUME TypeOK, NEW p \in Requests, DeleteStrategy(p)
  PROVE  Announces
  BY DEF DeleteStrategy, Announces

(* What a request in flight is left with when others change rows.          *)
LEMMA NotifiedFields ==
  ASSUME TypeOK, NEW q \in Requests, NEW S \in SUBSET Bots
  PROVE  /\ Notified(q, S).stage = req[q].stage
         /\ Notified(q, S).on = req[q].on
         /\ Notified(q, S).loaded = req[q].loaded
         /\ Notified(q, S).write = req[q].write
         /\ req[q].stage # "idle" => /\ Notified(q, S).outdated = req[q].outdated \cup S
                                     /\ Notified(q, S).since = req[q].since \cup S
<1>1. req[q] \in Request
  BY DEF TypeOK
<1> QED  BY <1>1 DEF Notified, Request

LEMMA AnnouncedCopies ==
  ASSUME TypeOK, Copies, Announces
  PROVE  Copies'
<1> DEFINE S == {b \in Bots : rows'[b] # rows[b]}
<1>1. \A q \in Requests : req'[q].stage # "idle" =>
        /\ req'[q] = Notified(q, S)
        /\ req[q].stage = req'[q].stage /\ req[q].on = req'[q].on
        /\ req[q].loaded = req'[q].loaded /\ req[q].write = req'[q].write
        /\ req'[q].outdated = req[q].outdated \cup S
        /\ req'[q].since = req[q].since \cup S
  <2> SUFFICES ASSUME NEW q \in Requests, req'[q].stage # "idle"
               PROVE  /\ req'[q] = Notified(q, S)
                      /\ req[q].stage = req'[q].stage /\ req[q].on = req'[q].on
                      /\ req[q].loaded = req'[q].loaded /\ req[q].write = req'[q].write
                      /\ req'[q].outdated = req[q].outdated \cup S
                      /\ req'[q].since = req[q].since \cup S
    OBVIOUS
  <2>1. req'[q] = Notified(q, S)
    BY DEF Announces, Idle
  <2> HIDE DEF S
  <2>2. S \in SUBSET Bots
    BY DEF S
  <2> QED  BY <2>1, <2>2, NotifiedFields
<1>2. CopiesAreFresh'
  <2> SUFFICES ASSUME NEW q \in Requests, req'[q].stage # "idle",
                      NEW b \in req'[q].on \ req'[q].outdated
               PROVE  req'[q].loaded[b] = rows'[b]
    BY DEF CopiesAreFresh
  <2>1. b \in Bots
    BY <1>1 DEF TypeOK, Request
  <2>2. /\ req[q].stage # "idle" /\ req[q].loaded = req'[q].loaded
        /\ b \in req[q].on \ req[q].outdated /\ b \notin S
    BY <1>1
  <2>3. rows'[b] = rows[b]
    BY <2>1, <2>2
  <2>4. req[q].loaded[b] = rows[b]
    BY <2>2 DEF Copies, CopiesAreFresh
  <2> QED  BY <2>2, <2>3, <2>4
<1>3. CopiesAreIntended'
  <2> HIDE DEF S
  <2> SUFFICES ASSUME NEW q \in Requests, req'[q].stage # "idle", NEW b \in req'[q].on
               PROVE  Intends(req'[q].stage, req'[q].loaded[b], req'[q].write[b])
    BY DEF CopiesAreIntended
  <2>1. /\ req[q].stage = req'[q].stage /\ req[q].on = req'[q].on
        /\ req[q].loaded = req'[q].loaded /\ req[q].write = req'[q].write
    BY <1>1
  <2> QED  BY <2>1 DEF Copies, CopiesAreIntended
<1>4. ClashesAreNoted'
  <2> SUFFICES ASSUME NEW q \in Requests, req'[q].stage = "arm_commit",
                      NEW b \in req'[q].on \ Hedged, NEW c \in Clash(b)'
               PROVE  c \in req'[q].since
    BY DEF ClashesAreNoted
  <2>1. CASE c \in S
    BY <2>1, <1>1
  <2>2. CASE c \notin S
    <3>1. c \in Clash(b)
      BY <2>2 DEF Clash, Exists
    <3> QED  BY <3>1, <1>1 DEF Copies, ClashesAreNoted
  <2> QED  BY <2>1, <2>2
<1>5. ArmsAreSingle'
  <2> HIDE DEF S
  <2> SUFFICES ASSUME NEW q \in Requests, req'[q].stage \in {"arm_venue", "arm_commit"},
                      NEW b \in req'[q].on, NEW c \in req'[q].on
               PROVE  b = c
    BY DEF ArmsAreSingle
  <2>1. req[q].stage = req'[q].stage /\ req[q].on = req'[q].on
    BY <1>1
  <2> QED  BY <2>1 DEF Copies, ArmsAreSingle
<1> QED  BY <1>2, <1>3, <1>4, <1>5 DEF Copies

LEMMA RollbackCopies ==
  ASSUME TypeOK, Copies, NEW p \in Requests, Rollback(p)
  PROVE  Copies'
<1>1. \A q \in Requests : req'[q].stage # "idle" => req'[q] = req[q]
  BY DEF Rollback, Idle, TypeOK
<1>2. rows' = rows
  BY DEF Rollback
<1>3. CopiesAreFresh'
  BY <1>1, <1>2 DEF Copies, CopiesAreFresh
<1>4. CopiesAreIntended'
  BY <1>1 DEF Copies, CopiesAreIntended
<1>5. ClashesAreNoted'
  BY <1>1, <1>2 DEF Copies, ClashesAreNoted, Clash, Exists
<1>6. ArmsAreSingle'
  BY <1>1 DEF Copies, ArmsAreSingle
<1> QED  BY <1>3, <1>4, <1>5, <1>6 DEF Copies

(* A request that has just read its rows holds no outdated copy.           *)
LEMMA LoadCopies ==
  ASSUME TypeOK, Copies, NEW p \in Requests, NEW stage \in Stages \ {"arm_commit"},
         NEW S \in SUBSET Bots, NEW w, NEW code, Load(p, stage, S, w, code),
         \A b \in S : Intends(stage, rows[b], w[b]),
         stage = "arm_venue" => \A b, c \in S : b = c
  PROVE  Copies'
<1>1. rows' = rows
  BY DEF Load
<1>2. \A q \in Requests : q # p => req'[q] = req[q]
  BY DEF Load, TypeOK
<1>3. /\ req'[p].stage = stage /\ req'[p].on = S
      /\ \A b \in S : req'[p].loaded[b] = rows[b] /\ req'[p].write[b] = w[b]
  BY DEF Load, TypeOK
<1>4. CopiesAreFresh'
  BY <1>1, <1>2, <1>3 DEF Copies, CopiesAreFresh
<1>5. CopiesAreIntended'
  BY <1>2, <1>3 DEF Copies, CopiesAreIntended
<1>6. ClashesAreNoted'
  BY <1>1, <1>2, <1>3 DEF Copies, ClashesAreNoted, Clash, Exists
<1>7. ArmsAreSingle'
  BY <1>2, <1>3 DEF Copies, ArmsAreSingle
<1> QED  BY <1>4, <1>5, <1>6, <1>7 DEF Copies

-----------------------------------------------------------------------------
(* The rows.                                                               *)

RowsHold == NoneRuns /\ OneWayExclusive /\ ArmedWithinLimit /\ HaltCarriesItsReason

Same == UNCHANGED <<rows, overwritten, unseen>>

LEMMA RowsUnchanged ==
  ASSUME RowsHold, Same
  PROVE  RowsHold'
  BY DEF RowsHold, Same, NoneRuns, OneWayExclusive, ArmedWithinLimit, HaltCarriesItsReason

(* What an UPDATE does to one row: nothing, or it overwrites a change that *)
(* it has not seen, or it writes what it meant to.                         *)
LEMMA UpdatedRow ==
  ASSUME TypeOK, Copies, NEW p \in Requests, req[p].stage # "idle", Update(p),
         NEW b \in Bots, rows'[b] # rows[b]
  PROVE  /\ b \in req[p].on /\ Exists(b)
         /\ \/ /\ b \in overwritten' /\ b \in req[p].outdated
               /\ \/ rows'[b].state = rows[b].state
                  \/ /\ rows'[b].state = req[p].write[b].state
                     /\ req[p].write[b].state # req[p].loaded[b].state
            \/ rows[b] = req[p].loaded[b] /\ rows'[b] = req[p].write[b]
<1> DEFINE old == req[p].loaded[b]
           new == req[p].write[b]
<1>1. rows \in [Bots -> Row] /\ rows[b] \in Row /\ req[p] \in Request /\ old \in Row /\ new \in Row
  BY DEF TypeOK, Request
<1>2. rows'[b] = IF b \in req[p].on THEN Merged(rows[b], old, new) ELSE rows[b]
  BY DEF Update, CommitRows
<1>3. b \in req[p].on /\ rows'[b] = Merged(rows[b], old, new)
  BY <1>2
<1>4. rows[b].state \notin Missing /\ Exists(b)
  BY <1>1, <1>3 DEF Merged, Row, Exists
<1>5. CASE b \in req[p].outdated
  <2>1. rows' = [c \in Bots |-> IF c \in req[p].on
                   THEN Merged(rows[c], req[p].loaded[c], req[p].write[c]) ELSE rows[c]]
    BY DEF Update, CommitRows
  <2>2. overwritten' = overwritten \cup ({c \in Bots : rows'[c] # rows[c]} \cap req[p].outdated)
    BY <2>1 DEF Update, CommitRows
  <2>3. b \in overwritten'
    BY <1>5, <2>2
  <2>4. rows'[b].state = Column(rows[b].state, old.state, new.state)
    BY <1>3, <1>4 DEF Merged
  <2> QED  BY <1>3, <1>4, <1>5, <2>3, <2>4 DEF Column
<1>6. CASE b \notin req[p].outdated
  <2>1. old = rows[b]
    BY <1>3, <1>6 DEF Copies, CopiesAreFresh
  <2>2. rows'[b] = new
    BY <1>1, <1>3, <1>4, <2>1, MergedFresh
  <2> QED  BY <1>3, <1>4, <2>1, <2>2
<1> QED  BY <1>5, <1>6

LEMMA UpdateKeepsOverwritten ==
  ASSUME NEW p \in Requests, Update(p)
  PROVE  overwritten \subseteq overwritten'
  BY DEF Update, CommitRows

Writers == {"update", "stop", "clear", "kill", "arm_commit"}

(* Only the commit of an arm puts a bot to work.                           *)
LEMMA OnlyArmsPutToWork ==
  ASSUME TypeOK, Copies, NEW p \in Requests, req[p].stage \in Writers, Update(p),
         NEW b \in Bots, rows'[b].state \in AtWork, rows'[b].state # rows[b].state
  PROVE  /\ req[p].stage = "arm_commit" /\ b \in req[p].on
         /\ req[p].loaded[b].state # "armed" /\ rows'[b].state = "armed"
<1>1. b \in req[p].on
  BY UpdatedRow DEF Writers
<1>2. rows'[b].state = req[p].write[b].state /\ req[p].write[b].state # req[p].loaded[b].state
  BY UpdatedRow DEF Writers
<1>3. Intends(req[p].stage, req[p].loaded[b], req[p].write[b])
  BY <1>1 DEF Copies, CopiesAreIntended, Writers
<1>4. req[p].loaded[b] \in Row
  BY DEF TypeOK, Request
<1> QED  BY <1>1, <1>2, <1>3, <1>4 DEF Intends, Writers, AtWork, Row

LEMMA UpdateNoneRuns ==
  ASSUME TypeOK, Copies, NoneRuns, NEW p \in Requests, req[p].stage \in Writers, Update(p)
  PROVE  NoneRuns'
  BY OnlyArmsPutToWork DEF NoneRuns, AtWork

LEMMA UpdateArmedWithinLimit ==
  ASSUME TypeOK, Copies, ArmedWithinLimit, NEW p \in Requests, req[p].stage \in Writers, Update(p)
  PROVE  ArmedWithinLimit'
<1> SUFFICES ASSUME NEW b \in Bots \ overwritten', rows'[b].state \in AtWork
             PROVE  rows'[b].leverage <= rows'[b].limit
  BY DEF ArmedWithinLimit, AtWork
<1>1. CASE rows'[b] = rows[b]
  BY <1>1, UpdateKeepsOverwritten DEF ArmedWithinLimit
<1>2. CASE rows'[b] # rows[b]
  <2>1. /\ b \in req[p].on
        /\ rows[b] = req[p].loaded[b] /\ rows'[b] = req[p].write[b]
    BY <1>2, UpdatedRow DEF Writers
  <2>2. Intends(req[p].stage, req[p].loaded[b], req[p].write[b])
    BY <2>1 DEF Copies, CopiesAreIntended, Writers
  <2>3. req[p].loaded[b] \in Row
    BY DEF TypeOK, Request
  <2>4. CASE req[p].stage = "arm_commit"
    BY <2>1, <2>2, <2>3, <2>4 DEF Intends, Row
  <2>5. CASE req[p].stage # "arm_commit"
    <3>1. rows'[b].state \notin AtWork
      BY <2>1, <2>2, <2>3, <2>5 DEF Intends, Writers, AtWork, Row
    <3> QED  BY <3>1
  <2> QED  BY <2>4, <2>5
<1> QED  BY <1>1, <1>2

LEMMA UpdateHaltCarriesItsReason ==
  ASSUME TypeOK, Copies, HaltCarriesItsReason,
         NEW p \in Requests, req[p].stage \in Writers, Update(p)
  PROVE  HaltCarriesItsReason'
<1> SUFFICES ASSUME NEW b \in Bots \ overwritten', rows'[b].state = "halted"
             PROVE  rows'[b].haltReason # "none"
  BY DEF HaltCarriesItsReason
<1>1. CASE rows'[b] = rows[b]
  BY <1>1, UpdateKeepsOverwritten DEF HaltCarriesItsReason
<1>2. CASE rows'[b] # rows[b]
  <2>1. /\ b \in req[p].on
        /\ rows[b] = req[p].loaded[b] /\ rows'[b] = req[p].write[b]
    BY <1>2, UpdatedRow DEF Writers
  <2>2. Intends(req[p].stage, req[p].loaded[b], req[p].write[b])
    BY <2>1 DEF Copies, CopiesAreIntended, Writers
  <2>3. req[p].loaded[b] \in Row
    BY DEF TypeOK, Request
  <2>4. CASE req[p].stage = "update"
    BY <2>1, <2>2, <2>4, UpdateKeepsOverwritten DEF Intends, HaltCarriesItsReason
  <2>5. CASE req[p].stage # "update"
    BY <2>1, <2>2, <2>3, <2>5 DEF Intends, Writers, Row
  <2> QED  BY <2>4, <2>5
<1> QED  BY <1>1, <1>2

LEMMA UpdateOneWayExclusive ==
  ASSUME TypeOK, Copies, OneWayExclusive, NEW p \in Requests,
         req[p].stage \in Writers \ {"arm_commit"}, Update(p), unseen' = unseen
  PROVE  OneWayExclusive'
<1>1. \A b \in Bots : rows'[b].state \in AtWork => rows[b].state \in AtWork
  BY OnlyArmsPutToWork
<1> QED  BY <1>1 DEF OneWayExclusive

(* The bot that is newly at work clashes only with bots its pre-flight did *)
(* not see, and they are what the commit notes.                            *)
LEMMA ArmOneWayExclusive ==
  ASSUME TypeOK, Copies, NoneRuns, OneWayExclusive, NEW p \in Requests, ArmCommit(p)
  PROVE  OneWayExclusive'
<1>1. Update(p) /\ req[p].stage = "arm_commit" /\ req[p].stage \in Writers
  BY DEF ArmCommit, Writers
<1>2. ASSUME NEW b \in Bots \ Hedged, rows'[b].state \in AtWork, rows[b].state \notin AtWork,
             NEW c \in Bots \ Hedged, rows'[c].state \in AtWork,
             b # c, Market[b] = Market[c]
      PROVE  c \in unseen'[b]
  <2>1. b \in req[p].on /\ req[p].loaded[b].state # "armed"
    BY <1>1, <1>2, OnlyArmsPutToWork
  <2>2. unseen'[b] = req[p].since
    BY <1>2, <2>1 DEF ArmCommit, AtWork
  <2>3. c \notin req[p].on
    BY <1>1, <1>2, <2>1 DEF Copies, ArmsAreSingle
  <2>4. rows'[c] = rows[c]
    BY <1>1, <2>3, UpdatedRow
  <2>5. c \in Clash(b)
    BY <1>2, <2>4 DEF Clash, Exists, States, AtWork
  <2> QED  BY <1>1, <1>2, <2>1, <2>2, <2>5 DEF Copies, ClashesAreNoted
<1>3. \A b \in Bots : rows[b].state \in AtWork => unseen'[b] = unseen[b]
  BY DEF ArmCommit, NoneRuns, AtWork
<1> SUFFICES ASSUME NEW b \in Bots \ Hedged, NEW c \in Bots \ Hedged,
                    b # c, Market[b] = Market[c],
                    rows'[b].state \in AtWork, rows'[c].state \in AtWork
             PROVE  b \in unseen'[c] \/ c \in unseen'[b]
  BY DEF OneWayExclusive, AtWork
<1>4. CASE rows[b].state \notin AtWork
  BY <1>2, <1>4
<1>5. CASE rows[c].state \notin AtWork
  BY <1>2, <1>5
<1>6. CASE rows[b].state \in AtWork /\ rows[c].state \in AtWork
  BY <1>3, <1>6 DEF OneWayExclusive
<1> QED  BY <1>4, <1>5, <1>6

LEMMA UpdateRows ==
  ASSUME TypeOK, Copies, RowsHold, NEW p \in Requests, req[p].stage \in Writers, Update(p),
         ArmCommit(p) \/ (req[p].stage # "arm_commit" /\ UNCHANGED unseen)
  PROVE  RowsHold'
  BY UpdateNoneRuns, UpdateArmedWithinLimit, UpdateHaltCarriesItsReason,
     UpdateOneWayExclusive, ArmOneWayExclusive DEF RowsHold

LEMMA CreatedRows ==
  ASSUME TypeOK, RowsHold, NEW p \in Requests, CreateBot(p)
  PROVE  RowsHold'
<1>1. PICK b \in Bots, leverage \in Leverages, limit \in Leverages :
        rows' = [rows EXCEPT ![b] = NewRow("stopped", leverage, limit)]
  BY DEF CreateBot
<1>2. \A c \in Bots : rows'[c] = rows[c] \/ rows'[c].state = "stopped"
  BY <1>1 DEF TypeOK, NewRow
<1>3. overwritten' = overwritten /\ unseen' = unseen
  BY DEF CreateBot
<1> QED  BY <1>2, <1>3 DEF RowsHold, NoneRuns, OneWayExclusive, ArmedWithinLimit,
                          HaltCarriesItsReason, AtWork

LEMMA RemovedRows ==
  ASSUME TypeOK, RowsHold, NEW S, rows' = Removed(S),
         overwritten \subseteq overwritten', unseen' = unseen
  PROVE  RowsHold'
<1>1. \A b \in Bots : rows'[b] = rows[b] \/ rows'[b].state = "deleted"
  BY DEF Removed, TypeOK, Row
<1> QED  BY <1>1 DEF RowsHold, NoneRuns, OneWayExclusive, ArmedWithinLimit,
                     HaltCarriesItsReason, AtWork

-----------------------------------------------------------------------------
(* The step.                                                               *)

(* A new bot is on no request's list.                                      *)
LEMMA CreatedCopies ==
  ASSUME TypeOK, Copies, NEW p \in Requests, CreateBot(p)
  PROVE  Copies'
<1>1. PICK n \in Bots, leverage \in Leverages, limit \in Leverages :
        /\ rows[n].state = "unborn"
        /\ rows' = [rows EXCEPT ![n] = NewRow("stopped", leverage, limit)]
  BY DEF CreateBot
<1>2. req' = req
  BY DEF CreateBot
<1>3. CopiesAreFresh'
  <2> SUFFICES ASSUME NEW q \in Requests, req[q].stage # "idle",
                      NEW b \in req[q].on \ req[q].outdated
               PROVE  req[q].loaded[b] = rows'[b]
    BY <1>2 DEF CopiesAreFresh
  <2>1. req[q].loaded[b] = rows[b] /\ b \in Bots
    BY DEF Copies, CopiesAreFresh, TypeOK, Request
  <2>2. Intends(req[q].stage, req[q].loaded[b], req[q].write[b])
    BY DEF Copies, CopiesAreIntended
  <2>3. b # n
    BY <1>1, <2>1, <2>2 DEF Intends
  <2> QED  BY <1>1, <2>1, <2>3 DEF TypeOK
<1>4. CopiesAreIntended' /\ ArmsAreSingle'
  BY <1>2 DEF Copies, CopiesAreIntended, ArmsAreSingle
<1>5. \A b \in Bots : Clash(b)' \subseteq Clash(b)
  BY <1>1 DEF Clash, Exists, TypeOK, NewRow, AtWork
<1>6. ClashesAreNoted'
  <2> SUFFICES ASSUME NEW q \in Requests, req[q].stage = "arm_commit",
                      NEW b \in req[q].on \ Hedged
               PROVE  Clash(b)' \subseteq req[q].since
    BY <1>2 DEF ClashesAreNoted
  <2>1. b \in Bots
    BY DEF TypeOK, Request
  <2> QED  BY <1>5, <2>1 DEF Copies, ClashesAreNoted
<1> QED  BY <1>3, <1>4, <1>6 DEF Copies

(* A pre-flight that passes has just seen every clash there is.            *)
LEMMA PreflightCopies ==
  ASSUME TypeOK, Copies, NEW p \in Requests, ArmPreflight(p)
  PROVE  Copies' /\ Same
<1>1. CASE Rollback(p)
  BY <1>1, RollbackCopies DEF Rollback, Same
<1>2. CASE /\ \A b \in req[p].on : Ready(p, b, TRUE)
           /\ req' = [req EXCEPT ![p].stage = "arm_commit", ![p].since = {}]
           /\ UNCHANGED <<rows, started, overwritten, unseen>>
  <2>1. req[p].stage = "arm_venue" /\ req[p] \in Request
    BY DEF ArmPreflight, TypeOK
  <2>2. /\ req'[p] = [req[p] EXCEPT !.stage = "arm_commit", !.since = {}]
        /\ \A q \in Requests \ {p} : req'[q] = req[q]
    BY <1>2 DEF TypeOK
  <2>3. /\ req'[p].stage = "arm_commit" /\ req'[p].on = req[p].on
        /\ req'[p].loaded = req[p].loaded /\ req'[p].write = req[p].write
        /\ req'[p].outdated = req[p].outdated
    BY <2>1, <2>2 DEF Request
  <2>4. CopiesAreFresh'
    <3> SUFFICES ASSUME NEW q \in Requests, req'[q].stage # "idle",
                        NEW b \in req'[q].on \ req'[q].outdated
                 PROVE  req'[q].loaded[b] = rows'[b]
      BY DEF CopiesAreFresh
    <3>1. /\ req[q].stage # "idle" /\ req'[q].on = req[q].on
          /\ req'[q].loaded = req[q].loaded /\ req'[q].outdated = req[q].outdated
      BY <2>1, <2>2, <2>3
    <3> QED  BY <1>2, <3>1 DEF Copies, CopiesAreFresh
  <2>5. CopiesAreIntended'
    <3>1. \A b \in req[p].on : Intends("arm_commit", req[p].loaded[b], req[p].write[b])
      BY <1>2, <2>1 DEF Copies, CopiesAreIntended, Intends, Ready
    <3> SUFFICES ASSUME NEW q \in Requests, req'[q].stage # "idle", NEW b \in req'[q].on
                 PROVE  Intends(req'[q].stage, req'[q].loaded[b], req'[q].write[b])
      BY DEF CopiesAreIntended
    <3>2. CASE q = p
      BY <2>3, <3>1, <3>2
    <3>3. CASE q # p
      BY <2>2, <3>3 DEF Copies, CopiesAreIntended
    <3> QED  BY <3>2, <3>3
  <2>6. ArmsAreSingle'
    <3> SUFFICES ASSUME NEW q \in Requests, req'[q].stage \in {"arm_venue", "arm_commit"},
                        NEW b \in req'[q].on, NEW c \in req'[q].on
                 PROVE  b = c
      BY DEF ArmsAreSingle
    <3>1. req[q].stage \in {"arm_venue", "arm_commit"} /\ req[q].on = req'[q].on
      BY <2>1, <2>2, <2>3
    <3> QED  BY <3>1 DEF Copies, ArmsAreSingle
  <2>7. \A b : Clash(b)' = Clash(b)
    BY <1>2 DEF Clash, Exists
  <2>8. \A b \in req[p].on \ Hedged : Clash(b) = {}
    BY <1>2 DEF Ready
  <2>9. ClashesAreNoted'
    BY <2>2, <2>3, <2>7, <2>8 DEF Copies, ClashesAreNoted
  <2> QED  BY <1>2, <2>4, <2>5, <2>6, <2>9 DEF Copies, Same
<1> QED  BY <1>1, <1>2 DEF ArmPreflight, Ready

(* What a handler that loads a row has checked is what its stage intends.  *)
LEMMA LoadSame ==
  ASSUME NEW p, NEW stage, NEW S, NEW w, NEW code, Load(p, stage, S, w, code)
  PROVE  Same
  BY DEF Load, Same

LEMMA ExistingStates ==
  ASSUME NoneRuns, NEW b \in Bots, Exists(b)
  PROVE  rows[b].state \in {"stopped", "armed", "halted"}
  BY DEF Exists, NoneRuns, States

(* Every handler keeps the copies fresh and the rows as promised.          *)
LEMMA HandlerStep ==
  ASSUME TypeOK, Copies, RowsHold, NEW p \in Requests, Handler(p)
  PROVE  Copies' /\ RowsHold'
<1>n. NoneRuns /\ \A b \in Bots : rows[b] \in Row
  BY DEF RowsHold, TypeOK
<1>l. ASSUME NEW stage \in Stages \ {"arm_commit"}, NEW b \in Bots, NEW w, NEW code,
             Load(p, stage, {b}, w, code), Intends(stage, rows[b], w[b])
      PROVE  Copies' /\ RowsHold'
  BY <1>l, LoadCopies, LoadSame, RowsUnchanged
<1>u. ASSUME Update(p), req[p].stage \in Writers,
             ArmCommit(p) \/ (req[p].stage # "arm_commit" /\ UNCHANGED unseen)
      PROVE  Copies' /\ RowsHold'
  <2>1. Announces
    BY <1>u, CommitAnnounces DEF Update
  <2> QED  BY <1>u, <2>1, AnnouncedCopies, UpdateRows
<1>1. CASE CreateBot(p)
  BY <1>1, CreatedCopies, CreatedRows
<1>2. CASE UpdateLoad(p)
  <2>1. PICK b \in Bots, leverage \in Leverages, limit \in Leverages, code \in BOOLEAN :
          /\ Exists(b) /\ rows[b].state \notin AtWork
          /\ Load(p, "update", {b}, [rows EXCEPT ![b].leverage = leverage, ![b].limit = limit], code)
    BY <1>2 DEF UpdateLoad
  <2> DEFINE w == [rows EXCEPT ![b].leverage = leverage, ![b].limit = limit]
  <2>2. w[b].state = rows[b].state /\ w[b].haltReason = rows[b].haltReason
    BY <1>n DEF TypeOK, Row
  <2>3. Intends("update", rows[b], w[b])
    BY <1>n, <2>1, <2>2, ExistingStates DEF Intends, AtWork
  <2> HIDE DEF w
  <2>4. Load(p, "update", {b}, w, code)
    BY <2>1 DEF w
  <2> QED  BY <1>l, <2>3, <2>4 DEF Stages
<1>3. CASE UpdateCommit(p)
  BY <1>3, <1>u DEF UpdateCommit, Writers
<1>4. CASE DeleteLoad(p)
  <2>1. PICK b \in Bots : /\ Exists(b) /\ rows[b].state \notin AtWork
                          /\ Load(p, "delete", {b}, rows, FALSE)
    BY <1>4 DEF DeleteLoad
  <2>2. Intends("delete", rows[b], rows[b])
    BY <1>n, <2>1, ExistingStates DEF Intends, AtWork
  <2> QED  BY <1>l, <2>1, <2>2 DEF Stages
<1>5. CASE DeleteCommit(p)
  <2>1. CommitRows(p, Removed(req[p].on)) /\ unseen' = unseen
    BY <1>5 DEF DeleteCommit
  <2>2. Copies'
    BY <2>1, CommitAnnounces, AnnouncedCopies
  <2>3. rows' = Removed(req[p].on) /\ overwritten \subseteq overwritten'
    BY <2>1 DEF CommitRows
  <2> QED  BY <2>1, <2>2, <2>3, RemovedRows
<1>6. CASE DeleteStrategy(p)
  <2>1. Copies'
    BY <1>6, DeleteStrategyAnnounces, AnnouncedCopies
  <2>2. PICK b \in Bots : rows' = Removed({c \in Bots : Strategy[c] = Strategy[b]})
    BY <1>6 DEF DeleteStrategy
  <2>3. overwritten' = overwritten /\ unseen' = unseen
    BY <1>6 DEF DeleteStrategy
  <2> QED  BY <2>1, <2>2, <2>3, RemovedRows
<1>7. CASE ArmLoad(p)
  <2>1. PICK b \in Bots :
          /\ Exists(b) /\ rows[b].state # "halted"
          /\ Load(p, "arm_venue", {b}, [rows EXCEPT ![b].state = "armed"], TRUE)
    BY <1>7 DEF ArmLoad
  <2>2. Intends("arm_venue", rows[b], [rows EXCEPT ![b].state = "armed"][b])
    BY <1>n, <2>1, ExistingStates DEF Intends, TypeOK
  <2> QED  BY <1>l, <2>1, <2>2 DEF Stages
<1>8. CASE ArmPreflight(p)
  BY <1>8, PreflightCopies, RowsUnchanged
<1>9. CASE ArmCommit(p)
  BY <1>9, <1>u DEF ArmCommit, Writers
<1>10. CASE StopLoad(p)
  <2>1. PICK b \in Bots :
          Exists(b) /\ Load(p, "stop", {b}, [rows EXCEPT ![b].state = "stopped"], FALSE)
    BY <1>10 DEF StopLoad
  <2>2. Intends("stop", rows[b], [rows EXCEPT ![b].state = "stopped"][b])
    BY <1>n, <2>1, ExistingStates DEF Intends, TypeOK
  <2> QED  BY <1>l, <2>1, <2>2 DEF Stages
<1>11. CASE StopCommit(p)
  BY <1>11, <1>u DEF StopCommit, Writers
<1>12. CASE ClearLoad(p)
  <2>1. PICK b \in Bots :
          /\ rows[b].state = "halted"
          /\ Load(p, "clear", {b},
                  [rows EXCEPT ![b].state = "stopped", ![b].haltReason = "none"], FALSE)
    BY <1>12 DEF ClearLoad
  <2> DEFINE w == [rows EXCEPT ![b].state = "stopped", ![b].haltReason = "none"]
  <2>2. w[b] = [rows[b] EXCEPT !.state = "stopped", !.haltReason = "none"]
    BY <1>n DEF TypeOK, Row
  <2>3. Intends("clear", rows[b], w[b])
    BY <2>1, <2>2 DEF Intends
  <2> HIDE DEF w
  <2>4. Load(p, "clear", {b}, w, FALSE)
    BY <2>1 DEF w
  <2> QED  BY <1>l, <2>3, <2>4 DEF Stages
<1>13. CASE ClearCommit(p)
  BY <1>13, <1>u DEF ClearCommit, Writers
<1>14. CASE KillLoad(p)
  <2> DEFINE S == {b \in Bots : Exists(b)}
             w == [b \in Bots |-> Halted(rows[b])]
  <2>1. \A b \in S : Intends("kill", rows[b], w[b])
    BY <1>n, ExistingStates DEF Intends, Halted
  <2>2. Load(p, "kill", S, w, TRUE) /\ S \in SUBSET Bots
    BY <1>14 DEF KillLoad
  <2> HIDE DEF S, w
  <2>3. Copies'
    BY <2>1, <2>2, LoadCopies DEF Stages
  <2> QED  BY <2>2, <2>3, LoadSame, RowsUnchanged
<1>15. CASE KillCommit(p)
  BY <1>15, <1>u DEF KillCommit, Writers
<1>16. CASE Abort(p)
  <2>1. Rollback(p)
    BY <1>16 DEF Abort
  <2> QED  BY <2>1, RollbackCopies, RowsUnchanged DEF Rollback, Same
<1> QED  BY <1>1, <1>2, <1>3, <1>4, <1>5, <1>6, <1>7, <1>8, <1>9, <1>10, <1>11,
            <1>12, <1>13, <1>14, <1>15, <1>16 DEF Handler

LEMMA StutterStep ==
  ASSUME Copies, RowsHold, UNCHANGED vars
  PROVE  Copies' /\ RowsHold'
<1>1. RowsHold'
  BY RowsUnchanged DEF vars, Same
<1>2. Copies'
  BY DEF vars, Copies, CopiesAreFresh, CopiesAreIntended, ArmsAreSingle,
         ClashesAreNoted, Clash, Exists
<1> QED  BY <1>1, <1>2

LEMMA IInvInit == Init => IInv
<1> SUFFICES ASSUME Init PROVE IInv
  OBVIOUS
<1>1. \A b \in Bots : rows[b].state \in {"unborn", "stopped"}
  BY DEF Init, NoRow, NewRow
<1>2. \A p \in Requests : req[p].stage = "idle"
  BY DEF Init, Idle
<1>3. NoneRuns /\ OneWayExclusive /\ ArmedWithinLimit /\ HaltCarriesItsReason
  BY <1>1 DEF NoneRuns, OneWayExclusive, ArmedWithinLimit, HaltCarriesItsReason, AtWork
<1>4. CopiesAreFresh /\ CopiesAreIntended /\ ArmsAreSingle /\ ClashesAreNoted
  BY <1>2 DEF CopiesAreFresh, CopiesAreIntended, ArmsAreSingle, ClashesAreNoted
<1> QED  BY <1>3, <1>4, TypeInit DEF IInv

LEMMA IInvStep == IInv /\ [Next]_vars => IInv'
<1> SUFFICES ASSUME IInv, [Next]_vars PROVE IInv'
  OBVIOUS
<1>1. TypeOK /\ Copies /\ RowsHold
  BY DEF IInv, Copies, RowsHold
<1>2. TypeOK'
  BY <1>1, TypeStep
<1>3. CASE Next
  BY <1>1, <1>2, <1>3, HandlerStep DEF Next, IInv, Copies, RowsHold
<1>4. CASE UNCHANGED vars
  BY <1>1, <1>2, <1>4, StutterStep DEF IInv, Copies, RowsHold
<1> QED  BY <1>3, <1>4

(* What is true of the requests in flight in every reachable state.        *)
THEOREM Inductive == Spec => []IInv
  BY IInvInit, IInvStep, PTL DEF Spec

(* Two one-way bots of one key and symbol are never at work together but   *)
(* through the window between a pre-flight query and its commit: this is   *)
(* the refusal at arming that execution.py counts on.                      *)
THEOREM OneWayExclusiveHolds == Spec => []OneWayExclusive
<1>1. IInv => OneWayExclusive
  BY DEF IInv
<1> QED  BY <1>1, Inductive, PTL

(* A bot put to work by arm_bot stays within its own leverage limit,       *)
(* unless a request wrote its row from an outdated copy.                   *)
THEOREM ArmedWithinLimitHolds == Spec => []ArmedWithinLimit
<1>1. IInv => ArmedWithinLimit
  BY DEF IInv
<1> QED  BY <1>1, Inductive, PTL

(* A halted bot has its halt_reason, unless a request wrote its row from   *)
(* an outdated copy.                                                       *)
THEOREM HaltCarriesItsReasonHolds == Spec => []HaltCarriesItsReason
<1>1. IInv => HaltCarriesItsReason
  BY DEF IInv
<1> QED  BY <1>1, Inductive, PTL

-----------------------------------------------------------------------------
(* The lifecycle.                                                          *)

Alive == {"stopped", "armed", "halted"}

(* What a step may do to the life of one bot.                              *)
Moved(b) ==
  /\ b \in overwritten => b \in overwritten'
  /\ b \in overwritten' \ overwritten => rows[b].state \in Alive
  /\ \/ b \in overwritten'
     \/ rows'[b].state = rows[b].state
     \/ <<rows[b].state, rows'[b].state>> \in Promise!Moves

LEMMA UpdateMoves ==
  ASSUME IInv, NEW p \in Requests, req[p].stage \in Writers, Update(p), NEW b \in Bots
  PROVE  Moved(b)
<1>1. TypeOK /\ Copies /\ NoneRuns
  BY DEF IInv, Copies
<1>2. CASE rows'[b] = rows[b]
  <2>1. rows' = [c \in Bots |-> IF c \in req[p].on
                   THEN Merged(rows[c], req[p].loaded[c], req[p].write[c]) ELSE rows[c]]
    BY DEF Update, CommitRows
  <2>2. overwritten' = overwritten \cup ({c \in Bots : rows'[c] # rows[c]} \cap req[p].outdated)
    BY <2>1 DEF Update, CommitRows
  <2> QED  BY <1>2, <2>2 DEF Moved
<1>3. CASE rows'[b] # rows[b]
  <2>1. /\ b \in req[p].on /\ Exists(b)
        /\ b \in overwritten' \/ (rows[b] = req[p].loaded[b] /\ rows'[b] = req[p].write[b])
    BY <1>1, <1>3, UpdatedRow DEF Writers
  <2>2. rows[b].state \in Alive
    BY <1>1, <2>1, ExistingStates DEF Alive
  <2>3. Intends(req[p].stage, req[p].loaded[b], req[p].write[b])
    BY <1>1, <2>1 DEF Copies, CopiesAreIntended, Writers
  <2>4. req[p].loaded[b] \in Row
    BY <1>1 DEF TypeOK, Request
  <2>5. overwritten \subseteq overwritten'
    BY UpdateKeepsOverwritten
  <2>6. CASE b \in overwritten'
    BY <2>2, <2>5, <2>6 DEF Moved
  <2>7. CASE rows[b] = req[p].loaded[b] /\ rows'[b] = req[p].write[b]
    <3>1. \/ rows'[b].state = rows[b].state
          \/ <<rows[b].state, rows'[b].state>> \in Promise!Moves
      BY <2>2, <2>3, <2>4, <2>7 DEF Intends, Writers, Alive, Row, Promise!Moves
    <3> QED  BY <2>2, <2>5, <3>1 DEF Moved
  <2> QED  BY <2>1, <2>6, <2>7
<1> QED  BY <1>2, <1>3

LEMMA RemovedMoves ==
  ASSUME IInv, NEW S, rows' = Removed(S), NEW b \in Bots,
         overwritten \subseteq overwritten',
         \A c \in Bots : c \in overwritten' \ overwritten => rows'[c] # rows[c]
  PROVE  Moved(b)
<1>1. TypeOK /\ NoneRuns
  BY DEF IInv
<1>2. \/ rows'[b] = rows[b]
      \/ Exists(b) /\ rows'[b].state = "deleted"
  BY <1>1 DEF Removed, TypeOK, Row
<1>3. Exists(b) => rows[b].state \in Alive
  BY <1>1, ExistingStates DEF Alive
<1> QED  BY <1>2, <1>3 DEF Moved, Promise!Moves, Alive

LEMMA HandlerMoves ==
  ASSUME IInv, NEW p \in Requests, Handler(p), NEW b \in Bots
  PROVE  Moved(b)
<1>t. TypeOK
  BY DEF IInv
<1>u. ASSUME Update(p), req[p].stage \in Writers
      PROVE  Moved(b)
  BY <1>u, UpdateMoves
<1>s. ASSUME UNCHANGED <<rows, overwritten>>
      PROVE  Moved(b)
  BY <1>s DEF Moved
<1>1. CASE CreateBot(p)
  <2>1. PICK n \in Bots, leverage \in Leverages, limit \in Leverages :
          /\ rows[n].state = "unborn"
          /\ rows' = [rows EXCEPT ![n] = NewRow("stopped", leverage, limit)]
          /\ overwritten' = overwritten
    BY <1>1 DEF CreateBot
  <2>2. \/ rows'[b] = rows[b]
        \/ rows[b].state = "unborn" /\ rows'[b].state = "stopped"
    BY <1>t, <2>1 DEF TypeOK, NewRow
  <2> QED  BY <2>1, <2>2 DEF Moved, Promise!Moves
<1>2. CASE UpdateCommit(p) \/ ArmCommit(p) \/ StopCommit(p) \/ ClearCommit(p) \/ KillCommit(p)
  BY <1>2, <1>u DEF UpdateCommit, ArmCommit, StopCommit, ClearCommit, KillCommit, Writers
<1>3. CASE DeleteCommit(p)
  <2>1. /\ rows' = Removed(req[p].on)
        /\ overwritten' = overwritten \cup
             ({c \in Bots : Removed(req[p].on)[c] # rows[c]} \cap req[p].outdated)
    BY <1>3 DEF DeleteCommit, CommitRows
  <2> QED  BY <2>1, RemovedMoves
<1>4. CASE DeleteStrategy(p)
  <2>1. PICK c \in Bots : /\ rows' = Removed({d \in Bots : Strategy[d] = Strategy[c]})
                          /\ overwritten' = overwritten
    BY <1>4 DEF DeleteStrategy
  <2> QED  BY <2>1, RemovedMoves
<1>5. CASE UpdateLoad(p) \/ DeleteLoad(p) \/ ArmLoad(p) \/ StopLoad(p) \/ ClearLoad(p) \/ KillLoad(p)
  BY <1>5, <1>s DEF UpdateLoad, DeleteLoad, ArmLoad, StopLoad, ClearLoad, KillLoad, Load
<1>6. CASE ArmPreflight(p) \/ Abort(p)
  BY <1>6, <1>s DEF ArmPreflight, Abort, Rollback
<1> QED  BY <1>1, <1>2, <1>3, <1>4, <1>5, <1>6 DEF Handler

LEMMA PromiseInit == Init => Promise!Init
<1> SUFFICES ASSUME Init PROVE Promise!Init
  OBVIOUS
<1>1. \A b \in Bots : rows[b].state \in {"unborn", "stopped"}
  BY DEF Init, NoRow, NewRow
<1> QED  BY <1>1 DEF Init, Life, Promise!Init

LEMMA PromiseStep == IInv /\ IInv' /\ [Next]_vars => [Promise!Next]_Life
<1> SUFFICES ASSUME IInv, IInv', [Next]_vars PROVE [Promise!Next]_Life
  OBVIOUS
<1>1. CASE UNCHANGED vars
  BY <1>1 DEF vars, Life
<1>2. CASE Next
  <2>1. \A b \in Bots : Moved(b)
    BY <1>2, HandlerMoves DEF Next
  <2>2. \A b \in Bots : /\ Life[b] = IF b \in overwritten THEN "overwritten" ELSE rows[b].state
                        /\ Life'[b] = IF b \in overwritten' THEN "overwritten" ELSE rows'[b].state
    BY DEF Life
  <2>3. \A b \in Bots : Promise!MayMove(b)
    BY <2>1, <2>2 DEF Moved, Alive, Promise!MayMove
  <2>4. \A b \in Bots : Life'[b] \in Promise!Lives
    <3> SUFFICES ASSUME NEW b \in Bots PROVE Life'[b] \in Promise!Lives
      OBVIOUS
    <3>1. rows'[b] \in Row
      BY DEF IInv, TypeOK
    <3> QED  BY <2>2, <3>1 DEF Row, States, Missing, Promise!Lives
  <2>5. Life' \in [Bots -> Promise!Lives]
    BY <2>4 DEF Life
  <2> QED  BY <2>3, <2>5 DEF Promise!Next
<1> QED  BY <1>1, <1>2

(* The handlers, with their sessions and outdated copies, implement the    *)
(* lifecycle: no interleaving of requests moves a bot out of a halt to     *)
(* armed unless it wrote over a change it had not seen.                    *)
THEOREM Implements == Spec => KeepsLifecycle
  BY PromiseInit, PromiseStep, Inductive, PTL DEF Spec, KeepsLifecycle, Promise!Spec

-----------------------------------------------------------------------------
(* What a step may never do.                                               *)

LEMMA KillStep ==
  ASSUME IInv, NEW p \in Requests, KillCommit(p), NEW b \in req[p].on, rows[b].state \in States
  PROVE  \/ rows'[b].state = "halted"
         \/ req[p].loaded[b].state = "halted" /\ b \in req[p].outdated
<1> DEFINE old == req[p].loaded[b]
           new == req[p].write[b]
<1>1. b \in Bots /\ old \in Row /\ new \in Row /\ rows[b] \in Row
  BY DEF IInv, TypeOK, Request
<1>2. rows'[b] = Merged(rows[b], old, new)
  BY <1>1 DEF KillCommit, Update, CommitRows
<1>3. rows'[b].state = Column(rows[b].state, old.state, new.state)
  BY <1>2 DEF Merged, States, Missing
<1>4. new.state = "halted"
  <2>1. new = [old EXCEPT !.state = "halted", !.haltReason = "kill_switch"]
    BY DEF IInv, CopiesAreIntended, KillCommit, Intends
  <2> QED  BY <1>1, <2>1 DEF Row
<1>5. b \notin req[p].outdated => old = rows[b]
  BY DEF IInv, CopiesAreFresh, KillCommit
<1> QED  BY <1>3, <1>4, <1>5 DEF Column

(* When the kill switch commits, every bot it found not halted is halted,  *)
(* whatever else happened to it meanwhile, and so is every other bot of    *)
(* its list that nobody touched.                                           *)
THEOREM KillHaltsHolds == Spec => KillHalts
<1> DEFINE Halts ==
      \A p \in Requests : KillCommit(p) =>
        \A b \in req[p].on :
          rows[b].state \in States
          => \/ rows'[b].state = "halted"
             \/ req[p].loaded[b].state = "halted" /\ b \in req[p].outdated
<1>1. IInv => Halts
  BY KillStep
<1> HIDE DEF Halts
<1>2. Spec => [][Halts]_vars
  BY <1>1, Inductive, PTL
<1> QED  BY <1>2 DEF KillHalts, Halts

\* A request to update that loosens what it loaded carried a code.
CodesWereAsked ==
  \A p \in Requests : req[p].stage = "update" =>
    \A b \in req[p].on :
      Loosens(req[p].loaded[b], req[p].write[b].leverage, req[p].write[b].limit) => req[p].code

\* Leaves the request q what it is about.
KeepsAsked(q) ==
  /\ req[q].stage = "update" /\ req'[q].on = req[q].on /\ req'[q].loaded = req[q].loaded
  /\ req'[q].write = req[q].write /\ req'[q].code = req[q].code

LEMMA AskedKept ==
  ASSUME CodesWereAsked, \A q \in Requests : req'[q].stage = "update" => KeepsAsked(q)
  PROVE  CodesWereAsked'
  BY DEF CodesWereAsked, KeepsAsked, Loosens

LEMMA NotifiedCode ==
  ASSUME TypeOK, NEW q \in Requests, NEW S \in SUBSET Bots
  PROVE  Notified(q, S).code = req[q].code
<1>1. req[q] \in Request
  BY DEF TypeOK
<1> QED  BY <1>1 DEF Notified, Request

LEMMA AnnouncedAsked ==
  ASSUME TypeOK, CodesWereAsked, Announces
  PROVE  CodesWereAsked'
<1> DEFINE S == {b \in Bots : rows'[b] # rows[b]}
<1>1. S \in SUBSET Bots
  OBVIOUS
<1>2. \A q \in Requests : req'[q] = Idle \/ req'[q] = Notified(q, S)
  BY DEF Announces
<1> HIDE DEF S
<1>3. \A q \in Requests : req'[q].stage = "update" => KeepsAsked(q)
  BY <1>1, <1>2, NotifiedFields, NotifiedCode DEF KeepsAsked, Idle
<1> QED  BY <1>3, AskedKept

LEMMA LoadAsked ==
  ASSUME TypeOK, CodesWereAsked, NEW p \in Requests, NEW stage \in Stages, NEW S \in SUBSET Bots,
         NEW w, NEW code \in BOOLEAN, Load(p, stage, S, w, code),
         stage = "update" =>
           \A b \in S : Loosens(rows[b], w[b].leverage, w[b].limit) => code
  PROVE  CodesWereAsked'
<1>1. \A q \in Requests : q # p => req'[q] = req[q]
  BY DEF Load, TypeOK
<1>2. /\ req'[p].stage = stage /\ req'[p].on = S /\ req'[p].code = code
      /\ \A b \in S : req'[p].loaded[b] = rows[b] /\ req'[p].write[b] = w[b]
  BY DEF Load, TypeOK
<1> SUFFICES ASSUME NEW q \in Requests, req'[q].stage = "update", NEW b \in req'[q].on,
                    Loosens(req'[q].loaded[b], req'[q].write[b].leverage, req'[q].write[b].limit)
             PROVE  req'[q].code
  BY DEF CodesWereAsked, Loosens
<1>3. CASE q # p
  BY <1>1, <1>3 DEF CodesWereAsked
<1>4. CASE q = p
  BY <1>2, <1>4
<1> QED  BY <1>3, <1>4

LEMMA AskedStep == IInv /\ CodesWereAsked /\ [Next]_vars => CodesWereAsked'
<1> SUFFICES ASSUME IInv, CodesWereAsked, [Next]_vars PROVE CodesWereAsked'
  OBVIOUS
<1>0. TypeOK
  BY DEF IInv
<1>1. CASE UNCHANGED vars
  BY <1>1 DEF vars, CodesWereAsked
<1>2. ASSUME NEW p \in Requests, Handler(p)
      PROVE  CodesWereAsked'
  <2>1. CASE UpdateLoad(p)
    <3>1. PICK b \in Bots, leverage \in Leverages, limit \in Leverages, code \in BOOLEAN :
            /\ Loosens(rows[b], leverage, limit) => code
            /\ Load(p, "update", {b}, [rows EXCEPT ![b].leverage = leverage, ![b].limit = limit], code)
      BY <2>1 DEF UpdateLoad
    <3> DEFINE w == [rows EXCEPT ![b].leverage = leverage, ![b].limit = limit]
    <3>2. w[b].leverage = leverage /\ w[b].limit = limit
      BY <1>0 DEF TypeOK, Row
    <3>3. "update" \in Stages /\ {b} \in SUBSET Bots
      BY DEF Stages
    <3> HIDE DEF w
    <3>4. Load(p, "update", {b}, w, code)
      BY <3>1 DEF w
    <3> QED  BY <1>0, <3>1, <3>2, <3>3, <3>4, LoadAsked
  <2>2. ASSUME NEW stage \in Stages \ {"update"}, NEW S \in SUBSET Bots, NEW w, NEW code \in BOOLEAN,
               Load(p, stage, S, w, code)
        PROVE  CodesWereAsked'
    BY <1>0, <2>2, LoadAsked
  <2>3. CASE DeleteLoad(p) \/ ArmLoad(p) \/ StopLoad(p) \/ ClearLoad(p)
    <3>1. {"delete", "arm_venue", "stop", "clear"} \subseteq Stages \ {"update"}
      BY DEF Stages
    <3> QED  BY <2>2, <2>3, <3>1 DEF DeleteLoad, ArmLoad, StopLoad, ClearLoad
  <2>4. CASE KillLoad(p)
    <3>1. "kill" \in Stages \ {"update"}
      BY DEF Stages
    <3> QED  BY <2>2, <2>4, <3>1 DEF KillLoad
  <2>5. CASE \E next : CommitRows(p, next)
    BY <1>0, <2>5, CommitAnnounces, AnnouncedAsked
  <2>6. CASE UpdateCommit(p) \/ DeleteCommit(p) \/ ArmCommit(p) \/ StopCommit(p) \/ ClearCommit(p)
             \/ KillCommit(p)
    BY <2>5, <2>6 DEF UpdateCommit, DeleteCommit, ArmCommit, StopCommit, ClearCommit, KillCommit, Update
  <2>7. CASE DeleteStrategy(p)
    BY <1>0, <2>7, DeleteStrategyAnnounces, AnnouncedAsked
  <2>8. CASE CreateBot(p)
    BY <2>8 DEF CreateBot, CodesWereAsked
  <2>9. CASE Rollback(p)
    <3>1. \A q \in Requests : req'[q] = req[q] \/ req'[q] = Idle
      BY <1>0, <2>9 DEF Rollback, TypeOK
    <3> QED  BY <3>1, AskedKept DEF KeepsAsked, Idle
  <2>10. CASE ArmPreflight(p) \/ Abort(p)
    <3>1. CASE req' = [req EXCEPT ![p].stage = "arm_commit", ![p].since = {}]
      <4>1. req'[p].stage = "arm_commit" /\ \A q \in Requests : q # p => req'[q] = req[q]
        BY <1>0, <3>1 DEF TypeOK, Request
      <4> QED  BY <4>1, AskedKept DEF KeepsAsked
    <3> QED  BY <2>9, <2>10, <3>1 DEF ArmPreflight, Abort
  <2> QED  BY <1>2, <2>1, <2>3, <2>4, <2>6, <2>7, <2>8, <2>10 DEF Handler
<1> QED  BY <1>1, <1>2 DEF Next

LEMMA AskedInit == Init => CodesWereAsked
  BY DEF Init, Idle, CodesWereAsked

\* An update is what raises the leverage or the limit of a bot that is there.
LEMMA LooseningStep ==
  ASSUME IInv, CodesWereAsked, Next, NEW b \in Bots, rows[b].state \in States,
         rows'[b].limit > rows[b].limit \/ rows'[b].leverage > rows[b].leverage
  PROVE  \E p \in Requests : /\ req[p].stage = "update" /\ b \in req[p].on
                             /\ req[p].code \/ b \in req[p].outdated
                             /\ req'[p].stage = "idle"
<1>0. rows \in [Bots -> Row] /\ rows[b] \in Row /\ rows[b].limit \in Nat /\ rows[b].leverage \in Nat
  BY LeveragesAssumption DEF IInv, TypeOK, Row
<1>1. PICK p \in Requests : Handler(p)
  BY DEF Next
<1>2. ~(UNCHANGED rows)
  BY <1>0
<1>3. ~CreateBot(p)
  <2> SUFFICES ASSUME CreateBot(p) PROVE FALSE
    OBVIOUS
  <2>1. PICK c \in Bots : rows[c].state = "unborn" /\ \A d \in Bots : d # c => rows'[d] = rows[d]
    BY <1>0 DEF CreateBot
  <2> QED  BY <1>0, <2>1 DEF States
<1>4. ASSUME NEW S \in SUBSET Bots
      PROVE  Removed(S)[b].limit = rows[b].limit /\ Removed(S)[b].leverage = rows[b].leverage
  BY <1>0 DEF Removed, Row
<1>5. ~DeleteStrategy(p)
  <2> SUFFICES ASSUME DeleteStrategy(p) PROVE FALSE
    OBVIOUS
  <2>1. PICK c \in Bots : rows' = Removed({d \in Bots : Strategy[d] = Strategy[c]})
    BY DEF DeleteStrategy
  <2> DEFINE S == {d \in Bots : Strategy[d] = Strategy[c]}
  <2>2. S \in SUBSET Bots /\ rows' = Removed(S)
    BY <2>1
  <2> HIDE DEF S
  <2> QED  BY <1>0, <1>4, <2>2
<1>6. ~DeleteCommit(p)
  <2> SUFFICES ASSUME DeleteCommit(p) PROVE FALSE
    OBVIOUS
  <2>1. rows' = Removed(req[p].on) /\ req[p].on \in SUBSET Bots
    BY DEF DeleteCommit, CommitRows, IInv, TypeOK, Request
  <2> QED  BY <1>0, <1>4, <2>1
<1>7. ~(UpdateLoad(p) \/ DeleteLoad(p) \/ ArmLoad(p) \/ StopLoad(p) \/ ClearLoad(p) \/ KillLoad(p))
  BY <1>2 DEF UpdateLoad, DeleteLoad, ArmLoad, StopLoad, ClearLoad, KillLoad, Load
<1>8. ~(ArmPreflight(p) \/ Abort(p))
  BY <1>2 DEF ArmPreflight, Abort, Rollback
<1>9. Update(p) /\ req[p].stage \in Writers
  BY <1>1, <1>3, <1>5, <1>6, <1>7, <1>8
     DEF Handler, UpdateCommit, ArmCommit, StopCommit, ClearCommit, KillCommit, Writers
<1> DEFINE old == req[p].loaded[b]
           new == req[p].write[b]
<1>10. old \in Row /\ new \in Row
  BY DEF IInv, TypeOK, Request
<1>11. b \in req[p].on /\ rows'[b] = Merged(rows[b], old, new)
  <2>1. rows'[b] = IF b \in req[p].on THEN Merged(rows[b], old, new) ELSE rows[b]
    BY <1>9 DEF Update, CommitRows
  <2> QED  BY <1>0, <2>1
<1>12. /\ rows'[b].limit = Column(rows[b].limit, old.limit, new.limit)
       /\ rows'[b].leverage = Column(rows[b].leverage, old.leverage, new.leverage)
  BY <1>11 DEF Merged, States, Missing
<1>13. new.limit # old.limit \/ new.leverage # old.leverage
  BY <1>0, <1>12 DEF Column
<1>14. req[p].stage = "update"
  <2>1. Intends(req[p].stage, old, new)
    BY <1>9, <1>11 DEF IInv, CopiesAreIntended, Writers
  <2> QED  BY <1>9, <1>10, <1>13, <2>1 DEF Intends, Row, Writers
<1>15. req[p].code \/ b \in req[p].outdated
  <2> SUFFICES ASSUME b \notin req[p].outdated PROVE req[p].code
    OBVIOUS
  <2>1. old = rows[b]
    BY <1>11, <1>14 DEF IInv, CopiesAreFresh
  <2>2. Loosens(old, new.leverage, new.limit)
    BY <1>0, <1>12, <2>1 DEF Column, Loosens
  <2> QED  BY <1>11, <1>14, <2>2 DEF CodesWereAsked
<1>16. req'[p].stage = "idle"
  BY <1>9 DEF Update, CommitRows, Idle
<1> QED  BY <1>11, <1>14, <1>15, <1>16

(* Raising the leverage or a limit takes a second factor, whichever        *)
(* requests are in flight, unless it overwrites a change it has not seen.  *)
THEOREM LooseningNeedsCodeHolds == Spec => LooseningNeedsCode
<1> DEFINE Asks ==
      \A b \in Bots :
        /\ rows[b].state \in States
        /\ rows'[b].limit > rows[b].limit \/ rows'[b].leverage > rows[b].leverage
        => \E p \in Requests : /\ req[p].stage = "update" /\ b \in req[p].on
                               /\ req[p].code \/ b \in req[p].outdated
                               /\ req'[p].stage = "idle"
<1>1. IInv /\ CodesWereAsked /\ [Next]_vars => [Asks]_rows
  BY LooseningStep DEF vars
<1> HIDE DEF Asks
<1>2. Spec => [][Asks]_rows
  BY <1>1, Inductive, AskedInit, AskedStep, PTL DEF Spec
<1> QED  BY <1>2 DEF LooseningNeedsCode, Asks
=============================================================================
