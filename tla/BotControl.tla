----------------------------- MODULE BotControl -----------------------------
(***************************************************************************)
(* The bot routes: what each HTTP handler reads from the bots table, what  *)
(* it decides from its copy, and what it writes back when it commits.      *)
(*                                                                         *)
(* Every request runs in a database session of its own with autoflush and  *)
(* expire_on_commit off, at READ COMMITTED, with no row lock and no version *)
(* column.  So a handler loads a row once, decides from that copy however  *)
(* long it then waits, and at commit writes exactly the columns whose value *)
(* differs from the copy it loaded.  A handler is therefore two actions or *)
(* more: the load (with the checks made on the copy), and the commit.      *)
(*                                                                         *)
(* The five risk limits of a row behave alike here and are one number,     *)
(* `limit`, which is also the max_leverage that pre-flight compares the    *)
(* leverage with.  The risk memory an arm writes is in RiskMemory, and the *)
(* orders a kill sends are in BotExecution.                                *)
(***************************************************************************)
EXTENDS Naturals, FiniteSets

CONSTANTS
  Bots,          \* one user's bots, existing or to be created
  Requests,      \* request slots: how many handlers may be in flight at once
  Leverages,     \* the leverages and limits a bot may be given
  Market,        \* Market[b]: the exchange key and symbol bot b trades
  Strategy,      \* Strategy[b]: the strategy whose setup bot b trades
  Hedged,        \* the bots set up for hedge mode
  MaxStarted     \* bound: requests started in one behaviour

ASSUME LeveragesAssumption == Leverages \subseteq Nat /\ Leverages # {}
ASSUME MaxStartedAssumption == MaxStarted \in Nat

VARIABLES
  rows,          \* rows[b]: the committed row, or why there is none
  req,           \* req[p]: the handler in flight in slot p
  started,       \* how many requests have been started
  overwritten,   \* history: bots whose row was written from an outdated copy
  unseen         \* history: unseen[b], bots changed between the pre-flight
                 \* query and the commit that last armed b

vars == <<rows, req, started, overwritten, unseen>>

-----------------------------------------------------------------------------
(* Rows and requests.                                                      *)

(* BOT_STATES, and the two states of a row that is not there.              *)
States == {"stopped", "armed", "running", "halted"}
Missing == {"unborn", "deleted"}
Reasons == {"none", "kill_switch"}

(* haltReason stands for halt_reason and halt_detail, which are set and    *)
(* cleared together.  armed_at and halted_at are only shown.               *)
Row == [state : States \cup Missing, haltReason : Reasons,
        leverage : Leverages, limit : Leverages]

NewRow(state, leverage, limit) ==
  [state |-> state, haltReason |-> "none", leverage |-> leverage, limit |-> limit]

NoRow == LET any == CHOOSE v \in Leverages : TRUE IN NewRow("unborn", any, any)

Exists(b) == rows[b].state \in States

AtWork == {"armed", "running"}

Stages == {"idle", "stop", "clear", "update", "delete", "kill",
           "arm_venue", "arm_commit"}

(* loaded: the rows as this request read them.  write: the rows as it will *)
(* leave them.  code: whether it carried a valid second factor.  outdated: *)
(* bots changed by others since this request read them.  since: bots       *)
(* changed since this arm's pre-flight query.                              *)
Request == [stage : Stages, on : SUBSET Bots, loaded : [Bots -> Row],
            write : [Bots -> Row], code : BOOLEAN,
            outdated : SUBSET Bots, since : SUBSET Bots]

Idle == [stage |-> "idle", on |-> {}, loaded |-> [b \in Bots |-> NoRow],
         write |-> [b \in Bots |-> NoRow], code |-> FALSE,
         outdated |-> {}, since |-> {}]

TypeOK ==
  /\ rows \in [Bots -> Row]
  /\ req \in [Requests -> Request]
  /\ started \in 0..MaxStarted
  /\ overwritten \subseteq Bots
  /\ unseen \in [Bots -> SUBSET Bots]

Init ==
  /\ rows \in [Bots -> {NoRow} \cup {NewRow("stopped", v, m) : v \in Leverages, m \in Leverages}]
  /\ req = [p \in Requests |-> Idle]
  /\ started = 0
  /\ overwritten = {}
  /\ unseen = [b \in Bots |-> {}]

-----------------------------------------------------------------------------
(* Sessions.                                                               *)

(* A request reads the rows of S and will write them as w.                 *)
Load(p, stage, S, w, code) ==
  /\ req[p].stage = "idle"
  /\ started < MaxStarted
  /\ started' = started + 1
  /\ req' = [req EXCEPT ![p] =
       [stage |-> stage, on |-> S,
        loaded |-> [b \in Bots |-> IF b \in S THEN rows[b] ELSE NoRow],
        write |-> [b \in Bots |-> IF b \in S THEN w[b] ELSE NoRow],
        code |-> code, outdated |-> {}, since |-> {}]]
  /\ UNCHANGED <<rows, overwritten, unseen>>

(* One column: written only if it differs from the copy that was loaded.   *)
Column(now, old, new) == IF new = old THEN now ELSE new

(* The row an UPDATE leaves: the dirty columns of the copy over the row as *)
(* it stands now.  A row deleted in the meantime stays deleted.            *)
Merged(now, old, new) ==
  IF now.state \in Missing THEN now
  ELSE [state |-> Column(now.state, old.state, new.state),
        haltReason |-> Column(now.haltReason, old.haltReason, new.haltReason),
        leverage |-> Column(now.leverage, old.leverage, new.leverage),
        limit |-> Column(now.limit, old.limit, new.limit)]

(* A request in flight now holds an outdated copy of the rows of S.        *)
Notified(q, S) ==
  IF req[q].stage = "idle" THEN req[q]
  ELSE [req[q] EXCEPT !.outdated = @ \cup S, !.since = @ \cup S]

(* The rows change to next and request p is over.                          *)
CommitRows(p, next) ==
  LET changed == {b \in Bots : next[b] # rows[b]} IN
  /\ rows' = next
  /\ req' = [q \in Requests |-> IF q = p THEN Idle ELSE Notified(q, changed)]
  /\ overwritten' = overwritten \cup (changed \cap req[p].outdated)
  /\ UNCHANGED started

Update(p) ==
  CommitRows(p, [b \in Bots |->
    IF b \in req[p].on
      THEN Merged(rows[b], req[p].loaded[b], req[p].write[b])
      ELSE rows[b]])

(* get_db rolls back on any exception: the request ends and nothing it set *)
(* on its copies reaches the table.                                        *)
Rollback(p) ==
  /\ req' = [req EXCEPT ![p] = Idle]
  /\ UNCHANGED <<rows, started, overwritten, unseen>>

(* A refused, failed or disconnected request, at any point of its wait.    *)
Abort(p) ==
  /\ req[p].stage # "idle"
  /\ Rollback(p)

-----------------------------------------------------------------------------
(* create, update, delete.                                                 *)

(* The insert and its commit: nothing of the bots table is read first.     *)
CreateBot(p) ==
  \E b \in Bots, leverage \in Leverages, limit \in Leverages :
    /\ req[p].stage = "idle"
    /\ started < MaxStarted
    /\ rows[b].state = "unborn"
    /\ started' = started + 1
    /\ rows' = [rows EXCEPT ![b] = NewRow("stopped", leverage, limit)]
    /\ UNCHANGED <<req, overwritten, unseen>>

(* Mutant: the leverage is not compared.                                   *)
LoosensLimitOnly(row, leverage, limit) == limit > row.limit

(* Raising a limit or the leverage above the loaded value needs a code.    *)
Loosens(row, leverage, limit) == limit > row.limit \/ leverage > row.leverage

UpdateLoad(p) ==
  \E b \in Bots, leverage \in Leverages, limit \in Leverages, code \in BOOLEAN :
    /\ Exists(b)
    /\ rows[b].state \notin AtWork
    /\ Loosens(rows[b], leverage, limit) => code
    /\ Load(p, "update", {b},
            [rows EXCEPT ![b].leverage = leverage, ![b].limit = limit], code)

UpdateCommit(p) ==
  /\ req[p].stage = "update"
  /\ \A b \in req[p].on : Exists(b)
  /\ Update(p)
  /\ UNCHANGED unseen

DeleteLoad(p) ==
  \E b \in Bots :
    /\ Exists(b)
    /\ rows[b].state \notin AtWork
    /\ Load(p, "delete", {b}, rows, FALSE)

Removed(S) == [b \in Bots |-> IF b \in S /\ Exists(b)
                                THEN [rows[b] EXCEPT !.state = "deleted"] ELSE rows[b]]

(* DELETE by primary key: it removes the row whatever it holds by now.     *)
DeleteCommit(p) ==
  /\ req[p].stage = "delete"
  /\ CommitRows(p, Removed(req[p].on))
  /\ UNCHANGED unseen

(* Deleting a strategy deletes its setups and their bots by cascade,       *)
(* whatever state the bots are in.                                         *)
DeleteStrategy(p) ==
  \E b \in Bots :
    /\ req[p].stage = "idle"
    /\ started < MaxStarted
    /\ started' = started + 1
    /\ Exists(b)
    /\ LET next == Removed({c \in Bots : Strategy[c] = Strategy[b]})
           changed == {c \in Bots : next[c] # rows[c]} IN
       /\ rows' = next
       /\ req' = [q \in Requests |-> Notified(q, changed)]
    /\ UNCHANGED <<overwritten, unseen>>

-----------------------------------------------------------------------------
(* arm, stop, clear-halt.                                                  *)

(* Mutant: arming a halted bot is not refused.                             *)
ArmLoadEvenHalted(p) ==
  \E b \in Bots :
    /\ Exists(b)
    /\ Load(p, "arm_venue", {b}, [rows EXCEPT ![b].state = "armed"], TRUE)

(* The copy must not be halted; the code has been checked.                 *)
ArmLoad(p) ==
  \E b \in Bots :
    /\ Exists(b)
    /\ rows[b].state # "halted"
    /\ Load(p, "arm_venue", {b},
            [rows EXCEPT ![b].state = "armed"], TRUE)

(* Other bots of the same key and symbol at work now, by a fresh query.    *)
Clash(b) ==
  {c \in Bots \ {b} : Exists(c) /\ rows[c].state \in AtWork /\ Market[c] = Market[b]}

(* Mutants: pre-flight without its symbol check, and without its leverage  *)
(* check.                                                                  *)
ReadyOnAnySymbol(p, b, otherChecks) ==
  otherChecks /\ req[p].loaded[b].leverage <= req[p].loaded[b].limit

ReadyAtAnyLeverage(p, b, otherChecks) ==
  otherChecks /\ (b \in Hedged \/ Clash(b) = {})

(* The checks made on what a session holds: the symbol check on the query  *)
(* just made, the leverage check on the copy.  The rest (paper, key, IP,   *)
(* 2FA, account mode, limits against equity) are facts about other tables  *)
(* and the venue, and an unreachable venue fails them.                     *)
Ready(p, b, otherChecks) ==
  /\ otherChecks
  /\ b \in Hedged \/ Clash(b) = {}
  /\ req[p].loaded[b].leverage <= req[p].loaded[b].limit

(* The venue answered (which commits the session, not the copy of the bot) *)
(* and pre-flight ran.                                                     *)
ArmPreflight(p) ==
  /\ req[p].stage = "arm_venue"
  /\ \E otherChecks \in BOOLEAN :
       IF \A b \in req[p].on : Ready(p, b, otherChecks)
         THEN /\ req' = [req EXCEPT ![p].stage = "arm_commit", ![p].since = {}]
              /\ UNCHANGED <<rows, started, overwritten, unseen>>
         ELSE Rollback(p)

ArmCommit(p) ==
  /\ req[p].stage = "arm_commit"
  /\ \A b \in req[p].on : Exists(b)
  /\ Update(p)
  /\ unseen' = [b \in Bots |->
       IF /\ b \in req[p].on
          /\ rows[b].state # "armed"
          /\ req[p].loaded[b].state # "armed"
         THEN req[p].since ELSE unseen[b]]

StopLoad(p) ==
  \E b \in Bots :
    /\ Exists(b)
    /\ Load(p, "stop", {b}, [rows EXCEPT ![b].state = "stopped"], FALSE)

StopCommit(p) ==
  /\ req[p].stage = "stop"
  /\ \A b \in req[p].on : Exists(b)
  /\ Update(p)
  /\ UNCHANGED unseen

ClearLoad(p) ==
  \E b \in Bots :
    /\ Exists(b)
    /\ rows[b].state = "halted"
    /\ Load(p, "clear", {b},
            [rows EXCEPT ![b].state = "stopped", ![b].haltReason = "none"], FALSE)

ClearCommit(p) ==
  /\ req[p].stage = "clear"
  /\ \A b \in req[p].on : Exists(b)
  /\ Update(p)
  /\ UNCHANGED unseen

-----------------------------------------------------------------------------
(* The kill switch.                                                        *)

(* Mutants: a halt with no reason, one in a state the column does not      *)
(* have, and one that leaves the bots not at work alone.                   *)
HaltedSilently(row) == [row EXCEPT !.state = "halted"]

HaltedAsKilled(row) == [row EXCEPT !.state = "killed", !.haltReason = "kill_switch"]

HaltedIfAtWork(row) ==
  IF row.state \in AtWork THEN [row EXCEPT !.state = "halted", !.haltReason = "kill_switch"]
  ELSE row

Halted(row) == [row EXCEPT !.state = "halted", !.haltReason = "kill_switch"]

(* One SELECT of every bot; the halts are made on the copies, and then the *)
(* request waits for the venue to cancel and close everything.             *)
KillLoad(p) ==
  Load(p, "kill", {b \in Bots : Exists(b)}, [b \in Bots |-> Halted(rows[b])], TRUE)

(* The flattening is over, whatever came of it, and the halts are written. *)
(* If a loaded bot was deleted meanwhile the session may refuse to commit  *)
(* (a row count that does not match), which is an Abort.                   *)
KillCommit(p) ==
  /\ req[p].stage = "kill"
  /\ Update(p)
  /\ UNCHANGED unseen

-----------------------------------------------------------------------------
Handler(p) ==
  \/ CreateBot(p)
  \/ UpdateLoad(p) \/ UpdateCommit(p)
  \/ DeleteLoad(p) \/ DeleteCommit(p) \/ DeleteStrategy(p)
  \/ ArmLoad(p) \/ ArmPreflight(p) \/ ArmCommit(p)
  \/ StopLoad(p) \/ StopCommit(p)
  \/ ClearLoad(p) \/ ClearCommit(p)
  \/ KillLoad(p) \/ KillCommit(p)
  \/ Abort(p)

Next == \E p \in Requests : Handler(p)

Spec == Init /\ [][Next]_vars

-----------------------------------------------------------------------------
(* What the routes guarantee although their copies may be outdated.        *)

(* The state of each bot, as BotLifecycle sees it. *)
Life == [b \in Bots |-> IF b \in overwritten THEN "overwritten" ELSE rows[b].state]

Promise == INSTANCE BotLifecycle WITH life <- Life

(* The routes implement the lifecycle: until a bot's row is written from an *)
(* outdated copy, a halt is left only by clear, stop or deletion and never  *)
(* for armed, and only a stopped bot is armed.                              *)
KeepsLifecycle == Promise!Spec

(* Two one-way bots on one key and symbol are at work together only if the  *)
(* pre-flight query of the one armed last ran before the other was armed:   *)
(* execution.py says that the second is refused at arming.                  *)
OneWayExclusive ==
  \A b, c \in Bots \ Hedged :
    /\ b # c /\ Market[b] = Market[c]
    /\ rows[b].state \in AtWork /\ rows[c].state \in AtWork
    => b \in unseen[c] \/ c \in unseen[b]

(* A bot at work has a leverage within its own limit, as pre-flight        *)
(* requires, unless some write to its row came from an outdated copy.      *)
ArmedWithinLimit ==
  \A b \in Bots \ overwritten : rows[b].state \in AtWork => rows[b].leverage <= rows[b].limit

(* SECURITY.md: "A halt carries its reason".  It does, unless the halt was *)
(* written from an outdated copy, which may leave the reason out.          *)
HaltCarriesItsReason ==
  \A b \in Bots \ overwritten : rows[b].state = "halted" => rows[b].haltReason # "none"

(* Raising the leverage or a limit takes a second factor, whichever        *)
(* requests are in flight, unless it overwrites a change it has not seen.  *)
LooseningNeedsCode ==
  [][\A b \in Bots :
       /\ rows[b].state \in States
       /\ rows'[b].limit > rows[b].limit \/ rows'[b].leverage > rows[b].leverage
       => \E p \in Requests : /\ req[p].stage = "update" /\ b \in req[p].on
                              /\ req[p].code \/ b \in req[p].outdated
                              /\ req'[p].stage = "idle"]_rows

(* When the kill switch commits, every bot it found not halted is halted,  *)
(* whatever else happened to it meanwhile, and so is every other bot of    *)
(* its list that nobody touched.                                           *)
KillHalts ==
  [][\A p \in Requests : KillCommit(p) =>
       \A b \in req[p].on :
         rows[b].state \in States
         => \/ rows'[b].state = "halted"
            \/ req[p].loaded[b].state = "halted" /\ b \in req[p].outdated]_vars

(* SPEC 3.5 and SECURITY.md: a halt is cleared only by a person, and never *)
(* straight to armed.                                                      *)
OnlyAPersonClearsAHalt ==
  [][\A b \in Bots : rows[b].state = "halted" => rows'[b].state # "armed"]_rows

(* The routes refuse to delete a bot at work ("Stop the bot before         *)
(* deleting it").                                                          *)
NoBotIsDeletedAtWork ==
  [][\A b \in Bots : rows[b].state \in AtWork => rows'[b].state # "deleted"]_rows

-----------------------------------------------------------------------------
(* Why those invariants hold: what is true of the requests in flight.      *)

(* No code sets running.                                                   *)
NoneRuns == \A b \in Bots : rows[b].state # "running"

(* A copy that is not outdated is the row.                                 *)
CopiesAreFresh ==
  \A p \in Requests : req[p].stage # "idle" =>
    \A b \in req[p].on \ req[p].outdated : req[p].loaded[b] = rows[b]

(* What a request in stage s that loaded a row as old will write.          *)
Intends(s, old, new) ==
  /\ old.state \in {"stopped", "armed", "halted"}
  /\ s = "update" => /\ old.state # "armed"
                     /\ new.state = old.state /\ new.haltReason = old.haltReason
  /\ s = "delete" => old.state # "armed"
  /\ s \in {"arm_venue", "arm_commit"} =>
       old.state # "halted" /\ new = [old EXCEPT !.state = "armed"]
  /\ s = "arm_commit" => old.leverage <= old.limit
  /\ s = "stop" => new = [old EXCEPT !.state = "stopped"]
  /\ s = "clear" => /\ old.state = "halted"
                    /\ new = [old EXCEPT !.state = "stopped", !.haltReason = "none"]
  /\ s = "kill" => new = [old EXCEPT !.state = "halted", !.haltReason = "kill_switch"]

CopiesAreIntended ==
  \A p \in Requests : req[p].stage # "idle" =>
    \A b \in req[p].on : Intends(req[p].stage, req[p].loaded[b], req[p].write[b])

(* An arm is of one bot.                                                   *)
ArmsAreSingle ==
  \A p \in Requests : req[p].stage \in {"arm_venue", "arm_commit"} =>
    \A b, c \in req[p].on : b = c

(* An arm past its pre-flight clashes only with bots that changed since.   *)
ClashesAreNoted ==
  \A p \in Requests : req[p].stage = "arm_commit" =>
    \A b \in req[p].on \ Hedged : Clash(b) \subseteq req[p].since

IInv ==
  /\ TypeOK
  /\ NoneRuns
  /\ CopiesAreFresh
  /\ CopiesAreIntended
  /\ ArmsAreSingle
  /\ ClashesAreNoted
  /\ OneWayExclusive
  /\ ArmedWithinLimit
  /\ HaltCarriesItsReason
=============================================================================
