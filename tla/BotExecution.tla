---------------------------- MODULE BotExecution ----------------------------
(***************************************************************************)
(* A bot's orders between the execution service and the venue: a signal is *)
(* risk-checked and sent, the venue gets the order late or not at all, the *)
(* answer is lost or times out, the process crashes and the signal is      *)
(* replayed, and the kill switch cancels and closes underneath all of it.  *)
(*                                                                         *)
(* The venue is SimVenue's account; the loss of requests and answers, and  *)
(* the errors, are those the Bitunix client tells apart.  The process that *)
(* feeds signals to place() and follows an uncertain one with resolve()    *)
(* and reconcile() is not in the repository: it is modelled as the         *)
(* execution service's docstrings and its tests use the service, one       *)
(* signal at a time.                                                       *)
(***************************************************************************)
EXTENDS Integers, Sequences, FiniteSets, SimVenue

CONSTANTS
  Script,        \* the bot's signals in order: [side, qty, type, reduceOnly]
  Kills,         \* kill-switch requests
  KillSecond,    \* KillSecond[k]: the second in which kill k names its orders
  PositionLimit, \* max_position_notional, at a price of one
  Rate,          \* max_orders_per_minute
  Minute,        \* ticks in a minute
  Reentries,     \* bound: how often each signal is entered again after rejections
  MaxClock,      \* bound: the last tick
  MaxSends       \* bound: orders sent over the wire

ASSUME ScriptAssumption ==
  Script \in Seq([side : Sides, qty : Nat, type : {"MARKET", "LIMIT"}, reduceOnly : BOOLEAN])
ASSUME KillsAssumption == "bot" \notin Kills /\ KillSecond \in [Kills -> Nat]
ASSUME LimitsAssumption == PositionLimit \in Nat /\ Rate \in Nat /\ Minute \in Nat \ {0}
ASSUME BoundsAssumption ==
  Reentries \in [DOMAIN Script -> Nat] /\ MaxClock \in Nat /\ MaxSends \in Nat

Risk == INSTANCE RiskGuard WITH Day <- MaxClock + 1

VARIABLES
  account,       \* the account at the venue
  wire,          \* order requests on their way to the venue
  answers,       \* answers on their way back
  sends,         \* how many requests were sent; each has its number
  bot,           \* the bot's process
  recent,        \* the guard's memory of recent orders
  kill,          \* kill[k]: the kill-switch request k
  clock,
  opened,        \* history: when opening orders were answered, since a crash
  blind,         \* history: an opening order was checked while another one was
                 \* on the wire or resting
  stray          \* history: a close that rested has opened a position

vars == <<account, wire, answers, sends, bot, recent, kill, clock, opened, blind, stray>>
history == <<opened, blind, stray>>

-----------------------------------------------------------------------------
(* Requests.                                                               *)

Limits == [position |-> PositionLimit, rate |-> Rate, leverage |-> 1,
           dailyLoss |-> 1, drawdown |-> 1]

(* Mutant: the id of a close does not say which position it closes.        *)
FlattenIdOfSecond(k, index) == <<"flatten", KillSecond[k], 0>>

(* Mutant: the id is that of the request and not of the signal.            *)
SignalIdOfRequest(s, attempt) == <<"signal", s, sends>>

(* client_id_for: derived from what the order is for, never random.  A     *)
(* signal is a bar and a purpose, `attempt' a re-entry after a rejection.  *)
SignalId(s, attempt) == <<"signal", s, attempt>>
FlattenId(k, index) == <<"flatten", KillSecond[k], index>>

(* One-way mode sends no trade side.                                       *)
TradeSide(reduceOnly) ==
  IF account.mode = "ONE_WAY" THEN "none" ELSE IF reduceOnly THEN "CLOSE" ELSE "OPEN"

SignalRequest(s, attempt) ==
  [client |-> SignalId(s, attempt), side |-> Script[s].side, qty |-> Script[s].qty,
   type |-> Script[s].type, reduceOnly |-> Script[s].reduceOnly,
   tradeSide |-> TradeSide(Script[s].reduceOnly)]

(* A close of the whole of a position as it was read.                      *)
FlattenRequest(k, index, position) ==
  [client |-> FlattenId(k, index), side |-> Opposite(position.side), qty |-> position.qty,
   type |-> "MARKET", reduceOnly |-> TRUE, tradeSide |-> TradeSide(TRUE)]

Callers == {"bot"} \cup Kills
Clients == {"signal", "flatten"} \X Nat \X Nat
Requests == [client : Clients, side : Sides, qty : Nat, type : {"MARKET", "LIMIT"},
             reduceOnly : BOOLEAN, tradeSide : {"none", "OPEN", "CLOSE"}]
Numbers == 0..MaxSends
Book == [side : Sides, qty : Nat]

(* Answers: an order, whatever became of it, or a refusal that is marked   *)
(* retryable (429).                                                        *)
Replies == {"order", "retryable"}

BotStages == {"idle", "sent", "unsure", "reconcile"}
KillStages == {"idle", "read", "close", "wait", "finished", "committed"}

TypeOK ==
  /\ account \in [mode : Modes, books : [Keys -> Book],
                  orders : Seq([request : Requests, status : OrderStatuses])]
  /\ wire \subseteq [n : Numbers, from : Callers, request : Requests]
  /\ answers \subseteq [n : Numbers, reply : Replies]
  /\ sends \in Numbers
  /\ bot \in [stage : BotStages, at : 1..Len(Script) + 1, attempt : Nat,
             n : Numbers, armed : BOOLEAN]
  /\ recent \in Seq(0..MaxClock) /\ opened \in Seq(0..MaxClock)
  /\ kill \in [Kills -> [stage : KillStages, todo : Seq(Book), index : Nat, n : Numbers,
                         failed : BOOLEAN, alone : BOOLEAN]]
  /\ clock \in 0..MaxClock
  /\ blind \in BOOLEAN /\ stray \in BOOLEAN

(* todo: the positions still to close; failed: a failure was reported;     *)
(* alone: history, no other order reached the venue since the cancel.      *)
KillIdle == [stage |-> "idle", todo |-> <<>>, index |-> 0, n |-> 0,
             failed |-> FALSE, alone |-> TRUE]

Init ==
  /\ \E mode \in Modes : account = NewAccount(mode)
  /\ wire = {} /\ answers = {} /\ sends = 0
  /\ bot = [stage |-> "idle", at |-> 1, attempt |-> 0, n |-> 0, armed |-> TRUE]
  /\ recent = <<>>
  /\ kill = [k \in Kills |-> KillIdle]
  /\ clock \in 0..MaxClock
  /\ opened = <<>> /\ blind = FALSE /\ stray = FALSE

-----------------------------------------------------------------------------
(* The network and the venue.                                              *)

Send(from, request) ==
  /\ sends < MaxSends
  /\ sends' = sends + 1
  /\ wire' = wire \cup {[n |-> sends + 1, from |-> from, request |-> request]}

Waiting(m) ==
  IF m.from = "bot" THEN bot.stage = "sent" /\ bot.n = m.n
  ELSE kill[m.from].stage = "wait" /\ kill[m.from].n = m.n

(* A request reaches the venue, perhaps after its caller gave up on it.    *)
Deliver(m) ==
  /\ m \in wire
  /\ account' \in {PlaceOrder(account, m.request, crosses, marginEnough) :
                     crosses \in BOOLEAN, marginEnough \in BOOLEAN}
  /\ wire' = wire \ {m}
  /\ answers' = IF Waiting(m)
       THEN answers \cup {[n |-> m.n, reply |-> "order"]} ELSE answers
  /\ kill' = [k \in Kills |->
       IF m.from # k /\ account' # account /\ kill[k].stage \in {"read", "close", "wait"}
         THEN [kill[k] EXCEPT !.alone = FALSE] ELSE kill[k]]
  /\ UNCHANGED <<sends, bot, recent, clock, history>>

(* The request is not taken: the venue's rate limit refuses it, or it is    *)
(* lost or refused with any other error, of which a caller learns no more  *)
(* than by giving up first.                                                *)
Refuse(m) ==
  /\ m \in wire
  /\ wire' = wire \ {m}
  /\ answers' = IF Waiting(m) THEN answers \cup {[n |-> m.n, reply |-> "retryable"]} ELSE answers
  /\ UNCHANGED <<account, sends, bot, recent, kill, clock, history>>

(* A resting close opens a position when nothing is left to close.         *)
OpensUnasked(i) ==
  LET request == account.orders[i].request
  IN  Closing(request) /\ account.books[TargetKey(account.mode, request)].qty = 0

(* The market moves across a resting order.                                *)
RestingFills(i) ==
  /\ i \in OpenOrders(account)
  /\ account' = FillResting(account, i)
  /\ stray' = (stray \/ OpensUnasked(i))
  /\ UNCHANGED <<wire, answers, sends, bot, recent, kill, clock, opened, blind>>

Tick ==
  /\ clock < MaxClock
  /\ clock' = clock + 1
  /\ UNCHANGED <<account, wire, answers, sends, bot, recent, kill, history>>

-----------------------------------------------------------------------------
(* The bot.                                                                *)

Opening(request) == ~Closing(request)

(* Another opening order is resting, or may still arrive.                  *)
Outstanding(request) ==
  \/ \E m \in wire : Opening(m.request) /\ m.request.client # request.client
  \/ \E i \in OpenOrders(account) : Opening(account.orders[i].request)

(* The bot is done with the signal in hand.                                *)
Done == [bot EXCEPT !.stage = "idle", !.at = @ + 1, !.attempt = 0, !.n = 0]

Rejected(client) ==
  \E i \in DOMAIN account.orders :
    account.orders[i].request.client = client /\ account.orders[i].status = "REJECTED"

(* place(): the check, on the positions just read, and the send.           *)
Place(s) ==
  /\ bot.stage = "idle" /\ bot.armed
  /\ s = bot.at
  /\ \E damage \in {"ok", "daily_loss"} :
       LET request == SignalRequest(s, bot.attempt)
           order == [reduceOnly |-> request.reduceOnly, notional |-> request.qty]
           verdict == Risk!CheckOrder(Limits, order, damage, 1, recent, Held(account), clock)
       IN IF verdict = "ok"
            THEN /\ Send("bot", request)
                 /\ bot' = [bot EXCEPT !.stage = "sent", !.n = sends + 1]
                 /\ blind' = (blind \/ (Opening(request) /\ Outstanding(request)))
            ELSE /\ bot' = [Done EXCEPT !.armed = verdict \notin Risk!Halting]
                 /\ UNCHANGED <<wire, sends, blind>>
  /\ UNCHANGED <<account, answers, recent, kill, clock, opened, stray>>

(* PLACED or REJECTED: the order is counted and the signal is done, or the *)
(* caller re-enters deliberately after the rejection.                      *)
BotAnswered ==
  /\ bot.stage = "sent"
  /\ \E a \in answers :
       /\ a.n = bot.n /\ a.reply = "order"
       /\ answers' = answers \ {a}
  /\ recent' = Risk!RecordOrder(recent, clock)
  /\ opened' = IF Script[bot.at].reduceOnly THEN opened ELSE Append(opened, clock)
  /\ \/ bot' = Done
     \/ /\ Rejected(SignalId(bot.at, bot.attempt)) /\ bot.attempt < Reentries[bot.at]
        /\ bot' = [bot EXCEPT !.stage = "idle", !.attempt = @ + 1, !.n = 0]
  /\ UNCHANGED <<account, wire, sends, kill, clock, blind, stray>>

(* FAILED: nothing was sent, so the caller may try again or move on.       *)
BotFailed ==
  /\ bot.stage = "sent"
  /\ \E a \in answers :
       /\ a.n = bot.n /\ a.reply = "retryable"
       /\ answers' = answers \ {a}
  /\ bot' \in {Done, [bot EXCEPT !.stage = "idle", !.n = 0]}
  /\ UNCHANGED <<account, wire, sends, recent, kill, clock, history>>

(* The bot stops waiting: an answer still on its way is never read.        *)
StopsWaiting == answers' = {a \in answers : bot.stage # "sent" \/ a.n # bot.n}

(* UNCERTAIN: an error that is not retryable, or a timeout.                *)
BotUncertain ==
  /\ bot.stage = "sent"
  /\ StopsWaiting
  /\ bot' = [bot EXCEPT !.stage = "unsure", !.n = 0]
  /\ UNCHANGED <<account, wire, sends, recent, kill, clock, history>>

(* resolve(): the order is among the open ones, or nobody knows.           *)
Resolve ==
  /\ bot.stage = "unsure"
  /\ \/ /\ \E i \in OpenOrders(account) : account.orders[i].request.client = SignalId(bot.at, bot.attempt)
        /\ bot' = Done
     \/ bot' = [bot EXCEPT !.stage = "reconcile"]      \* not found, or the call failed
  /\ UNCHANGED <<account, wire, answers, sends, recent, kill, clock, history>>

(* A difference worth halting for: a position nobody claims, or a claimed  *)
(* one that is gone.                                                       *)
Material(claimed, actual) == (claimed = 0) # (actual = 0)

(* The signed position of the symbol: of one of its books if there are two. *)
Actual ==
  IF Held(account) = 0 THEN {0}
  ELSE {Signed(account.books[k]) : k \in {b \in Keys : account.books[b].qty > 0}}

(* reconcile(), against whatever the caller's records claim (nothing, or   *)
(* something): a material difference halts the bot.                        *)
Reconcile ==
  /\ bot.stage = "reconcile" \/ (bot.stage = "idle" /\ bot.armed)
  /\ \E claimed \in {0, 1}, actual \in Actual :
       bot' = [(IF bot.stage = "reconcile" THEN Done ELSE bot)
                 EXCEPT !.armed = @ /\ ~Material(claimed, actual)]
  /\ UNCHANGED <<account, wire, answers, sends, recent, kill, clock, history>>

(* The process dies and is started again: the signal in hand comes again,  *)
(* as if for the first time, and the guard is rebuilt without its recent   *)
(* orders.                                                                 *)
Crash ==
  /\ bot.stage # "idle" \/ recent # <<>>
  /\ StopsWaiting
  /\ bot' = [bot EXCEPT !.stage = "idle", !.attempt = 0, !.n = 0]
  /\ recent' = <<>> /\ opened' = <<>>
  /\ UNCHANGED <<account, wire, sends, kill, clock, blind, stray>>

-----------------------------------------------------------------------------
(* The kill switch, on this bot.                                           *)

(* cancel_all, which may fail having cancelled only some.                  *)
KillCancel(k) ==
  /\ kill[k].stage = "idle"
  /\ \/ /\ account' = CancelAll(account)
        /\ kill' = [kill EXCEPT ![k].stage = "read"]
     \/ /\ \E S \in SUBSET OpenOrders(account) : account' = Cancel(account, S)
        /\ kill' = [kill EXCEPT ![k].stage = "read", ![k].failed = TRUE]
  /\ UNCHANGED <<wire, answers, sends, bot, recent, clock, history>>

(* The stage after a step that left these positions to close.              *)
Remaining(todo) == IF todo = <<>> THEN "finished" ELSE "close"

KillRead(k) ==
  /\ kill[k].stage = "read"
  /\ LET held == Positions(account)
         todo == [i \in DOMAIN held |-> account.books[held[i]]] IN
     \/ kill' = [kill EXCEPT ![k].stage = Remaining(todo), ![k].todo = todo]
     \/ kill' = [kill EXCEPT ![k].stage = "finished", ![k].failed = TRUE]
  /\ UNCHANGED <<account, wire, answers, sends, bot, recent, clock, history>>

KillClose(k) ==
  /\ kill[k].stage = "close"
  /\ Send(k, FlattenRequest(k, kill[k].index, Head(kill[k].todo)))
  /\ kill' = [kill EXCEPT ![k].stage = "wait", ![k].n = sends + 1,
                          ![k].todo = Tail(@), ![k].index = @ + 1]
  /\ UNCHANGED <<account, answers, bot, recent, clock, history>>

(* Any order that comes back counts as a close; an error or a timeout is a *)
(* failure, and the kill goes on to the next position.                     *)
KillAnswered(k) ==
  /\ kill[k].stage = "wait"
  /\ answers' = {a \in answers : a.n # kill[k].n}
  /\ \E closed \in BOOLEAN :
       /\ closed => [n |-> kill[k].n, reply |-> "order"] \in answers
       /\ kill' = [kill EXCEPT ![k].stage = Remaining(kill[k].todo), ![k].n = 0,
                               ![k].failed = @ \/ ~closed]
  /\ UNCHANGED <<account, wire, sends, bot, recent, clock, history>>

(* Only now are the halts committed, and does the bot see its own.         *)
KillCommit(k) ==
  /\ kill[k].stage = "finished"
  /\ kill' = [kill EXCEPT ![k] = [KillIdle EXCEPT !.stage = "committed"]]
  /\ bot' = [bot EXCEPT !.armed = FALSE]
  /\ UNCHANGED <<account, wire, answers, sends, recent, clock, history>>

-----------------------------------------------------------------------------
Next ==
  \/ \E m \in wire : Deliver(m) \/ Refuse(m)
  \/ \E i \in OpenOrders(account) : RestingFills(i)
  \/ \E s \in DOMAIN Script : Place(s)
  \/ BotAnswered \/ BotFailed \/ BotUncertain \/ Resolve \/ Reconcile \/ Crash
  \/ \E k \in Kills :
       \/ KillCancel(k) \/ KillRead(k) \/ KillClose(k)
       \/ KillAnswered(k) \/ KillCommit(k)
  \/ Tick

Spec == Init /\ [][Next]_vars

-----------------------------------------------------------------------------
(* Idempotency is structural: however often a signal is replayed -- after  *)
(* a crash, a timeout or a refusal, or entered again after a rejection --  *)
(* and however late its requests arrive, the venue has taken at most one   *)
(* order for it that it did not reject, under whatever ids they came.      *)
ForSignal(s) ==
  {i \in DOMAIN account.orders :
     /\ account.orders[i].request.client[1] = "signal" /\ account.orders[i].request.client[2] = s
     /\ account.orders[i].status # "REJECTED"}

OneOrderPerSignal == \A s \in DOMAIN Script : \A i, j \in ForSignal(s) : i = j

(* The position stays within max_position_notional, unless an order was    *)
(* checked while another was on the wire or resting, which the check does  *)
(* not count, or a resting close opened a position, which nothing checks.  *)
WithinLimit == Held(account) <= PositionLimit \/ blind \/ stray

(* No more opening orders are answered in a minute than the rate allows,   *)
(* counting from the last crash, which forgets the window.                 *)
RateHolds ==
  Cardinality({i \in DOMAIN opened : clock - opened[i] < Minute}) <= Rate

(* execution.py: a close "cannot overshoot into a new position however     *)
(* stale the size was".  A reduce-only order that does not rest only ever   *)
(* shrinks a position, whenever it arrives.                                *)
ClosesOnlyShrink ==
  [][\A m \in wire :
       (m \notin wire' /\ m.request.reduceOnly) =>
         \A key \in Keys :
           /\ account'.books[key].qty <= account.books[key].qty
           /\ account'.books[key].qty > 0 => account'.books[key].side = account.books[key].side]_vars

(* A kill reports no failure: "a half-flattened account is visible rather  *)
(* than hidden behind one error" (execution.py).                           *)
ReportsClean(k) ==
  /\ kill[k].stage # "finished" /\ kill'[k].stage = "finished"
  /\ ~kill'[k].failed /\ kill'[k].alone

(* A kill that reports no failure leaves no position and no open order,    *)
(* unless another order reached the venue after it cancelled, a resting    *)
(* close has opened a position, or another kill has named its closes in    *)
(* the same second: the later of the two is given the orders of the        *)
(* earlier one for its own, and counts them as closes.                     *)
CleanKillIsFlat ==
  [][\A k \in Kills :
       ReportsClean(k) /\ ~stray /\ (\A o \in Kills \ {k} : KillSecond[o] # KillSecond[k])
         => Held(account') = 0 /\ OpenOrders(account') = {}]_vars
=============================================================================
