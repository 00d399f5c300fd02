# Quanta: a TLA+ verification project

Quanta charts crypto futures, researches strategies on their history, tests
them forward and on paper, and finally lets a bot trade them. This directory
holds TLA+ models of the parts of it that are hard to test, the TLC
configurations that check them on small instances, and proofs that TLAPS checks
for instances of every size. Paths below are relative to `src/apps/api/quanta`
unless they say otherwise.

Contents: [the system](#the-system), [the modules](#the-modules),
[the runs](#the-runs), [the proofs](#the-proofs),
[what is left out](#what-is-left-out), [the plan](#the-plan),
[running it](#running-it).

## The system

The API is one asyncio process over PostgreSQL and Redis. A browser (and, for
trading bots, a runner that is not in the repository) calls it; it calls a
trading venue, Telegram and webhooks, some of it through WireGuard tunnels.

Three facts of the code shape most of its hazards:

* **A database session is a set of copies** (`db/session.py`). Sessions have
  autoflush and expire-on-commit off and run at READ COMMITTED, no query locks a
  row and no table has a version column. A handler loads a row, decides from
  that copy however long it then waits for a venue, and at commit an UPDATE
  writes just the columns that differ *from the copy*.
* **A handler that awaits is several steps.** Everything between two awaits is
  atomic in one process; whatever was read before an await may be outdated
  after it.
* **The venue is asynchronous.** A request may arrive late or never, an answer
  may be lost, and a timeout tells its caller nothing.

### Components

| component | state | operations | correct when | module |
|---|---|---|---|---|
| Bot control (`api/routes/bots.py`, `services/bot_service.py`, `models/bot.py`) | a row per bot: state, halt reason, leverage, limits | create, update, delete, arm with its pre-flight, stop, clear-halt, kill switch; cascade from strategies | a halt is left only by a person; one-way bots do not share a market; a bot at work is within its limit | `BotControl` |
| Risk guard (`services/risk.py`) | day, day-start equity, peak, recent orders | observe, check equity, check order, record order, budgets | losses are not forgiven; a limit never blocks an exit; the bars agree with the guard | `RiskGuard`, `RiskMemory` |
| Execution (`services/execution.py`) | the guard and the venue's | place, resolve, reconcile, kill | one order per signal; closes only shrink; a clean kill is flat | `BotExecution` |
| Trading venues (`exchanges/trading.py`, `sim/trading.py`, `bitunix_trading.py`) | positions, orders, client ids | place, cancel, cancel all, positions | a client id is one order; reduce-only never opens | `SimVenue` |
| Jobs (`services/jobs.py`, `api/routes/research.py`) | a registry in memory and a table | start, report, cancel, record, mark interrupted | a job that ended does not go on saying it runs | `Jobs` |
| Market data (`services/market_data.py`, `market_store.py`) | bars, coverage, subscriptions | warm, backfill, fill gaps, stream, subscribe | a closed bar is final; history has no silent gap; what is watched is served | `MarketStore`, `MarketFeed` |
| Alerts (`services/alert_runner.py`, `alert_service.py`) | alert rows, last bar, events | evaluate, fire, record | once per bar or once only; the feed says what was sent | `Alerts` |
| Delivery, tunnels (`services/notifier.py`, `routing.py`, `tunnels.py`) | child processes, marks, routes | ensure, start, stop, mark, route, send, retry | no process of a tunnel that is off; no message given up early | `Tunnels` |
| Accounts (`services/auth_service.py`, `api/routes/auth.py`, web `lib/api/client.ts`, `lib/auth/store.ts`) | sessions, second factor; the browser's cookies | sign in and out, refresh, enrol, use a code | a browser stays signed in until it signs out; a code works once | `Accounts`, `SecondFactor` |
| Rate limiting (`core/rate_limit.py`) | a counter with an end | count | nobody is shut out for ever | `RateWindow` |
| Documents (`services/workspace_service.py`) | a row and its revisions | load, save, name, restore, delete | nothing is overwritten unseen; the history is true | `DocumentStore` |
| Browser autosave (web `lib/autosave/`) | a local copy, a dirty flag, a queue | edit, push, flush, load | an edit is kept until the server has it | `Autosave` |
| Setups, paper (`services/forward_service.py`, `paper_service.py`, `backtest_service.py`) | strategies, setups, pipelines, sessions, fills | save, lock, advance, record, promote, archive | a setup shows the rules it is locked to; a bot is unlocked only through paper | `Setups` |
| Engine (`src/packages/engine/quanta_engine`) | none: pure functions | indicators, expressions, backtest, walk-forward, Discover | no look-ahead; a coarse bar is resolved pessimistically | `BarLoop`, `Backtester`, `Indicators`, `Expressions`, `WalkForward`, `Catalog`, `Discovery` |
| Keys, compute preferences, shell, web views | rows, settings | add, delete, start, stop | | parts only, see [what is left out](#what-is-left-out) |

`PROJECT.json` says of each component what is modelled and what is not, and
lists the hazards at the lines where they bite, with the properties about them.

**How they interact.** A strategy is saved, backtested, and locked into a setup;
the setup's pipeline opens the bot stage once a paper session was promoted; a
bot trades a setup with an exchange key. Arming reads the venue through the
execution adapters and judges what it reads with the risk guard; the kill switch
drives the execution service over all bots. Deleting a strategy cascades through
setups to bots. Alerts read closed bars of the market store and deliver through
routes and tunnels, falling back on the server's own network. Jobs run what the
engine computes. The browser holds its own copies: of each document and of the
session's cookies.

## The modules

```
BotLifecycle       <== implemented by ==  BotControl  <-- MCBotControl
                                              ^
                                              +-- BotControlProofs

RiskGuard <-- RiskMemory <-- MCRiskMemory, RiskMemoryProofs
    ^
    +--(INSTANCE)-- BotExecution --(EXTENDS)--> SimVenue
                        ^
                        +-- MCBotExecution, BotExecutionProofs

VersionedRegister  <== implemented by ==  DocumentStore <-- Autosave <-- MCAutosave
                                                               ^
                                                               +-- AutosaveProofs

SecondFactor, RateWindow <-- Accounts <-- MCAccounts, AccountsProofs
Tunnels <-- Alerts <-- MCDelivery, DeliveryProofs
MarketStore <-- MarketFeed <-- MCMarketFeed, MarketFeedProofs
Jobs <-- Setups <-- MCPipeline
            ^
            +-- StrategyProofs --(EXTENDS)--> BarLoop

Numbers <-- BarLoop <-- Backtester <-- WalkForward <------+
   ^                        |                             |
   |                        v                             +-- MCEngine
   +-- Indicators <-- Expressions                         |
           ^                                              |
           +-- Catalog <-- Discovery <--------------------+

Sums <-- Setups, Numbers
```

`A <-- B`: B extends A. A **history variable** below is one no code has; it
records what a property needs to name the outcomes the code allows. Where a
property has an exception, the exception is a behaviour the code really has, and
the run reaches it.

### Bots

**`BotLifecycle`** is the abstract specification: each bot is unborn, stopped,
armed, running, halted or deleted, and `Moves` lists the changes allowed. A halt
is left for stopped or by deletion, never for armed.

**`BotControl`** is the bot routes. `rows` is the bots table and `req[p]` a
handler in flight with the copies it loaded (`loaded`), what it will leave them
as (`write`) and its stage. Each handler is a load, with the early returns the
code makes on the copy, and a commit that merges the dirty columns (`Merged`)
over the row as it then stands. Arming has a step between the two, the
pre-flight, with its own fresh query for clashing bots. The kill switch loads
all bots, waits for the flattening, and only then writes the halts. `Abort` is
any refusal, failure or disconnection: `get_db` rolls back. `overwritten` holds
the bots whose row was written from an outdated copy, and `unseen[b]` the bots
that changed between the pre-flight query and the commit that armed `b`. The
five limits behave alike in these routes and are one number.

**`RiskGuard`** is `risk.py` as operators: what an observation does to the
memory, the verdict on an equity and on an order, the window of recent orders,
the two budget bars. **`RiskMemory`** composes it with the four columns a bot's
row keeps and the arm handler that is the only code to write them: load, venue,
observe, commit, two arms overlapping, the clock running. `base` remembers the
equity of the day's first arm, to state what "loss since" means.

**`SimVenue`** is the simulated exchange as operators on one account and one
symbol: books by position mode, orders by client id, fills that open, add,
reduce, close or flip, and resting orders that fill without a second look: a
resting reduce-only order that fills when its position is gone opens one
(`OpensUnasked`, noted in the history `stray`).
**`BotExecution`** composes it with the execution service, the guard and the
kill switch. Requests and answers travel (`wire`, `answers`); a request may be
delivered after its caller gave up, refused as rate-limited, or lost. The bot
goes through a script of signals: `Place` checks and sends; the result is PLACED
or REJECTED (`BotAnswered`), FAILED (`BotFailed`) or UNCERTAIN (`BotUncertain`,
then `Resolve` and `Reconcile`), and `Crash` drops the window of recent orders
and replays the signal. The id of a signal is made of the signal and its attempt
(`SignalId`, the `purpose` of `client_id_for`): a signal whose order was rejected
may be entered again under the next attempt, as often as `Reentries` bounds, and
any other replay goes under the id it had. Two signals are taken to differ in
their bar or purpose. The runner that would do this is not in the repository: it
is modelled from the docstrings and tests of the service.

The kill switch names its closes by the second it was asked in, so two kills in
one second share client ids: the venue answers the later one with the orders of
the earlier one, which it counts as its own closes. The model gives a kill one
second (`KillSecond`). The code reads the clock again for each position
(`execution.py:402`), so in hedge mode the two closes of one kill may fall into
two seconds; they have different indices in either case, so they stay different
orders. Two kills that share only one of those seconds are not modelled apart
from two that share both, which the property excepts.

### Documents

**`VersionedRegister`** is what the store promises: a document is created at
revision 1, replaced one revision at a time, deleted as a whole.
**`DocumentStore`** is the five routes, each a load and a commit. Two saves from
one base both pass the check of `base_revision`; what stops the second is the
unique key of `workspace_revisions` (`Taken`), on which its INSERT fails.
**`Autosave`** puts devices over it: every access to IndexedDB is an await, so a
save reads and writes in two steps and a push writes back the copy it read when
it was sent. `log` is every state of the document with what it was derived from.

The key guards a copy only while the history keeps the revision that followed
it: `_prune` keeps `MAX_UNNAMED_REVISIONS` (200). A handler that loads a document
and commits after 202 other saves of it finds its number free again, and writes
an older document over the newer one (`Outlived`). The model has that step. From
there on the row is *astray*: its states are collected in `astray` instead of
`log`, and to the register of `VersionedRegister` it is as if the document had
been deleted.

What the code does, and the properties therefore except: an edit made while a
push or a load waits for its answer is replaced by that answer and marked clean
(`raced`; `store.ts:125`); a document deleted and made again counts from 1
again, so a device holding the old revision 1 overwrites the new one; after a
lost answer a device conflicts with its own save. Restoring adds a revision
without pruning. Restoring and labelling read the document and then the
revision; the model reads both in one step (`TargetLoad`): a revision that only
the second read could find is newer than the copy, and a restore that rests on
that copy is refused by the unique key.

### Accounts

**`SecondFactor`** is `verify_second_factor` and enrolment on the copy of the
users row; **`RateWindow`** the counter in Redis, whose INCR and EXPIRE are two
calls; **`Accounts`** the handlers, the tabs and their shared cookies, with
answers that arrive, are lost, or arrive out of order. `upset` says why a
browser may be out of step, `missedAt` when an answer was first lost, `shown`
what the person believes the recovery codes are, `crossed` that two handlers
changed the users row at once.

What the code does: a refused refresh leaves the cookie, so the browser presents
it again at every page load and every session of the person is revoked each
time; overlapping refreshes of one token outside the grace window end the
family; signing out with an outdated CSRF token is refused with 403, which the
browser swallows; a sign-out after a lost refresh matches no session. Two uses
of one code at once both pass. Confirming an enrolment takes a one-time code and
then resets `last_totp_counter` (`auth_service.py:284-290`), so one more code of
the same step is accepted, the same one included: the repository's own
`test_full_enrolment_and_mfa_login` signs in with the code it has just confirmed
with, while the comment at `auth_service.py:129` rules replay out. An access
token outlives revocation by up to 15 minutes (not in the model, where a request
with one is simply made). A counter left without an end by a failed EXPIRE gets
one with the next request.

### Alerts and their delivery

**`Tunnels`** is `TunnelManager` with its lock per tunnel, the marks on routes
that failed, `routing.py`'s choice of the first usable tunnel and then the
server's own network, and the routes that switch, test, reroute and delete
tunnels. Each pass of a delivery reads the route and the rows of its tunnels
afresh (`ReadRoute`, `Usable`), so the route may change under a message;
`disturbed` notes the callers during whose delivery a mark was lifted or a
tunnel was added to the route. A destination takes a message, refuses it, fails
in the tunnel's path, or takes it with its answer lost ("unsure", which the code
takes for a failure of the path); one that is `Unwired`, web_push and email, is
reported sent although nothing is sent to it (`notifier.py:285-292`).
**`Alerts`** adds the runner's pass: due alerts are loaded, read on the last
closed bar, fired, delivered, and all records are committed at the end. `cut`
holds the firings whose pass ended before its commit (a crash, a cancellation,
or a commit that failed because an alert of the pass was deleted, which loses
the records of all of them); `took` counts what each destination took, whatever
was reported of it, and `unanswered` where its answer was lost; `late` the
processes started while their tunnel was being switched off; `stray` those a
restarted server does not know of.

What the code does: `stop()` does not take the lock of `ensure()`, so a tunnel
being started survives its own switching off; deleting a tunnel stops it before
the row is gone, so a message may start it again; messages are sent before their
record is committed, so a restart sends them twice; a message whose answer was
lost in a tunnel is sent again by the next route, and one whose answer was lost
on the server's own is recorded as failed though it was taken; an alert looks
only at the last closed bar, so a pass that takes longer than a bar skips one.

### Market data

**`MarketStore`** is the upsert (`Merged`: a final bar is not replaced by a
forming one), the coverage row, paging and `find_gaps`; **`MarketFeed`** the
warming of a route, the download tool, and `run_stream`: one consumer for all
subscriptions, cancelled and started again when one is added. The data of a bar
is its status: none, forming, frozen, final.

What the code does: a row without a `closed` flag is taken for closed
(`bitunix.py:457`, and every row in the array shape, 464-471), so from a venue
that does not flag its forming bar (`flagged`) that bar is stored as it was, for
good: it is *frozen*. `fill_gaps` looks for gaps among the newest
`MAX_GAPFILL_BARS` bars (`Newest`, `GapBars`), older ones stay. A bar that is
streamed stays as it was forming until a backfill passes over it, and a
reconnect fills no gap, although the docstring at `market_data.py:220` says it
must; a warming that failed is not tried again before a restart; nothing
unsubscribes, and with more than 300 channels the stream spins between refusals
(the bound `Fits` of `WatchedIsServed`).

### From strategy to paper

**`Jobs`** is the registry and its table. The row is inserted after the task was
started and always says "queued"; a job that ends first finds no row to close,
and a closing that fails is only logged (`slipped`). `mark_interrupted` closes
what a dead process left. **`Setups`** is the strategy, setup, paper and
backtest routes beside it, as load and commit with dirty columns. `crossed`
notes the rows written from outdated copies.

What the code does: two saves of a strategy, each changing one column, leave a
mixture under the version of one of them; `advance_stage` writes the whole
pipeline from its copy; two fills over one copy lose one's profit; a promotion
looks neither at the state of the session nor at whether its setup is archived;
`advance_stage` also sets the flag that unlocks the bot, of which the comment at
`bot_service.py:219` says that promotion sets it and nothing else.

### Engine

Pure functions on whole numbers: prices are ticks, a division rounds down, NaN
is a model value (`Numbers`). **`Indicators`** is `series.py`, **`Expressions`**
the evaluator over parsed trees, **`BarLoop`** the loop of `Backtester.run` over
the bars of any history with any signals, **`Backtester`** that loop on the
signals the evaluator yields, **`WalkForward`** and **`Discovery`** (with
**`Catalog`**'s lines) the two analyses. The loop is a machine of one step per
bar, the analyses of one step per backtest or stage. None of it branches: the
states come from all histories of a few bar shapes. `BarLoop` runs beside a copy
that lacks the last bar (`cut`, `shorter`), `Discovery` beside a copy whose bars
after the split and the longest horizon are flat (`search.flat`).

What the code does, as these runs show it:

* the stop of a bar is moved by that bar's high before the bar's low is tested
  against it, and the other way round for a short: a look-ahead inside the bar,
  excepted in `CoarseIsWorst`;
* arming break-even can loosen a stop that had trailed past the entry, against
  the comment at `engine.py:387`, excepted in `StopNeverLoosens`;
* a stop jumped by a gap fills at its level, not at the open;
* with 1m bars that cover a bar only in part, exits in the rest of it are not
  seen; the last bar's slice of them is 1 ms long;
* an opposite signal with both signals true re-opens the side it closed;
* only liquidation stops a loss at the margin: a gap at another exit may take
  the equity below zero and the next quantity is negative; a short of that size
  is liquidated at once, a long is not;
* three forms of expression are true on bars they have not seen (`Blind`):
  `not` of an unknown, `!=` of an unknown, and an average over a series that is
  itself warming up, because `sma` counts NaN as 0; a constant NaN is true;
* a division by zero is infinite, not NaN as `evaluator.py:299` says; `ema`
  depends on where the history starts; `build_windows` leaves a tail untested,
  and more with `max_windows`; in a search the returns of the last in-sample
  bars read up to `horizon` held-out closes.

## The runs

| run | instance | shows |
|---|---|---|
| `bot_control` | 2 one-way bots of one market, 2 handlers at once, 4 requests | the bot routes, and that they implement `BotLifecycle` |
| `bot_unhalt` | the same | *violated*: a halted bot is armed |
| `bot_cascade` | the same | *violated*: an armed bot is deleted with its strategy |
| `risk_memory` | 2 overlapping arms, 2 days of 2 ticks, equities 0..3 | arming again forgives nothing; the bars agree with the guard |
| `risk_first_day` | the same, equities 0..4 | *violated*: the first day has no daily loss limit |
| `bot_execution` | 3 signals, 1 re-entry, 1 kill, 4 sends, both position modes, 2 minutes of 1 tick in one-way mode | idempotency, limits and the kill under lost and late requests |
| `documents` | 2 devices, 2 handlers, 5 requests or 3 and 1 fault, 2 edits, 1 kept revision | what is overwritten, lost or forgotten; the refinement of `VersionedRegister` |
| `accounts` | 2 tabs of 1 or 2 browsers, 2 requests in flight, 8 budgets | who stays signed in, what a sign-out ends, which codes work |
| `delivery` | 2 tunnels, 3 destinations (1 unwired), 2 alerts, 2 bars, 9 budgets | what is taken twice, what the feed says, who is given up on, which processes stay |
| `market` | 5 bars, pages of 2, gaps filled over 4, 3 series, 4 channels, 5 budgets | what is looked back to is whole, what is closed is settled; what is watched is served |
| `pipeline` | 3 jobs, 2 handlers, 1 setup, 1 session, 8 budgets | which rows stay open; what setups and sessions still say truly |
| `engine` | histories of 4 to 13 bars, 15 strategies, 6 charts | look-ahead, warm-up, exits inside a bar |

Every property has a mutant: a plausible bug in one mapped definition, under
which TLC finds the property violated. A **budget** is a bound on how often each
kind of event happens; a run starts from any of its budgets, each of which aims
at one part of the component, because all events together are too many.
Deadlock is not checked where the bounds stop the system.

### bot_control

* `OneWayExclusive`: two one-way bots on one market are at work together only if
  one of them was not yet at work when the other's pre-flight looked.
  `execution.py` counts on this refusal at arming. The window is real, which is
  why the property names it rather than forbidding the outcome.
* `ArmedWithinLimit`, `HaltCarriesItsReason`: hold of every bot whose row was
  never written from an outdated copy.
* `KeepsLifecycle`: `Promise!Spec` with `Life` as refinement mapping.
* `LooseningNeedsCode`: a limit or the leverage rises only by an update that
  carried a second factor, or that overwrote a change it had not seen.
* `KillHalts`: a kill that commits halts every bot it found not halted,
  whatever happened to it meanwhile. The exception in the property is the
  halted bot: its copy is not dirty, so a clear that races wins.

Two bots and two slots give every pair of overlapping handlers; a third and
fourth request give the sequences that matter (arm, stop, kill and a clear; a
write by one slot between the load and commit of the other, twice).

### risk_memory

* `ArmingNeverForgives`: an equity that would have halted the bot before an arm
  committed still does afterwards.
* `LossSinceArmingHalts`: a loss of the whole daily limit since the day's first
  arm halts a bot that was armed before that day.
* `BarsMatchGuard`: on the day it was measured, a bar is full exactly when the
  guard halts at the equity shown.

The limits (2 of 3 units, 60 %) lie between the equities, so each is crossed by
some and not by others; two days let the boundary fall anywhere in an arm.

### bot_execution

* `OneOrderPerSignal`: the venue takes at most one order for a signal that it
  does not reject, whatever ids the signal is sent under: a replay that made up
  an id of its own while an earlier request is still on its way breaks it.
* `WithinLimit`: the position stays within the limit unless an order was checked
  while another was on the wire or resting (`blind`), or a resting close has
  opened a position (`stray`).
* `RateHolds`: no more opening orders are answered in a minute than allowed,
  since the last crash.
* `ClosesOnlyShrink`: a reduce-only order that does not rest, however late and
  stale, never opens, enlarges or turns a position.
* `CleanKillIsFlat`: a kill that reports no failure leaves no position and no
  open order, unless another order reached the venue after its cancel, a resting
  close opened a position, or another kill named its closes in the same second.

The script has a market entry, an opposite limit entry (in hedge mode a second
position) and a limit exit larger than the entry, which may rest; the market
entry may be entered once more after a rejection; four sends are one more than
the signals, for the replay, the re-entry or the kill. In hedge mode the run
starts at the last tick: the clock serves only the pace of orders, which does
not depend on the mode. With 2.18 million states it is the largest run. The last
two exceptions of `CleanKillIsFlat` were found by its proof: the run has one
kill and never saw two in one second, and before the exit could rest, `stray`
did not happen.

### documents

* `HistoryIsTrue`: each row of the history is a state the document had, no
  revision is there twice, and the current one is among them; of a document
  astray only the second.
* `NoBlindOverwrite`: a revision is made from the revision before it, until the
  document is deleted and made again or goes astray.
* `KeptUntilAccepted`: the last edit of a device is there to be pushed, or the
  server had it, unless it was made while an older answer was awaited.
* `DirtyIsPursued`: unsaved edits have a timer, a flush, a push under way or a
  recorded failure.
* `Register`: `VersionedRegister` is implemented, by a row that is not astray.

Two devices with two edits conflict in either order; the third request prunes,
since one unnamed revision is kept, and after three saves a fourth handler that
loaded before them has outlived its guard: five requests reach that and a
request after it. A fault is a reload, a failing network or a forgotten copy;
with one the requests are three. Devices and handlers are symmetric, which is
sound because `Register` is a safety property.

### accounts

* `KeptSignedIn`: a browser whose requests do not overlap and whose answers
  arrive, or are asked for again within the grace window, is never refused.
* `SignOutEnds`: a session signed out of stays revoked, unless the tab did not
  hold its token any more.
* `RecoveryCodesHold`, `OneCodePerStep`: the codes shown and not used are the
  ones taken; one code of a secret per 30-second step, and one more in the step
  that confirmed it; unless two handlers crossed.
* `LockoutEnds`: who is refused is told a time, and it is within a window.

Time runs in ticks of half a code's step; grace is one tick, and two ticks reach
its end. The slots are symmetric.

### delivery

* `OffMeansStopped`: a tunnel that is off or deleted has no process but while
  the request that switches it off is about to shut it, and for the two
  exceptions above.
* `ServerTriedLast`: a destination is given up on only after the server's own
  network was tried, unless a mark was lifted or a tunnel added to the route on
  the way. The code counts its passes by the limit of a route and one for the
  server (`routing.py:130`), which is enough while the route only loses tunnels.
* `SentOncePerBar`: unless a pass was cut short, a destination takes the message
  of an alert that does not repeat on a bar once for the bar, or again where its
  first answer was lost, and of one that fires once on one bar.
* `FeedTellsTruth`: between passes the feed says "sent" only of what a telegram
  or webhook destination took, and of all it took but where the answer was lost.
  Of web_push and email, which nothing takes, it says so always.

Two tunnels give a route with a fall-back of each kind (a route takes
`MaxRouteTunnels` of them, four in the code and two in the run); two
destinations may fail and the third is unwired; wired destinations and tunnels
are symmetric. With two tunnels in all, an added tunnel is never one too many
for the three passes: the exception of `ServerTriedLast` for it is needed in
longer lists of tunnels, which the theorem covers. Where messages go through
tunnels one alert fires, where they are sent directly two do.

### market

* `WarmIsWhole`: after a warming, whatever went wrong in earlier ones, the bars
  it was for and that `fill_gaps` looks back to (`LookedAt`) are there, and final
  if they were over when it began, unless they were then stored unfinished or
  somebody was about to store them so (`warmed` remembers which).
* `SettledStays`: a bar stored as closed never changes, whoever writes late.
* `WatchedIsServed` (liveness): a series being watched comes to be served by an
  open connection, as long as one connection takes all that is watched.

Three bars to warm in pages of two give a page boundary inside every range; five
bars let one or two close meanwhile, and gaps looked for among four leave one
out of sight. `MaxChannels` is 4 with two channels a
series: the third does not fit.

### pipeline

* `LockedVersion`: a setup's version is the hash of the rules it shows, unless
  two saves crossed.
* `UnlockedHasPassed`: a setup a bot may trade has passed paper trading, unless
  a stage was written over an outdated copy.
* `EquityIsTheSum`: a session's equity is the capital and what its fills earned,
  unless two fills crossed.
* `RowSettles` (liveness): no row claims for ever that its job is under way,
  but for those whose closing was missed or failed.

Three jobs with one kept after it finished trim the registry; two handlers give
every pair; two fills meet the checklist's minimum and a third crosses.

### engine

* `NoLookahead`: an account does not change when the last bar is taken away,
  nor does what opens next; the parameters of a window are the ones its
  in-sample bars give; a search passes the same rules when the held-out bars
  are flattened.
* `SignalsAreFounded`: a signal is true only where its expression has seen every
  bar it reads, but for the `Blind` forms.
* `CoarseIsWorst`: without 1m bars, an exit is no better than on any path
  through the bar.
* `StopNeverLoosens`: a stop only moves in the trade's favour, but for the step
  that arms break-even.

Held positions go through every history of five bars of four shapes (a bar that
crosses stop and target, and a gap, among them), with 1m bars in either order,
in part or absent; turning signals through every history, a bar missing in some;
walk-forward through two windows, and histories too short for one; searches
through patterns repeated often enough to have signals.

### The three violations

Each is a disagreement between the code and a sentence of its documentation,
quoted in `PROJECT.json`:

1. **A halt can be undone by an arm** (`bots.py:397` against `425`). The check
   that the bot is not halted is made before the wait for the venue, the state
   is written after it. SPEC 3.5: "Nothing un-halts itself."
2. **Deleting a strategy deletes bots at work** (`strategies.py:156`). The bot
   route refuses the same: "Stop the bot before deleting it."
3. **No daily loss limit on the first day** (`bot_service.py:146`). NULL columns
   are read as a day that started with equity zero, and the first observation
   does not replace it because the day is not new. In the run a bot is first armed at
   equity 4 with a daily limit of 2, and at 2 on the same day the verdict is still
   "ok": the drawdown, 60 % of the peak, is not reached either.

### Fairness

Two specifications state fairness. `MarketFeed`: weak fairness of the stream's
own steps (`LoopTop`, `Restarted`, `Connect`), because an asyncio loop gets round
to every task that can go on, and the adapter's connect loop tries again for
ever; nothing is assumed of subscriptions, drops or bars. `Setups`: weak fairness
of `Runs`, `WorkEnds` and `RecordFinish` of each job, because a search is finite
and its task gets its turn, and of `Boot`, because the compose files restart the
container (`restart: unless-stopped`); crashes are bounded by the budget.

Elsewhere no liveness is claimed: handlers wait for a venue, a person or a
network that need not answer, and a bot's runner is outside the repository.

## The proofs

Eight modules hold proofs that TLAPS checks (SMT, Zenon and, for the temporal
steps, LS4). Each theorem holds for every value of the constants
under the assumptions below.

| module | theorem | says |
|---|---|---|
| `BotControlProofs` | `TypeCorrect`, `Inductive` | `Spec => []TypeOK`, `Spec => []IInv` |
| | `OneWayExclusiveHolds`, `ArmedWithinLimitHolds`, `HaltCarriesItsReasonHolds` | the three invariants of `bot_control` |
| | `KillHaltsHolds`, `LooseningNeedsCodeHolds` | its two action properties |
| | `Implements` | `Spec => KeepsLifecycle`: the routes implement `BotLifecycle` |
| `RiskMemoryProofs` | `LossIsMeasured`, `BarsTellTheVerdict` | `LossSinceArmingHalts`, `BarsMatchGuard` |
| | `ArmsForgiveNothing` | the action property `ArmingNeverForgives` |
| `BotExecutionProofs` | `ReplaysTakenOnce`, `PaceKept`, `PositionLimited` | `OneOrderPerSignal`, `RateHolds`, `WithinLimit` |
| | `ClosesNeverOvershoot`, `CleanKillsLeaveNothing` | the action properties `ClosesOnlyShrink`, `CleanKillIsFlat` |
| `AutosaveProofs` | `HistoryTellsTheTruth`, `NothingIsOverwrittenBlindly` | `HistoryIsTrue`, `NoBlindOverwrite` |
| | `EditsAreKept`, `EditsArePursued` | `KeptUntilAccepted`, `DirtyIsPursued` |
| | `StoreIsARegister` | `Spec => Register`: the store implements `VersionedRegister` |
| `AccountsProofs` | `LockoutAlwaysEnds` | `LockoutEnds` |
| | `RecoveryCodesAlwaysHold`, `OneCodeInEachStep` | `RecoveryCodesHold`, `OneCodePerStep` |
| | `SignOutAlwaysEnds`, `AlwaysKeptSignedIn` | `SignOutEnds`, `KeptSignedIn` |
| `MarketFeedProofs` | `Pages` | no window of the paging asks for more bars than one answer holds |
| | `FeedAlways`, `WarmingIsWhole` | `Spec => []FeedInv`, and from it `WarmIsWhole` |
| | `FinalBarsStay` | the action property `SettledStays` |
| `StrategyProofs` | `LockedVersionHolds`, `UnlockedHasPassedHolds` | `LockedVersion`, `UnlockedHasPassed` |
| | `EquityAlwaysTheSum` | `EquityIsTheSum`, for any number of fills |
| | `CoarseAlwaysWorst`, `StopsNeverLoosen` | `LoopSpec => []CoarseIsWorst`, `LoopSpec => StopNeverLoosens` |
| | `PastAlwaysFollowed` | `LoopSpec => []FollowsThePast`, the part of `NoLookahead` about the bar loop |
| `DeliveryProofs` | `OffAlwaysMeansStopped`, `ServerAlwaysTriedLast` | `OffMeansStopped`, `ServerTriedLast` |
| | `AlwaysSentOncePerBar`, `FeedAlwaysTellsTruth` | `SentOncePerBar`, `FeedTellsTruth` |

Every module but `MarketFeedProofs` and `BotExecutionProofs`, which prove it as
a part of a larger invariant, has a theorem `TypeCorrect` besides.

### Assumptions

Each is an `ASSUME` of the module that declares the constant, and TLC evaluates
it on the runs. Most only give a constant its type. Those that say more:

* `BacktestAssumption` (`BarLoop`): what `BacktestConfig` checks of a
  configuration, a maintenance ladder with at least one tier, and funding rates
  that are numbers. Of the number of requests for a document nothing is assumed.
* `NumbersAssumption` (`Numbers`): NaN is no integer, infinity is a positive one
  (a stand-in: a liquidation price at or above it is never hit).
* `TunnelsAssumption`, `KillsAssumption`, `MainAssumption`,
  `AccountsAssumption`: the callers include the runner and the page and what is
  unwired are destinations, the bot is no kill, the warmed series is one of the
  series, and browsers are numbered.
* `PageAssumption`: a page holds at least two bars (200 in the code). Of the
  number of bars `fill_gaps` reads nothing is assumed.
* `DayAssumption`, `MinuteAssumption`, `WindowAssumption`, `DrawdownAssumption`:
  a day, a minute and a window last, and a drawdown is a percentage.

`LoopSpec` starts from any run that satisfies `IsRun`: integer bars whose open
and close lie between low and high, 1m bars whose low is not above their high,
any signals, any ATR that is not negative, and the exit rules `ExitRules` takes.
That prices lie in their bar is a fact about the data, which no code checks;
`CoarseIsWorst` needs it. TLC checks `IsRun` of every run of the instance
(`FollowsThePast`, at `done = 0`).

Bounds such as `MaxClock`, `MaxSends`, `Reentries`, `MaxStarted`, `MaxBar` or
the budgets are any numbers. A violation of a safety property shows in finitely
many steps, so a bound that may be any number does not limit what these theorems
say.

### The arguments

None of the properties is inductive: in nearly all of them what a commit does
depends on what its handler read long before. The invariants say what is true
of work in flight.

**Bot control** (`IInv`). `CopiesAreFresh`: a copy not marked outdated equals the
row, which turns "not written from an outdated copy" into "what was written is
what the handler meant" (`UpdatedRow`, `MergedFresh`). `CopiesAreIntended`: what
each stage loaded and means to write, early returns included.
`ArmsAreSingle`, `ClashesAreNoted`: an arm past its pre-flight is of one bot,
which clashes only with bots that changed since. `NoneRuns`: no code sets
`running`. Only the commit of an arm puts a bot to work (`OnlyArmsPutToWork`),
which leaves `ArmOneWayExclusive` as the one case with content for
`OneWayExclusive`. The refinement follows from `HandlerMoves`: what one step may
do to the life of one bot.

**Risk memory** (`IInv`). `CopiesAreTheRow`: an arm that waits for the venue
holds the row as it is, or is marked outdated. `UnarmedIsBlank`, `DayIsTheArms`:
the row's day is that of the last arm, and its start the equity of that day's
first. The lemmas about `RiskGuard` show that observing never lowers the peak
nor moves the start of a day.

**Execution.** `Base` (`TypeOK`, `Numbered`, `Stages`): a request has a number of
its own, and each caller waits for one. That the venue looks a client id up before
it takes an order gives one order per id (`OneOrderPerId`); one per signal needs
`AttemptInv` besides: whatever was sent under an attempt, every earlier attempt
of that signal has a rejected order at the venue, so that a late request of it is
answered from the books and not taken. `RateInv`: what was
answered in the last minute is in the guard's window, until a crash. `RoomInv`:
what is held, with what is on the wire, fits the limit. `CleanKillIsFlat` rests
on `PlaceInv` (positions are where the mode keeps them), `OwnInv` (the ids on
the wire are those of the kill) and `WayInv`: as long as nothing else reaches
the venue, what the kill has not closed yet is among the positions it read.

**Documents.** `StoreInv`: `LogIsThePast` (no state of the document is ahead of
the current one, which is among them), `HistoryGoesWithTheRow`,
`CopiesAreGuarded` (a handler whose copy is outdated finds its next revision
taken, unless it has outlived its guard), `BasesAreTold` (a device's base was
told by the store). That pruning never removes the revision that guards a copy
before `MaxUnnamed` later ones are there is counting: the unnamed rows that are
newer than it have different revisions, so there are at most as many as
revisions between. `ClientInv` adds `AnswersAreTrue`, `LastIsHeld` and `DirtyIsPursued`.
The refinement needs `StoreInv`, because a commit is the register's
compare-and-set only if the revision it read is still the current one.

**Accounts.** Three invariants over `TypeOK`, one for each part: `LimiterInv`
(an end is never further off than a window), `FactorInv` (a handler that decided
will write what it read as its operation changes it; unless two `crossed`, no
code was accepted of a secret that is pending or about to be offered, and of the
secret in use none that is ahead of its counter, but for the one that confirmed
it), and `BrowserInv`, which is in layers because its properties except
different things. Without overlapping requests (`Calm`): one request of a
browser at a time (`OneAtATime`), and what it carries is the browser's cookie
(`Held`). With no answer lost either (`Clean`): the tab that refreshed a session
last has its token, or has it coming (`Known`). With an answer lost no longer
than the grace ago (`Quiet`): every cookie is good for another refresh
(`Served`).

**Market** (`FeedInv`). Until a warming ends, each bar it asked for is stored,
in the page in hand, in a range ahead, or in a gap `find_gaps` will find
(`WarmInv`, of the bars it looks back to: no bar is stored before it has opened,
so fewer than `GapBars` are stored above such a bar); the two ends of the
coverage row are stored (`CoverageIsTrue`); a bar stored unfinished was so, or
on its way, when the warming began, or is not over. `Pages` is the arithmetic
that no page is cut off.

**Setups** (`IInv`). `RequestsAreSound`: what each handler loaded and means to
write; `VersionHolds`: a strategy's version is the hash of its rules unless
`crossed`; `GoneTogether`: what cascades from a strategy goes with it.
`EquityInv` adds `RequestsStand` (a handler that means to record a fill holds
the equity of the fills it loaded, unless its copy is outdated) and
`StartedOnce` (no two handlers start one session). `Total` of a sequence with
one more fill is the total and the fill (`TotalOfMore`). No induction theorem of
the library can be used here; the lemmas about sums take the least index at
which they would fail and lead it to a contradiction.

**Bar loop** (`LoopInv`). Of an account between two bars: its types, and that a
position which is open has survived a range of prices, so its take lies beyond
its stop and beyond a liquidation that can happen (`Apart`, from `CalmIsApart`:
the exit of every bar is resolved on the bar itself or on 1m bars inside it, and
in one of them nothing was hit). A position opened at this bar need not be
`Apart`: its liquidation may lie beyond its target. But then the open lies beyond
the liquidation as well (`FreshAt`), and the first leg of either path is a
liquidation. `WorstFirst` is the case analysis over which of the three levels a
leg and the bar hit. `UpdatedFacts` is the stop, and `SameBar`: a bar reads
nothing of its run beyond the open and the time of the next bar.

**Delivery** (`IInv`). `ProcInv`: a live process is its tunnel's, is being
started by one caller, or is excepted. `RouteInv`: each failed pass of a
delivery has ruled out one more tunnel of its route (`Tried`), so when the passes
run out, by the pigeonhole principle, the last went by the server. `PassInv` and
`RowInv`: a firing of a pass is queued, on its way or sent, once, and noted in
the rows the pass goes by. `OnceInv`: what a destination was told is noted or
under way, and what is queued was told to nobody. `FeedInv`: what was told is in
the feed or will be with the pass.

### What the proofs changed

* `WarmIsWhole` did not hold: a bar that a page or the stream had fetched while
  it was forming, and stored before or during the warming, stays forming.
  `warmed` names those bars.
* `WithinLimit` and `CleanKillIsFlat` did not hold for every script: a limit
  exit that rests may open a position, and two kills may share a second. The
  script of the run now has such an exit.
* `ServerTriedLast` needs the exception for a tunnel added to the route while a
  message is on its way, and `WarmIsWhole` the limit to the bars `fill_gaps` looks
  back to: the inductive steps fail without either.
* `OffMeansStopped` was too weak to be inductive and is now stronger: it
  excepts the request about to shut a tunnel, no longer any caller at work on it.
* `NoBlindOverwrite`, `HistoryIsTrue` and `Register` do not hold for every number
  of requests: a handler that outlives what the history keeps is not stopped by
  the unique key. The model now records where that happens (`astray`), the run
  reaches it, and the theorems say what holds until then.
* `Total` is a recursive function in a module of its own, and the bar loop is
  apart from the recursive evaluator, so that both can be proved about; the walk
  through a path, the tier of a notional and the funding of a bar are a least
  index and a sum instead of folds.
* Some operators were rewritten to be reasoned about, without changing what
  they do: explicit records for requests and callers, `Gaps`, `Positions`,
  `Trim`, `Matching`, `Evaluate`.

### Only model-checked

* `SignalsAreFounded`, and of `NoLookahead` the signals that the bar loop reads,
  the choice of a walk-forward window (`ChosenBlind`) and the screen of a search
  (`ScreenedBlind`): they reach `Expressions`, the one module with a `RECURSIVE`
  operator, and are inductions over trees.
* `WatchedIsServed`, `RowSettles`: liveness under fairness, which needs ENABLED.

## What is left out

* **Bots.** Exchange-key routes (a check at the venue and one insert; a foreign
  key refuses the deletion of one in use); the pre-flight checks of other tables
  and the venue are one nondeterministic answer; columns that are only shown.
  Of execution: `POST_ONLY` and `IOC` orders, prices, margin and profit, the
  leverage call, a kill over several bots (its orders are per bot).
* **Documents, accounts, alerts.** The limit on a document's size; hashing,
  tokens and the audit log; the creation of alerts and channels, templates, the
  pace of a chat (time without state), parsing of WireGuard files and the latency
  probe; quiet hours, which only mute a message.
* **Market.** Funding, instruments and tickers, each refreshed in one step;
  parsing, throttling and the simulated market server.
* **Setups.** Conflicts between setups and their total exposure, research
  studies over a finished backtest, notes, colours and `use_in_alerts`.
* **Engine.** The lexer and parser; statistics, Monte Carlo, regimes and the
  verdict of a comparison, which are arithmetic on samples of floats that whole
  numbers would not tell truly. What floating point itself does is not seen: the
  engine's order of operations is kept, its rounding is not.
* **Not modelled at all.** Compute preferences and the key vault; settings,
  middleware and logging; the React views.

Four hazards in `PROJECT.json` have no property: a resting reduce-only limit
order that fills after its position is gone (the model has it, and the
properties of `bot_execution` except it; the repository's own code sends none),
and `reconcile` in hedge mode, which confuses the two positions of a symbol; the
pace of a chat under two messages at once; and the equity that falls below zero
at a gap, which `BarLoop` shows but no sentence of the code forbids.

## The plan

Of what the runs check as invariants or action properties, all that does not
evaluate expressions is proved. What is left:

1. the evaluator as recursive functions on the depth of a tree, which the
   inductions by a least counterexample of `StrategyProofs` could then reach;
   with that, `SignalsAreFounded` for the indicators of a fixed window;
2. the loop of the kill switch over several bots, and `POST_ONLY` and `IOC`
   orders, which the proofs about `SimVenue` would extend to;
3. what negative equity does to the trades after it, once somebody says what it
   should.

## Running it

```
tlc -workers 2 -config MCBotControl.cfg MCBotControl
tlapm BotControlProofs.tla
```

and so on for each run and each module of proofs. From nothing a module of
proofs takes from a quarter of a minute (`RiskMemoryProofs`)
to seven (`DeliveryProofs`).
With two workers a run takes from 20 seconds (`risk_memory`) to between three and
four minutes (`bot_execution` with 2.2 million states, `delivery` with 1.4, `market`
with 0.8, and `engine`); `documents`, `accounts` and `pipeline` take one to two
minutes each.
