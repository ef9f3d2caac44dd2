# Market Lens: a verification development

TLA+ models of the parts of Market Lens that carry its own logic, the TLC runs that check them on
small instances, and theorems about them checked by TLAPS for every value of the constants. Paths
below are relative to `src/server/internal/` unless they start with `src/`.

Market Lens is one Go process over one PostgreSQL database, with a web client. It imports daily
share prices every night, computes features and strategy assessments from them, keeps people's order
intents, portfolios and simulated ("paper") accounts, and tells people about what happened through a
durable event outbox, server-sent events, mail and web push. Everything durable is a row;
everything concurrent is a goroutine of an HTTP request, the scheduler's goroutines, or a second
process started from the command line by an operator. There is no cache of domain state in memory:
two actors meet in the database, between one transaction and the next.

## 1. Inventory

| Component | Source | State | Operations | Hard part | Modelled in |
|---|---|---|---|---|---|
| Decimal arithmetic | `decimal/decimal.go` | none | products, quotients, half-even rounding at 12 places | ties, signs | `Costs` |
| Cost model | `costs/costs.go` | none | basis points to factors, price one execution | compounding of roundings, currency crossing | `Costs` |
| Order intents | `intents/` | `order_intents` | record, settle | settling races with promotion | `PaperTrading` |
| Paper trading | `paper/` | `paper_accounts`, `paper_orders`, `paper_fills` | open, promote, cancel, nightly fill pass, account view | reads in one transaction, write in another; corrected bars; restarts | `PaperTrading`, `PaperAccount` |
| Event outbox and streams | `events/`, `api/events.go`, `src/src/services/events.ts`, `src/src/stores/auth.ts` | `client_events`, one handler per connection, the client's resume point | insert, list, stream, revalidate, reconnect | commit order against identifier order, lost connections | `EventOutbox`, `EventFeed` |
| Market-data import | `marketdata/service.go`, `repository.go`, `validate.go` | `import_runs`, `import_items`, `daily_price_bars`, `price_bar_revisions`, `data_quality_findings` | create, fetch, lock, persist, finish, retry, accept a finding | overlapping runs, cancellation, kills | `MarketImport` |
| Fallback provider | `marketdata/fallback.go` | rows of the import | cover, reconcile, observe | splicing two sources | `MarketImport` (cover, reconcile) |
| Nightly scheduler | `scheduler/marketdata.go` | `lastSession`, in memory | one night: import, fallback, features, assessments, fills, notices | early returns, restarts | each step in its component's module |
| Notifications | `notify/`, `scheduler/notify.go` | `notifications`, preferences, quiet hours, `push_subscriptions` | raise, hold, claim, send, retry, give up | two passes, lost answers, crashes | `Notify` |
| Authentication | `auth/` | `sessions`, member codes, failures, rates, the signing key, the owner's password | sign in, verify, lock, reset, rotate | transactions in another order than their times; reads before a reset used after it | `MemberLogin`, `Accounts` |
| Identity and invitations | `identity/` | users, setup links, invitations, mail deliveries | set up, invite, resend, accept, revoke, deactivate | one-time links, overlapping invitations | `Accounts`, `MemberLogin` |
| Credential storage | `credentials/` | sealed rows and key versions | insert, replace, rotate, validate | rotation beside a server with the old key | `Accounts` |
| Features | `features/` | `feature_values`, `universe_composites`, run items | full, incremental and one-definition runs; read as of a date | how far one bar reaches; contained failures; crashes | `Features` |
| Strategies | `strategies/` | signals, run items | score since a feature run, score all, read as of a date | two walks over the sessions, the history gate | `Signals` |
| Backtests | `backtest/` | runs, trades, skips, curve | load, simulate, measure, store | inputs read by separate statements; decisions waiting over sessions | `Backtests` |
| Portfolio | `portfolio/` | versions of trades, the accounting currency | record, correct, withdraw, view | corrections that race; lots; conversion | `Portfolio`, `Holdings` |
| Risk | `risk/` | limits | state, remove, evaluate | missing prices and rates | `Portfolio`, `Holdings` |
| Instruments, series, authorization policy, HTTP, providers, configuration, migrations, wiring | several | rows written one statement at a time | | none of their own | not modelled |
| Web client | `src/src/` | stores | | its event client only | `EventOutbox` |

How they interact. The scheduler calls the import, the fallback, the feature and strategy
computations and the fill pass one after another. The fill pass, the feature runs and the backtests
read the bars and rates imports write; none locks out the other. Imports and the fill pass insert
client events inside their own transactions; the event handler polls the outbox and sends to
connected clients. Notices are written in the transaction of what they report and delivered by
another goroutine. Authentication revokes sessions; the event handler re-reads them every few seconds.

What makes each part correct, in a line: a price is never on the wrong side; a paper account is a
record nobody can edit, never short and never bought beyond its cash; an event that was committed
reaches everyone entitled to it once (unless a newer one overtook it, section 3.2); stored prices never mix two sources behind the reader's back;
a notice is sent once, not in quiet hours, and not forgotten; a code opens one session and guessing
is held back whatever requests race; an installation is set up once and an account has one origin;
what is stored as features and signals is what recomputing everything would store, and where it is not
it is known which rows; a backtest
accounts for every signal and every cent and does not read the future; a trade is one chain of
versions and no limit is reported as kept because something could not be measured.

## 2. Modules

| Module | What it is |
|---|---|
| `Costs` | scaled-integer decimal arithmetic and the price of one execution, as operators |
| `PaperTrading` | intents, orders, fills, bars, rates, the fill pass, crashes |
| `PaperAccount` | the first-in-first-out account view computed from the fills |
| `EventFeed` | what a client is promised: the abstract specification of the outbox |
| `EventOutbox` | writers, the outbox, stream handlers, reconnecting clients |
| `MarketImport` | import runs and items, the worker pool, the scope lock, findings |
| `Notify` | preferences, notices, two delivery passes, mail and push, crashes |
| `MemberLogin` | member codes, failures, blocks, locks and sliding-window rates |
| `Accounts` | processes and keys, setup, invitations, sessions, credentials |
| `Features` | feature runs over changing bars |
| `Signals` | strategy runs behind them |
| `Backtests` | one backtest from its first query to its transaction |
| `Holdings` | the portfolio's walk, valuation and limits, as operators |
| `Portfolio` | trades recorded by racing requests, the currency and the limits |
| `MC...` | the constants of the runs, and in `MCCosts` the reference definitions of `Costs` |
| `...Proofs` | the theorems about a module and their proofs: `PaperTradingProofs` (with those about `Costs` and `PaperAccount`), `OutboxProofs`, `NotifyProofs`, `ImportProofs`, `LoginProofs`, `AccountsProofs`, `SignalsProofs`, `PortfolioProofs` |

`PaperTrading` and `Backtests` use `Costs`, `PaperAccount` EXTENDS `PaperTrading`, `Signals` EXTENDS
`Features`, `Portfolio` EXTENDS `Holdings`, and `EventOutbox` INSTANCEs `EventFeed`. Operators named
in a comment "Fault: ..." are plausible bugs. No specification uses them; putting one in the place of
the definition it follows must break a property, which shows that the property depends on that code.

In every module an action is one transaction or one query, because the code holds no lock between
two. A request that reads and writes later is several actions, with what it read in between.

### PaperTrading, PaperAccount

A request is an entry of `requests` (`BeginPromote` and `CommitPromote`, `BeginSettle` and
`CommitSettle`). The fill pass (`paper/fill.go`) is a program
counter `step` over the snapshot `queue` of pending orders: `ReadBar`, `ReadRate`, `ReadStanding`,
then `RecordFill` or `MarkUnfillable`, with what was read in `read`. People cancel, bars are corrected
(`ObserveBar`, the rules of `upsertBar`), rates arrive and the process restarts between any two of
them. `cash` and `held` are what `standing()` sums from the fills; they are variables so that a state
carries them, and `RecordFill` moves them by the same amounts the fill's row holds. `told` holds
the outcomes written in the transaction that made them.

An order is named by its intent because `paper_orders.intent_id` is UNIQUE; a second promotion is the
rolled-back branch of `CommitPromote`. `SettleState` is the guarded `UPDATE ... WHERE state =
'pending'` of both `recordFill` and `markUnfillable`; neither reads how many rows matched, and the
model does not either. `order.at` and `fill.at` are the orders in which rows were written (the
columns `placed_at` and `filled_at`), and `order.newest` is a history variable: the newest stored
session when the order was placed.

### EventOutbox, EventFeed

Any number of writers have a transaction open at once. `Insert` draws an identifier inside one, `Commit`
makes its rows visible, also behind newer ones, `Rollback` leaves a hole. `overtaken` is a history
variable: the events that became visible to a client behind a newer one it could read. A handler's loop
(`api/events.go`) is `List`, `Deliver` for one row at a time, and the select it reaches with nothing to
send: `Revalidate` or `Heartbeat`. The ticker holds one tick (`due`).

The client is the shell's (`src/src/services/events.ts`). It runs `onMessage` only for a type it has a
listener for (`heard`: `authorizedEventTypes`); any other event moves the handler's cursor and not the client's
resume point. It applies what it has not seen and keeps the identifier as its resume point; one with
no resume point starts at the head, and `since` remembers where. `Drop` loses the connection with
whatever was on its way. `Refuse` is any answer to connecting that is not 200: the browser closes the stream
for good, the client takes that for a 401 and stops, until the person signs in again on the same page
(`Start`; `stores/auth.ts`). Signing out is a `Drop` and a `Refuse`. The client's duplicate check is a set of
the last 200 identifiers, in the model of all of them; the properties say that nothing below the resume point
comes again, so the size makes no difference to them. The views have streams of their own
(`services/marketData.ts`) that resume the same way.

`EventFeed` has no handlers, batches, connections or transactions: events are published, a client
subscribes behind the newest one and applies the next it may read and listens for; one that was published
behind a newer one it may skip or still apply. `DeliversTheFeed` is its specification with the committed log
for `published`, `since` for `from`, what the client applied, and the revoked clients without a
connection for `gone`.

### MarketImport

One run per command or night, one item per instrument. An item's steps are the worker's: `StartItem`,
`Fetch`, `Lock` (the advisory lock is tried, never waited for), `Persist` (bars with their revisions,
findings, and the item, on one transaction), each with its failures; `FinishRun` derives the run's
status. An item that cannot be marked as running stays 'queued' (`StartFails`): nothing takes it up again, a
retry included, and its run ends 'partial'. A signal (`stopping`) ends a context; a kill (`gone`) leaves the rows as they were. A bar is
its source hash and provider; validation is modelled by the gaps, rejections and suspicious jumps it
finds, over sessions that are all expected. `Refused` names instruments whose last night failed
before the behaviour begins, so that a retry is possible at once. Corporate actions, paging of a
provider's answer and bookkeeping counts are left out: nothing here depends on them.

### Notify

A notice is raised for everyone who consented, on the caller's transaction, with the moment quiet
hours let it go. Two passes (the ticker's of `scheduler/notify.go` and the night's) read the due rows,
claim one with a guarded update, send it and record the outcome; each of these is an action, an
answer may be lost after the server took the message (`LoseOutcome`) and the process may die
(`Crash`). Time is the time of day modulo a short day; `free`, `reached` and `unheard` are history
variables: whether the notice has ever been outside its window, how often a server took it, and how
often the answer to that was lost.

### MemberLogin

A request reads the clock once and runs its transactions later, so two requests may be judged out of
the order of their times. `StartSignIn` and `VerifyMemberCode` are the steps of the two handlers: the
rate of an origin, the member's row under its lock, the code issued, replaced, refused or used, the
failure counted, the block and the lock. `Administration` deactivates, unlocks and rotates the key.

### Accounts

`Processing` starts and stops processes (resolving the signing key, refusing a missing or wrong
credential key), and runs the operator's commands: the setup link, both rotations. `Serving` is one
request in steps: bootstrap, login, invitation, resend, acceptance, settings. `ResetOwnerPassword`,
revocations and `Tick` come at any time. A row keeps the key that made its digest and a credential the
key version that sealed it: what opens under which key is then a comparison.

### Features, Signals

A value is what it was computed from: the versions of the bars in its window, their split adjustment
and the composites it read. Two computations agree exactly when these do, so the store is compared with
what a computation of everything would store without a single formula. Two
definitions stand for the twenty: one that reads its own window and one that also reads the
composite. Each instrument has its exchange's calendar. Imports add, fill and revise bars and announce a split; a run is a sequence of loads and
writes, one transaction per instrument, with contained failures, failed runs and crashes. `Signals`
adds the strategy run that follows, in the same manner.

An incremental run does not always leave what a full one would (section 3.2), so the model says which rows
it may leave stale. `missed` is a history variable with single rows and single sessions of the composite: what a
run was begun for and failed on (`FailInstrument`) or died before (`Fail`, `Crash`); what it overlooked
because it lies outside the sessions incremental runs come to (`Overlooked`, computed from the calendars and the
touched sessions alone); everything, when two runs were under way at once. A later run that writes a row
takes it out again. `unscored` does the same for signals, by instrument. Everything that is not
named in them is claimed to be right.

### Backtests

`Run` is followed query by query (`ReadConfiguration`, `LoadBars`, `StampBars`, `LoadSignals`,
`LoadRest`) while imports correct bars and signals are recomputed; `Simulate` is one pass of the
session loop (due executions, valuation, rebalance); `Write` is the single transaction. Prices of
trades are those of `Costs`. The schedule is part of the configuration: `PeriodOf` gives the period of a session
under each of them, and a session is a rebalance when its period is new.

### Portfolio, Holdings

`trades` holds every version ever stored. `Record`, `Correct` and `Withdraw` read what counts and
decide; `FindPortfolio`, `EnsurePortfolio` and `WriteTrade` are the transactions that follow, the last
with its updates that name only versions that still count. `Holdings` is the walk over lots, the cross through
the euro, the view and the evaluation of a limit, as operators over the trades that count.

## 3. Runs

`CHECK_DEADLOCK FALSE` stands in every configuration but `Notices`: days, observations, events, runs,
requests, versions and restarts are bounded, so a behaviour really stops when they are used up, and the
arithmetic of `MCCosts` stops after its one input. In `Notices` time goes on for ever.

| Run | Checks | Result |
|---|---|---|
| `PaperRaces` | `TypeOK`, `OrdersComeFromActedIntents`, `NeverShort`, `NoLookahead`, `HistoryIsPermanent`, `DecidableOrdersSettle` | holds |
| `PaperCorrections` | `OutcomesAreToldOnce`, `FillsMatchTheirBars`, `AccountReconciles`, `BuysAreCovered` | holds |
| `OutboxStreams` | `NothingIsSentAgain`, `DeliversTheFeed`, `CommittedEventsArrive`, `RevokedStreamsEnd` | holds |
| `ImportRuns` | `FallbackNeverSplices`, `DecisionsRestOnTwoRuns`, `RunsEnd` | holds |
| `Notices` | `NobodyIsToldTwice`, `NeverSentEarly`, `NoticesSettle` | holds |
| `Logins` | `DeactivatedMembersAreOut`, `CodesOpenOneSession`, `AttemptsAreHeldBack` | holds |
| `AccountsOpen` | `ProcessesShareOneKey`, `InstallationIsWhole`, `AccountsComeFromInvitations`, `ResetsEndSessions` | holds |
| `FeaturesNightly` | `OnlyMissedRowsAreStale`, `ReadsArePointInTime`, `SignalsFollowValues` | holds |
| `Backtests` | `EverySignalHasOneOutcome`, `ResultReconciles`, `NoLookahead`, `DrawdownIsTheWorstFall`, `HalfEvenIsNearest`, `PricingIsAccurate` | holds |
| `BacktestsDaily` | `TradesAlternate` | violated |
| `PortfolioRecords` | `VersionsFormChains`, `PositionsStayWhole`, `WalkIsExact`, `LimitsAreNeverFlattered` | holds |
| `PortfolioSales` | `SalesTakeWhatIsHeld` | violated |

A run takes between seconds and three minutes on two workers; `PaperCorrections` is
the longest and has the most states (2.4 million).

Bounds, and why they are enough.

- `PaperRaces`: a purchase and a sale of the same instrument, two concurrent requests, three days (one
  to place, one to fill, one to go wrong after). Two requests are what a race needs; the orders
  differ in direction, so a lost or doubled one shows in `held`; one of them may wait for a bar
  in front of the other for as long as the days last.
- `PaperCorrections`: 0.7 bought and 0.3 sold of an instrument listed in another currency, at prices
  and with costs that do not divide; a balance that covers the purchase at one price and not at the
  other; each bar observed twice (stored, then corrected or replaced by the primary), and a restart
  anywhere.
- `OutboxStreams`: two writing transactions, three events and batches of two, so that a batch is cut, the later
  identifiers may become visible first, before or after a handler's cursor has passed the earlier ones, a
  hole appears between two events, and the connection is lost once and refused anywhere. The events are
  shared or of the client's person, heard or not, or of the owner, whom the client is not.
- `ImportRuns`: one instrument, two sessions, a night the primary refused, and two more runs of any
  kind that overlap, with one change of the source's mind (a restatement, a withdrawal or a rejected
  bar), one signal or kill anywhere, and items that cannot be started. Two more runs are the fallback behind the night and a run that
  races it, or the second primary run a decision needs.
- `Notices`: one person with mail or push, one device, one event, both passes, two attempts, a day of three
  moments with a window across midnight, one change of settings and one fault anywhere.
- `Logins`: one member and two requests; two codes, two wrong entries to a block and three to a lock,
  windows shorter and longer than the time that passes. Nothing in the code relates two members.
- `AccountsOpen`: two processes, two requests, two addresses, two key versions, and behaviours of five
  operations from an empty database and from an installed one.
- `FeaturesNightly`: two instruments on two exchanges, one of them closed on the third of five dates; two bars
  stored or revised by one import or by two; a full run, a composite or a full scoring by command; one failure
  or crash anywhere; a history gate of three sessions and blocks of four. The windows are three and two
  sessions, so a change reaches some stored sessions and not others. `Changing` bounds which bars move: A's missing
  second session, which shifts the gate of the fifth out of its run's reach; A's missing third, on which B's
  exchange is closed, so that a row of B is overlooked; A's newest and a stored one of B. One
  caller: overlapping runs are in the proofs only.
- `Backtests`: two instruments in two currencies, five sessions, daily and monthly schedules, one instrument held or two,
  exchanges closed for any sessions, also longer than the window of two, so that a holding has no price and a
  session no value; fallback bars, missing rates, four rankings, and configurations that are refused.
  The arithmetic beside them (`MCCosts`): every numerator and denominator up to 30 in size and of both signs (every residue,
  tie and sign of a small modulus) and prices and quantities up to 60 at two places, with a rate
  below, at and above par and with a minimum that binds and one that does not. `MCNext` lists the actions of
  `Next` one by one, with the arithmetic as one more.
- `BacktestsDaily`: the markets of `Backtests` with two holdings and a daily schedule.
- `PortfolioRecords`: two overlapping requests, four entries of two instruments, three versions.
- `PortfolioSales`: one request, a purchase and a sale dated before it.

Fairness. `PaperTrading`: the scheduler's goroutine starts a pass again every night and a running
pass goes on (weak fairness of `StartPass` and of `FillStep`); nothing is assumed of people, bars or
restarts. `EventOutbox`: a handler goes on round its loop, time passes (`Tick`), the client's
reconnect timer fires and is answered one way or the other (weak fairness of `Connect(c) \/ Refuse(c)`:
nobody has to be let in, and a refused client need not come back), and Go's `select`, which chooses
uniformly among ready cases, does not pass over a ready revalidation tick for ever (strong fairness of
`Revalidate`). A browser that stays offline or closes the page is outside it.
`MarketImport`: requests have time-outs and the lock is tried, not waited for, so a live worker goes
on, and `Import` returns when its workers have reported (weak fairness of `Work` and `FinishRun`).
`Notify`: time passes, the ticker starts passes and a pass goes on because a send has a time-out
(weak fairness of `Tick`, `StartPass`, `Deliver`); nothing is assumed of settings, faults or crashes.

Qualified properties say in their statement what they leave out, because the code leaves it out too:
`DeliversTheFeed` and `CommittedEventsArrive` do not promise an event that was overtaken, nor the latter anything to a client
that was refused; `ResetsEndSessions` does not speak of a login that overlapped a reset, `PositionsStayWhole` of
requests that overlapped or of an instrument a correction moved a trade away from, `NoticesSettle` of a row whose pass
died after claiming it, `RunsEnd` of a killed process, `NobodyIsToldTwice` of answers that were lost,
`OnlyMissedRowsAreStale` and `ReadsArePointInTime` of the rows in `missed`, `SignalsFollowValues` of
instruments in `unscored` and of a signal that still says the history is too short. `OutcomesAreToldOnce`
speaks of the set of outcomes told: the same one told twice does not show. Section 3.2 says what happens in
these cases.

### 3.1 What the violated runs show

`PortfolioSales`: `refusesForPosition` (`portfolio/service.go:274`) compares a sale with the sum of all
trades, whatever their dates. A sale dated before the only purchase is accepted, the walk meets it
first, finds no lot, drops the shares it asked for and leaves the whole purchase held.
`portfolio/fifo.go:44-45` says "A sale that would consume more than is held cannot reach here: the
service refuses it at the point of recording".

`BacktestsDaily`: `plan` looks at what is held (`backtest/service.go:335`) and not at what is queued. An instrument is
ranked on a session whose bar is the fallback provider's, because it has a signal then, but the simulation does
not read that bar (`backtest/repository.go:290`) and an earlier purchase waits over it. So the purchase is
queued a second time, both are executed at the next session, the second overwrites the first one's
holding (`service.go:421`), both are paid and the first one's shares are lost.
`backtest/accounting_integration_test.go:170-173` says "It cannot happen": "An instrument is only decided on for a
session it has a signal for, which is a session it traded". `ResultReconciles` states what holds in that
case too: the cash is still that of the trades, and no more is held than they bought.

### 3.2 What the models also showed, without a run of its own

Five claims are stated in the modules and do not hold; a configuration with the constants named shows
each.

- `CancelledOrdersNeverFill` (`PaperTrading`, any run with a pass): an order cancelled after the pass
  took its snapshot still gets its fill. `recordFill` (`paper/fill.go:323`) updates the order only
  while it is pending and does not read how many rows matched, so the order reads as cancelled while
  its fill moves cash and position. `paper/service.go:201` says "Cancel withdraws a pending order".
- `HoldingsMatchStanding` (`PaperAccount`, a purchase and a sale, two days): the
  account view folds fills by the session they were filled at (`paper/account.go:228`), the pass decides
  by sums. A sale recorded after a purchase but filled at an earlier session (its bar arrived late) is
  folded first, finds no lot, and the holding shown stays above the position the pass sells from.
- `OverlapsAreSerial` (`MarketImport`, two runs, one change): of two imports that take the scope's
  lock one after the other, the one that asked the provider first may write last and put the stale
  price back (`marketdata/service.go:180`). `src/specs/002-instruments-market-data/spec.md:213-214`
  asks for the data of a serial order or an explicit conflict.
- `CredentialsShareOneKey` (`Accounts`, two key versions): a server that holds the old version seals a
  credential with it after a rotation (`credentials/repository.go:386`); later starts are then refused.
- `RunsTellTheyPredate` (`Backtests`, one change): the rows and the stamp that tells how recent they
  are come from two statements (`backtest/repository.go:322`), so a bar or a signal stored in between
  is not in the run and is not later than its stamp; the comment at 144-145 says that what the run read
  is exactly what it records having read.

And `AtMostOncePerChannel` (`Notify`) fails when the
mail server's answer to QUIT is lost (`mail/smtp.go:101`), against the comment at `notify/deliver.go:35`.

Paper trading and events.

- Of two transactions that write events at once, the one with the later identifier may commit first and be
  delivered; the earlier event then lies behind the cursor and the resume point and never reaches that client
  (`events/repository.go:47`; every import worker and request handler writes). `api/events.go:160-161`
  promises that a reconnecting client is "replayed exactly what it missed". The model has this case, and
  `overtaken` names the events it may cost; take `overtaken` out of `Apply` and `DeliversTheFeed` fails.
- One answer other than 200 ends a client's stream until the next sign-in (`src/src/services/events.ts:110-115`,
  `:170-183`), a proxy's 502 while the server restarts too: the browser does not tell them apart.
- `markUnfillable` announces and notifies whether or not its guarded update matched a row, so a person
  who cancelled in between is still told that the order could not be filled (`paper/fill.go:367`).
  `OutcomesAreToldOnce` states what does hold.
- A sale whose brokerage minimum exceeds its proceeds lowers cash, possibly below zero: only a
  purchase is compared with the balance (`paper/fill.go:113`; the same in `backtest/`), and
  `costs/costs.go:60` calls the cash effect of a sale positive.
- A client that has received nothing yet has no resume point; what is committed while it is
  disconnected is not replayed (`api/events.go:69`).
- A handler revalidates only in the select it reaches with nothing to send, so a backlog delays the
  end of a revoked stream by its length (`api/events.go:98`).

Import and the night.

- An item that could not be marked as running stays 'queued', and a retry of its run, which takes what failed
  or was cancelled, leaves it out (`marketdata/service.go:177`, `repository.go:781`).
- A killed run stays 'running' and can be neither finished nor retried (`marketdata/service.go:128`).
- An import whose window begins at a gap cannot see it as one, raises nothing, and resolves the open
  finding with no bar stored (`marketdata/repository.go:592`, `marketdata/validate.go:31`).
- An accepted finding neither stays away nor resolves: the index that prevents duplicates covers open
  findings only (`marketdata/repository.go:706`), and settling updates open findings only (`:592`).
- `failItem` after a failed persist writes on a second connection while the scope's transaction is
  still open (`marketdata/service.go:217`).
- `lastSession` is set before the night's work, so an error of the import means that the night is not
  tried again by the same process (`scheduler/marketdata.go:164`).

Features and signals.

- A failed, partial or crashed feature pass is not picked up by the next incremental one, which looks at
  its own import run only; `scheduler/marketdata.go:50-52` says that the next pass picks the work up.
- The incremental result is not always the full one, against `features/recompute_integration_test.go:110`
  ("The incremental result is the full result"). A touched instrument recomputes over the reach of its own touched
  sessions only (`features/service.go:307-314`), while the composite it reads moved at every touched session: when
  one import brings A its bar of session 4 and B a missing one of session 2, the composite at 3 moves and
  A's relative strength at 3 stays what it was. Another member recomputes up to where the last touched
  date reaches on its own exchange, and if that exchange was closed on the date not beyond it (`:319`, `incremental.go:12`).
  These rows are `Overlooked`; without them in `missed`, `OnlyMissedRowsAreStale` fails in `FeaturesNightly`, and with
  them section 4 proves it.
- A bar filled in far back adds one to the history of every later session, and only those of its own run are scored
  again: the others keep an `insufficient_history` that a full pass would lift, although
  `features/repository.go:838-840` says the gate is the one a full pass applies.
- A split announced late touches no session; a bar filled in before an instrument's first one leaves
  reasons of absence outside the rewritten range; after a contained failure a read
  shows an old relative strength beside a new composite; of two overlapping runs the staler may commit last.

Notifications.

- `notify/model.go:9-10` says that the delivery pass reads consent: it does not, so a switch turned
  off after raising does not stop a notice. Quiet hours are not looked at again for a retry.
- A crash after a claim leaves the row 'sending' for ever. `recordFailure` counts from the attempts
  read before the send. A push to somebody without a device is recorded as sent.
- A decision that waits is told every night; `RaiseFallback` remembers what it told only through
  notification rows, so nobody's consent means nothing remembered.

Accounts.

- A login that verified the password before a reset opens its session after it, and its rehash may put
  the old password's hash back (`auth/service.go:311`).
- A server that was up when the signing key was rotated goes on with the old one until it restarts.
- Between `CreateInvitation`'s check for an account and its insertion an acceptance may commit, which
  leaves a pending invitation for somebody who has an account (`identity/repository.go:367`).
- The error for a lost `AUTH_SECRET` says to run `auth signing-key rotate`, and `run` resolves the key
  before it dispatches that command (`src/server/cmd/market-lens/main.go:1085-1096`).
- Two saves of an integration with the password left out may each keep what the other replaced.

Backtests and portfolio.

- Two sales recorded together may both be accepted for the same shares (`portfolio/service.go:213`); a
  correction that names another instrument does not look at the one it leaves, whose position can go
  below zero (`:263`). The comment at `:252-257` says that a negative position is refused.
- `EnsurePortfolio`'s default may overwrite a currency set in between (`portfolio/repository.go:66`).
- The cursor of the trade list, date and sequence, is not unique among versions (`:186`).

## 4. Proofs

`tlapm` checks eight modules to the last leaf; a component's theorems are in a module that EXTENDS its
specification. They hold for every value of the constants that the named assumptions allow: any number
of people, instruments, requests, processes, runs, sessions, events, faults and restarts. Each
module follows one pattern: an invariant `IInv`, which TLC checked on the component's run before it was
proved, the lemmas `InvInit` and `InvStep` (`InvNext`) with one step per action, `Invariance`
(`Spec => []IInv`), and the properties as corollaries.

| Module | Proves | Of the runs' properties |
|---|---|---|
| `PaperTradingProofs` | `RoundingIsNearest` | `HalfEvenIsNearest` |
| | `TypeCorrect`, `NoShortPositions`, `BuysStayCovered`, `OrdersBelongToActedIntents`, `StatesAgreeWithFills`, `PeopleAreToldOnce`, `FillsLookOnlyForward`, `TrackRecordIsPermanent`, `FillsKeepTheirBars` | every one of `PaperTrading` but `DecidableOrdersSettle` |
| | `FiguresReconcile` | `AccountReconciles` |
| `OutboxProofs` | `SentOnce`, `OutboxImplementsFeed` | `NothingIsSentAgain`, `DeliversTheFeed` |
| `NotifyProofs` | `ToldOnce`, `NotEarly` | `NobodyIsToldTwice`, `NeverSentEarly` |
| `ImportProofs` | `NeverSpliced`, `RaisedTwice` | `FallbackNeverSplices`, `DecisionsRestOnTwoRuns` |
| `LoginProofs` | `TypeCorrect`, `OutAtOnce`, `OneSessionPerCode`, `HeldBack` | all of `MemberLogin` |
| `AccountsProofs` | `TypeCorrect`, `OneKey`, `OpenedWholly`, `OneAccountEach`, `OutByReset` | all of `Accounts` |
| `SignalsProofs` | `StoreIsFreshOrOwed`, `OnlyMissedRowsAreStaleHolds`, `ReadsArePointInTimeHolds` | `OnlyMissedRowsAreStale`, `ReadsArePointInTime` |
| `PortfolioProofs` | `OneChainEach`, `NeverBelowZero`, `LimitsHold`, `WalkHolds` | all of `Portfolio` |

### 4.1 The invariants, and why they are needed

`PaperTradingProofs`. First the arithmetic: `RoundHalfEven` of a natural number by a positive one is at
most half a unit from the exact quotient, a tie going to the even side (`RoundHalfEvenNearest`); the same
with signs (`DivideHalfEvenNearest`); so `HalfEvenIsNearest` holds for any bound on the operands and any
scale (`RoundingIsNearest`). Then the machine:

    IInv == TypeOK /\ SnapshotHolds /\ PromotersHaveAccounts /\ StandingHolds
            /\ NothingFromTheFuture /\ UndecidedAreUntold /\ OutcomesAreToldOnce
            /\ OrdersComeFromActedIntents /\ FilledOrdersHaveFills /\ NeverShort /\ NoLookahead

The properties in it are not inductive alone. `NeverShort` holds although the position is read in
one transaction and spent in a later one because nothing but the pass itself lowers a position; the
invariant says so through `StandingHolds` (the cash and the position the verdict rests on still
cover it when the fill is written) and `SnapshotHolds` (the snapshot names each order once, and nobody
but the pass settles an order of it, except by cancelling). `NoLookahead` needs
`NothingFromTheFuture` (no bar of a session after today is stored, and a promotion's session is today
while its request is open). `OrdersComeFromActedIntents` needs `PromotersHaveAccounts`.
`OutcomesAreToldOnce` needs `UndecidedAreUntold` (nobody has been told of an undecided order, nor of a
cancelled one still in the snapshot). `FilledOrdersHaveFills`, that an order's state and its fill
agree, is proved (`StatesAgreeWithFills`) and has no run. `BuysAreCovered` and
`HistoryIsPermanent` are action properties that follow from the same invariant. That the cash effect
of an execution is an integer whenever the rate it divides by is not zero (`PriceType`, from
`RoundHalfEvenType`, `MulType`, `DivType`) is what makes cash a number.

`FillsKeepTheirBars` adds a second invariant. A correction may come between the read of a bar and the
write of its fill, so the price of a fill need not be the stored one even at the moment it is
written. `ReadsRestOnBars` and `FillsRestOnBars` say what is kept: a primary bar was there at the
observation the read noted, and if it now has another price it was observed later, which is exactly
what the divergence marker compares. `RestsOnFrame` shows that `ObserveBar` cannot break it.

`FiguresReconcile` adds a third, `CashHolds`: a person's cash is the starting cash plus the effects of
the person's fills. Only `Open` and `RecordFill` move either side, and `Open` finds no fill yet
(`OrdersComeFromActedIntents`, `FilledOrdersHaveFills`). What is shown comes from the other direction, the
lots. A buy adds a lot that costs what it took from the cash; in a sale, what is consumed of a lot and what
is left of it are together what it cost, however the share was rounded (`TakeFromCases`, `SaleConserves`).
So a position's results less the cost of its lots are the sum of its effects, in whatever order the fills
are folded (`PositionConserves`), and the positions together are the effects of every fill
(`ShownIsEarned`).

`OutboxProofs`.

    IInv == TypeOK /\ Bounded(log) /\ (\A w \in Writers : Bounded(open[w])) /\ IdsAreUnique /\ CursorsAreAhead

`NothingIsSentAgain` compares what was applied with what is on its way; it needs `CursorsAreAhead` (a
connection's cursor is not behind what its client applied, and its batch is committed, the client's own and
beyond the cursor). `Bounded` makes `LogHead` a number, and `ListIsPrefix` shows that the limit of a
batch leaves out no event before one it takes. `OutboxImplementsFeed` shows `DeliversTheFeed` step by
step: each action maps to a step of `EventFeed` or a stutter, under a second invariant, `FeedInv`
(`NothingIsSkipped` of every client): beyond its starting point, what a client may read up to its resume point
or its cursor it has applied or it is overtaken, and a batch leaves out nothing before an event it holds that
is not overtaken. It holds for any number of writing transactions: what a commit makes visible behind
a cursor, a resume point or an event of a batch is, by definition, overtaken by the event that stands there, and a
resume point or a cursor always stands on an event that the client may read (`StandsOn`).

`NotifyProofs`.

    IInv == Shape /\ RowsAreOld /\ RowsHold /\ PassesHold /\ OneSender

Two passes may have read the same row. `OneSender` says that no two are sending it, and `RowsHold` that a
row that may be claimed again was handed over only where an answer was lost; together they carry
`NobodyIsToldTwice` through lost answers, crashes and retries. `WaitsForTheEnd` and `BatchHolds` carry
`NeverSentEarly`: a row that has seen no moment outside its window still waits for the window's end, and what
a pass has read has seen one. `RowsAreOld` keeps a new raise from meeting an old row.

`ImportProofs`.

    IInv == TypeOK /\ BarsHold /\ FallbackNeverSplices /\ RunsHold /\ ItemsHold /\ FindingsHold

`FindingsHold` ties each finding to the committed items of the two runs it names, so that
`DecisionsRestOnTwoRuns` survives everything later runs do; `ItemsHold` says a committed item is done
and never fetched again, which keeps the condition it raised what it was. `BarsHold` says who wrote each
bar, which `FallbackNeverSplices` needs when a fallback run and a primary one overlap.

`LoginProofs`.

    IInv == Typed /\ SessionsHold /\ DeactivatedMembersAreOut /\ CodesOpenOneSession
            /\ GuessesHold /\ LockHolds /\ RatesHold

Requests are judged out of the order of their clocks, so a limit on the window that ends now is not
inductive. `LockHolds` and `RatesHold` speak of the window that ends at any time at all; that the code's
own comparison, which counts everything since the window's start, later times included, implies it is
`TotalMonotone`. `GuessesHold` relates the wrong entries of an active code to the failures in a row,
which reset at the threshold. `SessionsHold` (a session's code is active no more) makes
`CodesOpenOneSession` inductive.

`AccountsProofs`.

    IInv == ProcsHold /\ SetupHolds /\ NothingYet /\ InvitationsHold /\ SessionsHold /\ RequestsHold

`KeysHold` (in `ProcsHold`) makes generations name keys; `SetupHolds` and `NothingYet` describe an
installation before and after its setup; `InvitationsHold` is a bijection between members and accepted
invitations; `SessionsHold` contains `ResetsEndSessions`, which needs to know that a hash with older
parameters is the first one (`SetupHolds`, `RequestsHold`), because a rehash may write back an old password's.

`PortfolioProofs`.

    IInv == Rows(trades) /\ Chains(trades) /\ RequestsHold /\ AloneHolds

`Chains` is `VersionsFormChains`, for any racing requests; it needs `Rows` (a sequence number is at most
the row's position, so `1 + Highest` is new). `PositionsStayWhole` is about requests that come one
after another, and `AloneHolds` says why it holds although a request is judged in one step and writes
in a later one: as long as nothing overlapped, what the one busy request was judged by is still true. Each
write then leaves the instrument's trades as the judged set with one record exchanged for another of
the same quantity and direction (`Inserted`, `Replaced`, `TakenBack`, `HeldWith`). An instrument that a
correction moved a trade away from is left out (`Left` in the property, `MovedFrom` in the invariant): the
service does not judge what the correction leaves behind, so its position can go below zero with a single
request at a time (section 3.2).

`LimitsHold` is about what is derived from the trades, for any trades that count and any stored prices and
rates. Its second invariant, `SettingsHold`, says that limits are natural numbers and that nobody
has a trade, or a request about to write one, without an accounting currency; so every view is of a
currency that has rates. `FoldExists` and `FoldTyped` say that a fold over a finite collection exists
and that a set which contains its base and is closed under its step contains its result; with
them the walk, its lots and results, the totals of the view and the worth of a label are numbers
(`WalkType`, `HoldingType`, `ViewIs`). `DivNearest` and `DivAgainst` bound the rounding of
`risk/evaluate.go`'s quotient against a threshold, `LargestGroup` says that the group judged is worth
at least as much as every label's holdings together, and `JudgementIsSound` puts them together, limit
kind by limit kind.

`WalkHolds` says what the walk is equal to. A fold over a sequence with one element more is one step
more (`SumAppend`, `ConsumeAppend`, `WalkAppend`), and the order of the walk ends with the trade that is after
no other (`OrderAppend`), so a walk over trades is a walk over all but the last and then the last
(`WalkedAppend`). `WalkConserves` is the induction over that for the costs: a lot is kept, taken or
divided (`ConsumeCases`), and in none of the three is a unit lost. `WalkIsFifo` is the one for the
shares. `Matches(open, B, s)` says that the lots are what `s` sold shares leave of the purchases `B`,
counted from the first; a purchase adds its lot (`MatchAppend`), because no more was sold than bought
before (`BoughtCoversSold`, from `Chronological`); a sale of `q` turns what `s` leave into what `s + q`
leave (`SaleKeeps`), by an induction over the purchases. That two trades never have the same place in
the order comes from the chains of versions (`Distinct`).

`SignalsProofs`.

    IInv == Shapes /\ TouchedHaveBars /\ NoRowsAhead
            /\ (\A p \in Passes : RunHolds(p)) /\ ValuesHold /\ CompositesHold

`OnlyMissedRowsAreStale` speaks of moments when nothing is under way. What is kept in between: a stored row is
in `missed`; or `Fresh`, that is, what the bars give, or moved by a bar of an import whose pass is still due; or a
run owes it (`Owes`: what the run's import touched moves the row, and the run has not written that instrument
yet). `CompositesHold` says the same of the composite. A run computes from histories it read earlier
without a lock. `RunHolds` says of a run that had no other beside it (`clean`) that what it has loaded
has only grown since, and that where it differs from the tables an import has come in between whose own
pass is due and will write the row again (`LoadHolds`); that what it overlooks stays in `missed` until it writes that
member (`OverlookedHolds`); and of a run that had another beside it that everything is in `missed` (`Lost`).
A run that fails or dies leaves what it owed in `missed` (`AbandonedIsMissed`).

That this is enough rests on facts about the formulas and the scopes, for any number of exchanges and any calendars: a row
rests only on bars near it (`RowAgrees`, `CompositeAgrees`), where growth cannot change why a window is
refused or how it is adjusted (`FirstBarStays`, `WindowAgrees`); what an incremental run is asked to write reaches
everything that its touched bars move (`ScopeCovers`, `CompositeRangeCovers`) but what is out of its reach, and
that is what the model names as overlooked (`OutOfReachIsOverlooked`); and nothing is stored
where there is no bar (`NoRowsAhead`). `ReadsArePointInTime` follows from the same invariant
(`PointInTimeWhenQuiet`), because the history cut off at a session is one the present history has grown from.
What the theorems say of overlapping runs is only that everything is missed after them, until it is written again.

### 4.2 Assumptions

`ScaleAssumption` (the scale is a positive number); `PaperAssumption` (finitely many intents and
instruments, prices, balances and rates positive, quotients of two stored rates not rounding to zero, cost factors not
negative); `OutboxAssumption` (each client belongs to a user, the kinds of events are for known readers, a batch is not empty); `NotifyAssumption`
(windows of two different times, limits of at least one); `ImportAssumption` (the shapes of a
provider's answers, at least one worker); `LoginAssumption` and `AccountsAssumption` (thresholds,
windows, limits and lifetimes of at least one, members not also origins); `PortfolioAssumption`
(quantities and prices above nothing, costs not below it, as `portfolio/service.go:178-190` refuses
everything else) and `MarketAssumption` (thresholds, stored closes and stored rates are numbers, the last two never
negative, for every currency a view may need); `CalendarAssumption` (an exchange's sessions are
dates, and the bars stored at the start are of its instrument's exchange), `SessionAssumption` (dates are numbered
from one), `WindowAssumption` (a window has at
least one session, a relative strength's at least two: it is a return) and `NameAssumption` (no
instrument is called "composite"), which the definitions of `features/definition.go:46-89` and the
tables meet. TLC evaluates each in the run of its component.

### 4.3 Induction over sets

tlapm cannot instantiate the induction theorems that take an operator. It can use the least element of a
set of numbers (`SmallestSize`, from `WFMin`), and with it the statement that a set of subsets of a
finite `T`, which contains every subset whose proper subsets it contains, contains them all
(`SubsetInduction`). `LoginProofs`, `PortfolioProofs` and
`PaperTradingProofs` prove with it that the sums the models fold over sets exist
(`SumExists`, `FoldExists`), that the order of the fold does not matter (`HeldFacts`, `TotalFacts`), and what one
element adds. In the last two the statement is about any fold (`Foldable`, `FoldOf`, `Steps`: the
collection, its step and what it reaches as sets and functions), and a sequence is folded as the set
of its positions (`SequenceFoldable`; a sequence with one
element more is one step more, `FoldsToMore`). Each operator folded this way needs a lemma of its own that its
definition is such a fold (`ConsumeIsChosen`, `OrderIsChosen`, `WalkIsChosen`, `SumIsChosen`, `WorthIsChosen`).

### 4.4 Model-checked only

- Liveness: `DecidableOrdersSettle`, `CommittedEventsArrive`, `RevokedStreamsEnd`, `RunsEnd`,
  `NoticesSettle`. The prover handles neither fairness nor ENABLED.
- `PricingIsAccurate`: its bound is for rates that are large relative to the scale, and is not true of all.
- What folds compute exactly over a sorted sequence: `ResultReconciles` and
  `DrawdownIsTheWorstFall` of `Backtests`. `SetToSortSeq` has a definition the prover cannot expand.
- `SignalsFollowValues`: scoring reads and writes in blocks, and the property compares its result with one
  computed at once from the values; an induction over the blocks has not been attempted.
- `EverySignalHasOneOutcome` and `Backtests!NoLookahead`: not attempted yet (section 6).

## 5. Not modelled

Listed with reasons in `PROJECT.json`. In short: floating-point indicators, scores and statistics; HTTP
decoding, provider response parsing, the encryption of a push or a credential; read-only reports and
the paging of listings; configuration and migrations; the instrument catalogue, one statement at a
time. Below the models: PostgreSQL itself (a transaction is one action where the code's reads
and writes in it cannot be told apart from outside; serialization failures are not modelled) and the
clock, except days in `PaperTrading` and the few moments of `Notify`, `MemberLogin` and `Accounts`.

## 6. Plan

Proofs: `NoLookahead` and `EverySignalHasOneOutcome` of `Backtests`: what a decision rests on when an
execution waits over sessions.

Modelling left over: the night as one sequence with its early returns and `lastSession`; the fallback's
Observe, told once per change; keyset paging of rankings and listings under concurrent writes.
