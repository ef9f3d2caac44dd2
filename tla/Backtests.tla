----------------------------- MODULE Backtests -----------------------------
(***************************************************************************)
(* One backtest run (internal/backtest): the stored facts are loaded by    *)
(* separate queries while imports and signal computations go on, the       *)
(* portfolio is simulated session by session over what was loaded, and the *)
(* result is written in one transaction.                                   *)
(*                                                                         *)
(* Sessions are days, numbered.  Instruments are numbered in the order of  *)
(* their identifiers.  Money, prices, rates and quantities are decimals    *)
(* scaled by Scale, as in Costs.                                           *)
(***************************************************************************)
EXTENDS Costs, FiniteSets, SequencesExt

CONSTANTS
    Instruments,      \* identifiers, a set of integers
    Sessions,         \* days, a set of integers
    CurrencyOf,       \* listing currency of each instrument
    Accounting,       \* the configuration's accounting currency
    PeriodOf,         \* of each schedule: the period a session falls in; daily, the session itself
    GiveUpSessions,   \* how long the simulation waits for an instrument to trade again
    CostModel,        \* slippage, spread, brokerage rate and minimum
    Markets,          \* what may be stored when the run starts
    Moved(_),         \* a bar's price after a correction
    Changing,         \* the instruments and sessions that may change during the run
    MaxChanges        \* bound on corrections and recomputations during the run

VARIABLES
    phase,      \* how far Run has come
    market,     \* the database: configuration, bars, signals, rates and benchmark series
    clock,      \* stamps given out by imports and computations
    changes,    \* corrections and recomputations so far
    loaded,     \* inputs: what the run holds in memory
    book,       \* the portfolio, the queue and the outcome so far
    at,         \* the session the loop is at
    result      \* the rows of the stored run

vars == <<phase, market, clock, changes, loaded, book, at, result>>

NoBar == [provider |-> "none", open |-> 0, close |-> 0, observed |-> 0]

NoSignal == [score |-> 0, scored |-> FALSE, present |-> FALSE, computed |-> 0]

NoRate == 0

Nothing == [trades |-> <<>>]

SumSeq(values) == FoldLeft(LAMBDA a, b : a + b, 0, values)

HighestIn(stamps) == CHOOSE t \in stamps \cup {0} : \A u \in stamps \cup {0} : u <= t

-----------------------------------------------------------------------------
(***************************************************************************)
(* Rules of the simulation over loaded inputs d: bars (the fallback        *)
(* provider's left out), the calendar, which is every session any          *)
(* instrument traded, signals and rates.                                   *)
(***************************************************************************)

Traded(d, i) == {s \in Sessions : d.bars[i][s].provider # "none"}

Calendar(d) == UNION {Traded(d, i) : i \in Instruments}

\* Calendar sessions after s, up to and including t.
Apart(d, s, t) == Cardinality({c \in Calendar(d) : s < c /\ c <= t})

NextTradedSession(d, i, after) ==
    LET later == {s \in Traded(d, i) : s > after}
        next  == CHOOSE s \in later : \A t \in later : s <= t
    IN  IF {c \in Calendar(d) : c > after} = {} THEN [reason |-> "no_next_session"]
        ELSE IF later = {} \/ Apart(d, after, next) > GiveUpSessions
             THEN [reason |-> "not_executable"]
        ELSE [session |-> next]

\* Fault: a closed market is valued at the session it opens on again.
PriceAsOfNext(d, i, s) ==
    LET known == {t \in Traded(d, i) : t >= s}
    IN  IF known = {} THEN 0 ELSE CHOOSE t \in known : \A u \in known : t <= u

\* The session whose close values a holding; 0 when there is none in the window.
PriceAsOf(d, i, s) ==
    LET known == {t \in Traded(d, i) : t <= s}
        last  == CHOOSE t \in known : \A u \in known : u <= t
    IN  IF known = {} \/ Apart(d, last, s) > GiveUpSessions THEN 0 ELSE last

Converted(i) == CurrencyOf[i] # Accounting

Rate(d, i, s) == IF Converted(i) THEN d.rates[s] ELSE Scale

AffordableQuantity(budget, price, rate, converted) ==
    LET slipped   == ToAccounting(price + Mul(price, CostModel.slippage), rate, converted)
        crossed   == IF converted THEN slipped + Mul(slipped, CostModel.spread) ELSE slipped
        perShare  == crossed + Mul(crossed, CostModel.rate)
        available == budget - CostModel.minimum
    IN  IF perShare <= 0 \/ available <= 0 THEN 0
        ELSE (Div(available, perShare) \div Scale) * Scale

-----------------------------------------------------------------------------
(***************************************************************************)
(* The portfolio and one pass of the session loop.                         *)
(***************************************************************************)

NewBook(capital) ==
    [cash |-> capital, held |-> [i \in Instruments |-> 0], queue |-> <<>>,
     trades |-> <<>>, skips |-> <<>>, positions |-> <<>>, equity |-> <<>>,
     rebalances |-> 0]

Skip(b, i, signal, reason) ==
    [b EXCEPT !.skips = Append(@, [instrument |-> i, signal |-> signal, reason |-> reason])]

\* The largest whole quantity, at most the one asked for, that cash can pay.
FundedQuantity(b, asked, price, rate, converted) ==
    Scale * HighestIn({n \in 0..(asked \div Scale) :
                b.cash + Price(CostModel, "buy", n * Scale, price, rate, converted).cashEffect >= 0})

Smaller(a, b) == IF a <= b THEN a ELSE b

\* Fault: a sale leaves the shares in the book.
AfterTradeKept(b, item, s, quantity, effect) ==
    [b EXCEPT !.cash = @ + effect, !.held[item.instrument] = quantity,
              !.trades = Append(@, [instrument |-> item.instrument, signal |-> item.signal,
                     session |-> s, direction |-> item.direction, quantity |-> quantity,
                     cashEffect |-> effect])]

AfterTrade(b, item, s, quantity, effect) ==
    [b EXCEPT !.cash = @ + effect,
              !.held[item.instrument] = IF item.direction = "buy" THEN quantity ELSE 0,
              !.trades = Append(@, [instrument |-> item.instrument, signal |-> item.signal,
                     session |-> s, direction |-> item.direction, quantity |-> quantity,
                     cashEffect |-> effect])]

(***************************************************************************)
(* Perform one queued decision on the session it falls due, or record why  *)
(* it did not happen.  A sale sells what is held then; a purchase is sized *)
(* by its target and by the cash there is then.                            *)
(***************************************************************************)
Execute(d, b, item, s) ==
    LET i     == item.instrument
        price == d.bars[i][s].open
        rate  == Rate(d, i, s)
        Sized(quantity) ==
            IF item.direction = "sell" /\ quantity = 0 THEN Skip(b, i, item.signal, "not_selected")
            ELSE IF quantity <= 0 THEN Skip(b, i, item.signal, "no_cash")
            ELSE AfterTrade(b, item, s, quantity,
                     Price(CostModel, item.direction, quantity, price, rate, Converted(i)).cashEffect)
        Affordable == AffordableQuantity(Smaller(item.budget, b.cash), price, rate, Converted(i))
    IN  IF s \notin Traded(d, i) THEN Skip(b, i, item.signal, "no_price")
        ELSE IF rate = NoRate THEN Skip(b, i, item.signal, "no_rate")
        ELSE Sized(IF item.direction = "sell" THEN b.held[i]
                   ELSE FundedQuantity(b, Affordable, price, rate, Converted(i)))

Held(b) == {i \in Instruments : b.held[i] > 0}

InOrder(ids) == SetToSortSeq(ids, <)

PositionValue(d, i, quantity, s) ==
    LET priced == PriceAsOf(d, i, s)
    IN  ToAccounting(Mul(d.bars[i][priced].close, quantity), Rate(d, i, priced), Converted(i))

\* A holding with no price in the window, or no rate on its price's session.
Unvalued(d, i, s) ==
    LET priced == PriceAsOf(d, i, s) IN priced = 0 \/ Rate(d, i, priced) = NoRate

Value(d, b, s) ==
    LET valued == {i \in Held(b) : ~ Unvalued(d, i, s)}
        worth  == SumSeq([n \in DOMAIN InOrder(valued) |->
                      PositionValue(d, InOrder(valued)[n], b.held[InOrder(valued)[n]], s)])
    IN  [investable |-> b.cash + worth, complete |-> valued = Held(b)]

\* The rows behind a valuation.
Positions(d, b, s) ==
    LET held == InOrder(Held(b))
    IN  [n \in DOMAIN held |->
            [session |-> s, instrument |-> held[n], quantity |-> b.held[held[n]],
             priced |-> IF Unvalued(d, held[n], s) THEN 0 ELSE PriceAsOf(d, held[n], s)]]

EquityPoint(b, valued, s) ==
    [session |-> s, cash |-> b.cash, stated |-> valued.complete,
     total |-> IF valued.complete THEN valued.investable ELSE 0]

IsRebalance(d, s) ==
    LET before == {c \in Calendar(d) : c < s}
            period == PeriodOf[d.rebalance]
    IN  before = {} \/ period[s] # period[CHOOSE c \in before : \A e \in before : e <= c]

\* Score descending, unscored last, then identity.
Ranked(d, s) ==
    LET sig == [i \in Instruments |-> d.signals[i][s]]
        Before(i, j) == \/ sig[i].scored /\ ~ sig[j].scored
                        \/ sig[i].scored /\ sig[j].scored /\ sig[i].score > sig[j].score
                        \/ sig[i].scored = sig[j].scored /\ sig[i].score = sig[j].score /\ i < j
    IN  SetToSortSeq({i \in Instruments : sig[i].present}, Before)

Schedule(d, b, i, direction, s, budget) ==
    LET next == NextTradedSession(d, i, s)
    IN  IF "reason" \in DOMAIN next THEN Skip(b, i, s, next.reason)
        ELSE [b EXCEPT !.queue = Append(@, [instrument |-> i, signal |-> s,
                  direction |-> direction, due |-> next.session, budget |-> budget])]

\* Fault: a holding whose sale is queued is reported as not selected too.
PlanTwice(d, b, investable, s) ==
    LET ranked   == Ranked(d, s)
        scored   == SelectSeq(ranked, LAMBDA i : d.signals[i][s].scored)
        desired  == {scored[n] : n \in 1..Smaller(d.sizing, Len(scored))}
        Settle(c, i) ==
            IF i \notin desired /\ i \in Held(b) THEN Schedule(d, Skip(c, i, s, "not_selected"), i, "sell", s, 0)
            ELSE IF i \notin desired THEN Skip(c, i, s, "not_selected")
            ELSE IF i \in Held(b) THEN Skip(c, i, s, "already_held")
            ELSE Schedule(d, c, i, "buy", s, Div(investable, d.sizing * Scale))
    IN  FoldLeft(Settle, b, ranked)

(***************************************************************************)
(* What the portfolio should hold from this session's ranking.  An         *)
(* instrument the strategy said nothing about today is left alone.  Sales  *)
(* are queued before purchases.                                            *)
(***************************************************************************)
Plan(d, b, investable, s) ==
    LET ranked   == Ranked(d, s)
        scored   == SelectSeq(ranked, LAMBDA i : d.signals[i][s].scored)
        desired  == {scored[n] : n \in 1..Smaller(d.sizing, Len(scored))}
        target   == Div(investable, d.sizing * Scale)
        selling  == (Held(b) \cap ToSet(ranked)) \ desired
        Sell(c, i) == Schedule(d, c, i, "sell", s, 0)
        Settle(c, i) ==
            IF i \notin desired THEN Skip(c, i, s, "not_selected")
            ELSE IF i \in Held(b) THEN Skip(c, i, s, "already_held")
            ELSE Schedule(d, c, i, "buy", s, target)
    IN  FoldLeft(Settle, FoldLeft(Sell, b, InOrder(selling)),
                 SelectSeq(ranked, LAMBDA i : i \notin selling))

\* One session of simulate: what falls due, what it is all worth, what to do next.
SessionStep(d, b, s) ==
    LET Due(p)   == p.due = s
        Later(p) == p.due # s
        Closed(c, valued) == [c EXCEPT !.positions = @ \o Positions(d, c, s),
                                       !.equity = Append(@, EquityPoint(c, valued, s))]
        Rebalanced(c, valued) ==
            IF IsRebalance(d, s)
            THEN Plan(d, [Closed(c, valued) EXCEPT !.rebalances = @ + 1], valued.investable, s)
            ELSE Closed(c, valued)
        Valued(c) == Rebalanced(c, Value(d, c, s))
    IN  Valued(FoldLeft(LAMBDA c, p : Execute(d, c, p, s),
                        [b EXCEPT !.queue = SelectSeq(@, Later)], SelectSeq(b.queue, Due)))

-----------------------------------------------------------------------------
(***************************************************************************)
(* The measures: the curve of the sessions that could be valued, its       *)
(* deepest fall from a running peak as a fraction <<value, peak>>, and the *)
(* benchmark's coverage of the curve's range.  The floating-point figures  *)
(* that only scale these (annualised return, volatility) are left out.     *)
(***************************************************************************)

Curve(b) == SelectSeq(b.equity, LAMBDA p : p.stated)

DeeperFall(f, g) == f[1] * g[2] < g[1] * f[2]

\* Fault: the fall is taken from the first value.
DrawdownFromStart(values) ==
    FoldLeft(LAMBDA f, v : IF DeeperFall(<<v, values[1]>>, f) THEN <<v, values[1]>> ELSE f,
             <<1, 1>>, values)

Drawdown(values) ==
    LET Walk(w, v) == LET peak == Larger(w.peak, v)
                      IN  [peak |-> peak,
                           fall |-> IF peak > 0 /\ DeeperFall(<<v, peak>>, w.fall)
                                    THEN <<v, peak>> ELSE w.fall]
    IN  FoldLeft(Walk, [peak |-> values[1], fall |-> <<1, 1>>], values).fall

\* Days, when a date is not of the calendar.
SessionsApart(d, s, t) == IF {s, t} \subseteq Calendar(d) THEN Apart(d, s, t) ELSE t - s

MeasureBenchmark(d, from, to) ==
    LET within == {s \in d.benchmark : from <= s /\ s <= to}
        first  == CHOOSE s \in within : \A t \in within : s <= t
        last   == CHOOSE s \in within : \A t \in within : t <= s
    IN  IF within = {} THEN "insufficient_sessions"
        ELSE IF SessionsApart(d, from, first) > GiveUpSessions THEN "series_starts_after_range"
        ELSE IF SessionsApart(d, last, to) > GiveUpSessions THEN "series_ends_before_range"
        ELSE IF Cardinality(within) < 2 THEN "insufficient_sessions"
        ELSE "measured"

Measure(d, b) ==
    LET curve  == Curve(b)
        values == [n \in DOMAIN curve |-> curve[n].total]
        absent == Len(curve) < 2
    IN  [strategy  |-> IF absent \/ values[1] <= 0 THEN "insufficient_sessions" ELSE "measured",
         drawdown  |-> IF absent \/ values[1] <= 0 THEN <<1, 1>> ELSE Drawdown(values),
         benchmark |-> IF absent THEN "insufficient_sessions"
                       ELSE MeasureBenchmark(d, curve[1].session, curve[Len(curve)].session)]

-----------------------------------------------------------------------------
(***************************************************************************)
(* The run against the database.                                           *)
(***************************************************************************)

Empty == [bars |-> [i \in Instruments |-> [s \in Sessions |-> NoBar]],
          signals |-> [i \in Instruments |-> [s \in Sessions |-> NoSignal]],
          rates |-> [s \in Sessions |-> NoRate], benchmark |-> {}, sizing |-> 0, rebalance |-> "unread",
          barsThrough |-> 0, signalsThrough |-> 0]

Init ==
    /\ phase = "requested"
    /\ market \in Markets
    /\ clock = 1 /\ changes = 0
    /\ loaded = Empty
    /\ book = NewBook(market.configuration.capital)
    /\ at = 0
    /\ result = Nothing

\* The bars a backtest may read: never the fallback provider's.
Readable(bars) ==
    [i \in Instruments |-> [s \in Sessions |->
        IF bars[i][s].provider = "primary" THEN bars[i][s] ELSE NoBar]]

\* The published configuration; a sizing rule the simulation does not know is refused.
ReadConfiguration ==
    /\ phase = "requested"
    /\ loaded' = [loaded EXCEPT !.sizing = market.configuration.sizing,
                                !.rebalance = market.configuration.rebalance]
    /\ phase' = IF market.configuration.sizing >= 1 THEN "configured" ELSE "refused"
    /\ UNCHANGED <<market, clock, changes, book, at, result>>

LoadBars ==
    /\ phase = "configured"
    /\ loaded' = [loaded EXCEPT !.bars = Readable(market.bars)]
    /\ phase' = "bars"
    /\ UNCHANGED <<market, clock, changes, book, at, result>>

\* The stamp comes from a query of its own, over the bars stored by then.
StampBars ==
    /\ phase = "bars"
    /\ loaded' = [loaded EXCEPT !.barsThrough =
          HighestIn({Readable(market.bars)[i][s].observed : i \in Instruments, s \in Sessions})]
    /\ phase' = IF Calendar(loaded) = {} THEN "refused" ELSE "signals"
    /\ UNCHANGED <<market, clock, changes, book, at, result>>

LoadSignals ==
    /\ phase = "signals"
    /\ loaded' = [loaded EXCEPT !.signals = market.signals]
    /\ phase' = "stamp"
    /\ UNCHANGED <<market, clock, changes, book, at, result>>

\* Costs are never negative, and a run starts with some capital.
Stated(capital) ==
    /\ capital > 0
    /\ \A part \in {"slippage", "spread", "rate", "minimum"} : CostModel[part] >= 0

\* The signals' stamp, then the rates and the benchmark series, which nothing changes.
LoadRest ==
    /\ phase = "stamp"
    /\ loaded' = [loaded EXCEPT
          !.signalsThrough = HighestIn({market.signals[i][s].computed : i \in Instruments, s \in Sessions}),
          !.rates = market.rates, !.benchmark = market.benchmark]
    /\ phase' = IF Stated(market.configuration.capital) THEN "simulating" ELSE "refused"
    /\ UNCHANGED <<market, clock, changes, book, at, result>>

Remaining == {s \in Calendar(loaded) : s > at}

Simulate ==
    /\ phase = "simulating"
    /\ Remaining # {}
    /\ at' = CHOOSE s \in Remaining : \A t \in Remaining : s <= t
    /\ book' = SessionStep(loaded, book, at')
    /\ UNCHANGED <<phase, market, clock, changes, loaded, result>>

\* What is still queued when the range ends never executed.
Leftovers(b) == FoldLeft(LAMBDA c, p : Skip(c, p.instrument, p.signal, "no_next_session"), b, b.queue)

\* The rows of the six tables, and what the tables refuse: two trades, or two
\* skips, of one signal, and an execution on the session of its signal.
Rows(d, b) ==
    [trades |-> b.trades, positions |-> b.positions, equity |-> b.equity,
     measures |-> Measure(d, b), skips |-> b.skips, rebalances |-> b.rebalances,
     barsThrough |-> d.barsThrough, signalsThrough |-> d.signalsThrough]

Storable(r) ==
    /\ \A n \in DOMAIN r.trades : r.trades[n].session > r.trades[n].signal /\ r.trades[n].quantity > 0
    /\ \A rows \in {r.trades, r.skips} : \A m, n \in DOMAIN rows :
           rows[m].instrument = rows[n].instrument /\ rows[m].signal = rows[n].signal => m = n

\* One transaction with the event of the completion: all of it or, refused, nothing.
Write ==
    /\ phase = "simulating"
    /\ Remaining = {}
    /\ \E rows \in {Rows(loaded, Leftovers(book))} :
          IF Storable(rows)
          THEN result' = rows /\ phase' = "written"
          ELSE result' = result /\ phase' = "failed"
    /\ UNCHANGED <<market, clock, changes, loaded, book, at>>

Active == phase \notin {"written", "refused", "failed"}

\* A query fails, the context ends or the process dies: no row of the run is stored.
Fail ==
    /\ Active
    /\ phase' = "failed"
    /\ UNCHANGED <<market, clock, changes, loaded, book, at, result>>

\* An import stores another price for a session, the primary's in place of a fallback's too.
Correct(i, s) ==
    /\ Active /\ phase # "simulating" /\ changes < MaxChanges
    /\ market.bars[i][s].provider # "none"
    /\ clock' = clock + 1
    /\ changes' = changes + 1
    /\ market' = [market EXCEPT !.bars[i][s] =
          [provider |-> "primary", open |-> Moved(@.open), close |-> Moved(@.close), observed |-> clock']]
    /\ UNCHANGED <<phase, loaded, book, at, result>>

\* The strategy's signal of a session is computed again and loses or gains its score.
Recompute(i, s) ==
    /\ Active /\ phase # "simulating" /\ changes < MaxChanges
    /\ market.signals[i][s].present
    /\ clock' = clock + 1
    /\ changes' = changes + 1
    /\ market' = [market EXCEPT !.signals[i][s].scored = ~ @, !.signals[i][s].computed = clock']
    /\ UNCHANGED <<phase, loaded, book, at, result>>

Next ==
    \/ ReadConfiguration \/ LoadBars \/ StampBars \/ LoadSignals \/ LoadRest
    \/ Simulate \/ Write \/ Fail
    \/ \E c \in Changing : Correct(c[1], c[2]) \/ Recompute(c[1], c[2])

Spec == Init /\ [][Next]_vars

-----------------------------------------------------------------------------
TypeOK ==
    /\ phase \in {"requested", "configured", "bars", "signals", "stamp", "simulating", "written", "refused", "failed"}
    /\ at \in Sessions \cup {0}
    /\ changes \in 0..MaxChanges
    /\ book.cash \in Int
    /\ \A i \in Instruments : book.held[i] \in Nat /\ book.held[i] % Scale = 0
    /\ \A n \in DOMAIN book.queue : book.queue[n].due \in Sessions /\ book.queue[n].due > at

\* Every signal the schedule considered ends as exactly one trade or one skip,
\* never both and never neither: execute "performs one queued decision ... or
\* records why it did not happen. Exactly one of the two", and plan's sales are
\* the outcome of the signal that was not selected.
EverySignalHasOneOutcome ==
    phase = "written" =>
        LET considered == {<<i, s>> \in Instruments \X Calendar(loaded) :
                              IsRebalance(loaded, s) /\ loaded.signals[i][s].present}
            outcomes(i, s) ==
                Len(SelectSeq(result.trades, LAMBDA t : t.instrument = i /\ t.signal = s))
                + Len(SelectSeq(result.skips, LAMBDA k : k.instrument = i /\ k.signal = s))
        IN  /\ \A c \in considered : outcomes(c[1], c[2]) = 1
            /\ Len(result.trades) + Len(result.skips) = Cardinality(considered)

TradesThrough(s) == SelectSeq(book.trades, LAMBDA t : t.session <= s)

TradesOf(i, s) == SelectSeq(TradesThrough(s), LAMBDA t : t.instrument = i)

SharesFromTrades(i, s) ==
    SumSeq([n \in DOMAIN TradesOf(i, s) |->
        LET t == TradesOf(i, s)[n] IN IF t.direction = "buy" THEN t.quantity ELSE -t.quantity])

\* An instrument's trades by session s read buy, sell, buy, sell.
Alternate(i, s) ==
    \A n \in DOMAIN TradesOf(i, s) :
        TradesOf(i, s)[n].direction = IF n % 2 = 1 THEN "buy" ELSE "sell"

RowsOf(s) == SelectSeq(book.positions, LAMBDA p : p.session = s)

\* Every point of the curve follows from the trade rows and the position rows.
\* Cash is the capital with the trades' cash effects and never negative.  The
\* position rows hold exactly the shares bought and not sold of an instrument
\* whose trades alternate, and never more than those of any other.  A total is
\* stated exactly when every row found a price, no later than the session and
\* within the window, and is that cash plus the rows' values.  (portfolio.go:
\* cash plus the value of the positions equals the recorded equity at every
\* session, not merely at the end.)
ResultReconciles ==
    \A n \in DOMAIN book.equity :
        LET p        == book.equity[n]
            s        == p.session
            trades   == TradesThrough(s)
            rows     == RowsOf(s)
            stored(i) == SumSeq([k \in DOMAIN rows |->
                            IF rows[k].instrument = i THEN rows[k].quantity ELSE 0])
        IN  /\ p.cash = market.configuration.capital + SumSeq([k \in DOMAIN trades |-> trades[k].cashEffect])
            /\ p.cash >= 0
            /\ \A i \in Instruments :
                   /\ stored(i) <= SharesFromTrades(i, s)
                   /\ Alternate(i, s) => stored(i) = SharesFromTrades(i, s)
            /\ \A k \in DOMAIN rows : rows[k].priced <= s /\ Apart(loaded, rows[k].priced, s) <=
                   IF rows[k].priced = 0 THEN Cardinality(Sessions) ELSE GiveUpSessions
            /\ p.stated <=> \A k \in DOMAIN rows : rows[k].priced # 0
            /\ p.stated => p.total = p.cash + SumSeq([k \in DOMAIN rows |->
                   LET row == rows[k]
                   IN  ToAccounting(Mul(loaded.bars[row.instrument][row.priced].close, row.quantity),
                           Rate(loaded, row.instrument, row.priced), Converted(row.instrument))])

\* An instrument's trades read buy, sell, buy, sell in the order they were
\* executed: what is held is not bought again, which "cannot happen", because
\* an earlier decision is always resolved before the later one is taken
\* (accounting_integration_test.go).  A signal of a session whose bar is the
\* fallback provider's is decided on while an earlier purchase waits over that
\* session, and the purchase is made twice: see the README.
TradesAlternate ==
    phase = "written" => \A i \in Instruments : Alternate(i, HighestIn(Sessions))

\* The inputs as they were known at the close of session t.
KnownAt(t) ==
    [loaded EXCEPT
        !.bars = [i \in Instruments |-> [s \in Sessions |-> IF s <= t THEN loaded.bars[i][s] ELSE NoBar]],
        !.signals = [i \in Instruments |-> [s \in Sessions |->
                        IF s <= t THEN loaded.signals[i][s] ELSE NoSignal]],
        !.rates = [s \in Sessions |-> IF s <= t THEN loaded.rates[s] ELSE NoRate]]

SimulatedOver(d) ==
    FoldLeft(LAMBDA b, s : SessionStep(d, b, s), NewBook(market.configuration.capital), InOrder(Calendar(d)))

\* A simulation that never sees a bar, a signal or a rate later than session t
\* has made the same trades and stated the same curve by then: nothing the
\* portfolio did reads the future (execution.go, the execution rules).
NoLookahead ==
    phase = "simulating" /\ at > 0 =>
        LET Did(b) == <<b.cash, b.held, b.trades, b.equity>>
        IN  Did(SimulatedOver(KnownAt(at))) = Did(book)

\* The reported drawdown is the worst fall between any two sessions of the curve,
\* the later below the earlier: measured against the running peak.
DrawdownIsTheWorstFall ==
    phase = "written" /\ result.measures.strategy = "measured" =>
        LET c     == Curve(book)
            falls == {<<c[n].total, c[m].total>> : <<m, n>> \in
                         {p \in (1..Len(c)) \X (1..Len(c)) : p[1] <= p[2]}}
            worst == result.measures.drawdown
        IN  /\ \A f \in falls : ~ DeeperFall(f, worst)
            /\ \E f \in falls : ~ DeeperFall(worst, f)

\* A stored run tells that it predates a change: a bar or a signal stored now
\* that is not the one the run read carries a stamp later than the one the run
\* recorded.  (inputs: "what it read is exactly what the run records having
\* read".)  With a change while the run loads it does not hold, and no run
\* checks it: see the README.
RunsTellTheyPredate ==
    phase = "written" =>
        \A i \in Instruments, s \in Sessions :
            /\ Readable(market.bars)[i][s] # loaded.bars[i][s] =>
                   market.bars[i][s].observed > result.barsThrough
            /\ market.signals[i][s] # loaded.signals[i][s] =>
                   market.signals[i][s].computed > result.signalsThrough
=============================================================================
