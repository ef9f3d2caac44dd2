----------------------------- MODULE Portfolio -----------------------------
(***************************************************************************)
(* One person's portfolio and limits (internal/portfolio, internal/risk):  *)
(* trades are recorded, corrected and withdrawn by requests that read what *)
(* counts, decide, and write in a transaction of their own later; the      *)
(* accounting currency and the limits are set meanwhile.                   *)
(***************************************************************************)
EXTENDS Holdings

CONSTANTS
    Requests,      \* requests in progress at the same time
    Instruments,
    CurrencyOf,    \* listing currency of each instrument
    Currencies,    \* accounting currencies a person may ask for
    Entries,       \* the trades a person may assert: instrument, direction, quantity, price, costs, date
    LabelOf,       \* label of each instrument by kind of limit
    Statements,    \* the limits a person may ask for: kind and threshold
    Stored,        \* the prices, rates and benchmark sessions a read may find
    MaxVersions,   \* bound on stored versions of trades
    MaxSettings    \* bound on settings of the currency and the limits

ASSUME PortfolioAssumption ==
    Entries \subseteq [instrument: Instruments, direction: {"buy", "sell"}, quantity: Nat \ {0},
                       price: Nat \ {0}, costs: Nat, date: Nat]

\* A price is a number, and so is each rate of the session a price is from.
ASSUME MarketAssumption ==
    /\ \A s \in Statements : s.threshold \in Int
    /\ \A d \in Stored, i \in Instruments :
          /\ d.prices[i].close \in Nat
          /\ \A c \in Currencies \cup {CurrencyOf[i]} : d.rates[d.prices[i].session][c] \in Nat

VARIABLES
    trades,       \* every version ever stored, in the order of insertion
    portfolio,    \* its accounting currency, "" before the first use
    limits,       \* threshold by kind, 0 when there is none
    request,      \* what each request is doing
    settings,     \* changes of the currency and the limits so far
    overlapped    \* whether two requests were ever in progress together

vars == <<trades, portfolio, limits, request, settings, overlapped>>

Idle == [phase |-> "idle", op |-> "none", entry |-> <<>>, target |-> 0]

Kinds == DOMAIN LabelOf

Init ==
    /\ trades = <<>>
    /\ portfolio = ""
    /\ limits = [k \in Kinds |-> 0]
    /\ request = [r \in Requests |-> Idle]
    /\ settings = 0
    /\ overlapped = FALSE

\* Fault: a superseded version still counts.
IsCurrentUnlessWithdrawn(n) == ~ trades[n].withdrawn

\* The version counts: neither superseded nor withdrawn.
IsCurrent(n) == trades[n].supersededBy = 0 /\ ~ trades[n].withdrawn

Current == {n \in DOMAIN trades : IsCurrent(n)}

CurrentTrades == {trades[n] : n \in Current}

Of(i, set) == {t \in set : t.instrument = i}

\* Fault: a withdrawal is not looked at.
RefusedSalesOnly(i, excluding, entry) ==
    entry # <<>> /\ HeldAfter(Of(i, {trades[n] : n \in Current \ {excluding}})
                                   \cup {[instrument |-> e.instrument, direction |-> e.direction,
                                          quantity |-> e.quantity, sequence |-> 0] : e \in {entry}}) < 0

(***************************************************************************)
(* The trades of the instrument without the version being replaced and     *)
(* with the one asserted sum up to less than nothing.  Only the sum is     *)
(* looked at, and only the asserted trade's own instrument.                *)
(***************************************************************************)
RefusesForPosition(i, excluding, entry) ==
    LET kept  == {trades[n] : n \in {m \in Current \ {excluding} : trades[m].instrument = i}}
        added == {[instrument |-> e.instrument, direction |-> e.direction,
                   quantity |-> e.quantity, sequence |-> 0] : e \in {entry} \ {<<>>}}
    IN  HeldAfter(kept \cup added) < 0

Start(r, op, entry, target) ==
    /\ request[r].phase = "idle"
    /\ request' = [request EXCEPT ![r] =
          [phase |-> IF op = "withdraw" THEN "ready" ELSE "judged",
           op |-> op, entry |-> entry, target |-> target]]
    /\ overlapped' = (overlapped \/ \E q \in Requests \ {r} : request[q].phase # "idle")
    /\ UNCHANGED <<trades, portfolio, limits, settings>>

Record(r, entry) ==
    /\ Len(trades) < MaxVersions
    /\ ~ RefusesForPosition(entry.instrument, 0, entry)
    /\ Start(r, "record", entry, 0)

Correct(r, n, entry) ==
    /\ Len(trades) < MaxVersions
    /\ IsCurrent(n)
    /\ ~ RefusesForPosition(entry.instrument, n, entry)
    /\ Start(r, "correct", entry, n)

Withdraw(r, n) ==
    /\ IsCurrent(n)
    /\ ~ RefusesForPosition(trades[n].instrument, n, <<>>)
    /\ Start(r, "withdraw", <<>>, n)

\* The portfolio is read; without one the request goes on to create it.
FindPortfolio(r) ==
    /\ request[r].phase = "judged"
    /\ request' = [request EXCEPT ![r].phase = IF portfolio = "" THEN "creating" ELSE "ready"]
    /\ UNCHANGED <<trades, portfolio, limits, settings, overlapped>>

\* One created meanwhile gets the default currency put over the one it has.
EnsurePortfolio(r) ==
    /\ request[r].phase = "creating"
    /\ portfolio' = "EUR"
    /\ request' = [request EXCEPT ![r].phase = "ready"]
    /\ UNCHANGED <<trades, limits, settings, overlapped>>

Highest(numbers) == CHOOSE n \in numbers \cup {0} : \A m \in numbers : m <= n

\* A correction keeps the sequence of the version it replaces.
Version(entry, target) ==
    [instrument |-> entry.instrument, direction |-> entry.direction, quantity |-> entry.quantity,
     price |-> entry.price, costs |-> entry.costs, date |-> entry.date,
     sequence |-> IF target = 0 THEN 1 + Highest({trades[n].sequence : n \in DOMAIN trades})
                  ELSE trades[target].sequence,
     supersededBy |-> 0, withdrawn |-> FALSE]

(***************************************************************************)
(* The transaction: the version replaced is marked, if it still counts,    *)
(* and the new one is inserted; or the version is marked withdrawn, if it  *)
(* still counts.  Otherwise nothing is written.  The event of the change   *)
(* is part of the transaction.                                             *)
(***************************************************************************)
WriteTrade(r) ==
    LET q == request[r]
        n == q.target
    IN  /\ q.phase = "ready"
        /\ IF n # 0 /\ ~ IsCurrent(n) THEN UNCHANGED trades
           ELSE CASE q.op = "withdraw" -> trades' = [trades EXCEPT ![n].withdrawn = TRUE]
                  [] q.op = "correct"  -> trades' = Append([trades EXCEPT ![n].supersededBy = Len(trades) + 1],
                                                           Version(q.entry, n))
                  [] OTHER             -> trades' = Append(trades, Version(q.entry, 0))
        /\ request' = [request EXCEPT ![r] = Idle]
        /\ UNCHANGED <<portfolio, limits, settings, overlapped>>

\* The connection or the process is lost, or another insertion took the sequence.
Fail(r) ==
    /\ request[r].phase # "idle"
    /\ request' = [request EXCEPT ![r] = Idle]
    /\ UNCHANGED <<trades, portfolio, limits, settings, overlapped>>

\* Some rate of the currency is stored, so that something could be valued in it.
CurrencyIsConvertible(c) ==
    c = "EUR" \/ \E d \in Stored : \E s \in DOMAIN d.rates : d.rates[s][c] > 0

SetCurrency(c) ==
    /\ settings < MaxSettings
    /\ CurrencyIsConvertible(c)
    /\ portfolio' = c
    /\ settings' = settings + 1
    /\ UNCHANGED <<trades, limits, request, overlapped>>

\* A share is above nothing and at most the whole; a count is a whole number above nothing.
Statable(s) ==
    /\ s.threshold > 0
    /\ IF s.kind = "holding_count" THEN s.threshold % Scale = 0 ELSE s.threshold <= Scale

StateLimit(s) ==
    /\ settings < MaxSettings
    /\ Statable(s)
    /\ limits' = [limits EXCEPT ![s.kind] = s.threshold]
    /\ settings' = settings + 1
    /\ UNCHANGED <<trades, portfolio, request, overlapped>>

RemoveLimit(k) ==
    /\ limits[k] # 0
    /\ limits' = [limits EXCEPT ![k] = 0]
    /\ UNCHANGED <<trades, portfolio, request, settings, overlapped>>

Next ==
    \/ \E r \in Requests :
          \/ \E e \in Entries : Record(r, e) \/ \E n \in DOMAIN trades : Correct(r, n, e)
          \/ \E n \in DOMAIN trades : Withdraw(r, n)
          \/ FindPortfolio(r) \/ EnsurePortfolio(r) \/ WriteTrade(r) \/ Fail(r)
    \/ \E c \in Currencies : SetCurrency(c)
    \/ \E s \in Statements : StateLimit(s)
    \/ \E k \in Kinds : RemoveLimit(k)

Spec == Init /\ [][Next]_vars

-----------------------------------------------------------------------------
TypeOK ==
    /\ portfolio \in Currencies \cup {""}
    /\ \A n \in DOMAIN trades :
          /\ trades[n].sequence \in 1..n
          /\ trades[n].supersededBy \in 0..Len(trades)
          /\ trades[n].quantity > 0
    /\ \A r \in Requests : request[r].target \in 0..Len(trades)
    /\ trades # <<>> => portfolio # ""

\* Whatever requests race, one trade is one chain of versions: at most one
\* version of a sequence counts, a superseded version points at a later one of
\* the same sequence, and a withdrawn one was never replaced.  (WriteTrade's
\* updates name only versions that still count.)
VersionsFormChains ==
    /\ \A m, n \in Current : trades[m].sequence = trades[n].sequence => m = n
    /\ \A n \in DOMAIN trades :
          LET next == trades[n].supersededBy
          IN  /\ next # 0 => next > n /\ trades[next].sequence = trades[n].sequence
              /\ trades[n].withdrawn => next = 0
    /\ \A m, n \in DOMAIN trades :
          trades[m].supersededBy = trades[n].supersededBy /\ trades[m].supersededBy # 0 => m = n

\* The instruments a correction moved a trade away from: refusesForPosition looks
\* only at the one it names, so the sales of the one it leaves may stay behind.
Left == {trades[n].instrument : n \in {m \in DOMAIN trades :
            trades[m].supersededBy # 0 /\ trades[trades[m].supersededBy].instrument # trades[m].instrument}}

\* As long as no two requests were ever in progress together, no recording,
\* correction or withdrawal leaves a position below zero, but for an instrument
\* that a correction moved a trade away from.  refusesForPosition "rejects
\* anything that would make a position negative"; it does not where requests
\* overlap, nor for the instrument a correction leaves, however few requests
\* there are.
PositionsStayWhole ==
    ~ overlapped => \A i \in Instruments \ Left : HeldAfter(Of(i, CurrentTrades)) >= 0

Bought(set) == {t \in set : t.direction = "buy"}

Quantity(set) == MapThenSumSet(LAMBDA t : t.quantity, set)

\* Every unit paid for the purchases that count is in the cost of a sale or in
\* the cost of what is held, however the divisions round (fifo.go, lot: "the
\* two halves always sum to the whole").
CostIsConserved(set, walked) ==
    walked.cost + SumSeq([n \in DOMAIN walked.realised |-> walked.realised[n].cost])
        = MapThenSumSet(Paid, Bought(set))

\* No sale is dated before the shares it sells.
Chronological(set) ==
    \A t \in set : HeldAfter({u \in set : u.date < t.date \/ (u.date = t.date /\ u.sequence <= t.sequence)}) >= 0

\* The oldest shares are sold first: of each purchase exactly what its sales
\* have not reached is left, counted from the first purchase on.
FifoKeepsTheNewest(set, open) ==
    LET sold     == Quantity(set \ Bought(set))
        Until(t) == Quantity({u \in Bought(set) : u.date < t.date
                                \/ (u.date = t.date /\ u.sequence <= t.sequence)})
        AreLeft(expected) ==
            /\ Len(open) = Len(expected)
            /\ \A n \in DOMAIN open :
                  /\ open[n].date = expected[n].date
                  /\ open[n].quantity = Smaller(expected[n].quantity, Until(expected[n]) - sold)
    IN  Chronological(set) => AreLeft(InWalkOrder({t \in Bought(set) : Until(t) > sold}))

\* The walk takes the right shares at the right cost, whatever was corrected or
\* withdrawn: first in, first out, and every unit paid is accounted for.
WalkIsExact ==
    LET Exact(set, walked) == CostIsConserved(set, walked) /\ FifoKeepsTheNewest(set, walked.open)
        Each(set) == Exact(set, Walk(set))
    IN  \A i \in Instruments : Each(Of(i, CurrentTrades))

View(data) == ViewOf(CurrentTrades, Instruments, portfolio, CurrencyOf, data)

\* A limit is within only when everything it measures is known and no label's
\* share is above the threshold by a unit of the last place or more, and is
\* exceeded only when some share really is: "a limit is never reported within
\* because something could not be measured" (risk/evaluate.go).
LimitsAreNeverFlattered ==
    LET Share(k, view, l) ==
            Scale * MapThenSumSet(LAMBDA h : h.valuation.value,
                                  {h \in view.holdings : LabelOf[k][h.instrument] = l})
        labels(k) == {LabelOf[k][i] : i \in Instruments}
        Judged(k, view, state) ==
            /\ view.holdings = {} => state = "unevaluable"
            /\ k = "holding_count" => (state = "exceeded" <=> Cardinality(view.holdings) * Scale > limits[k])
            /\ k # "holding_count" /\ state # "unevaluable" =>
                  \A h \in view.holdings : h.valuation.absent = ""
            /\ k # "holding_count" /\ state = "within" =>
                  \A l \in labels(k) : Share(k, view, l) < (limits[k] + 1) * view.value
            /\ k # "holding_count" /\ state = "exceeded" =>
                  \E l \in labels(k) : Share(k, view, l) > limits[k] * view.value
        Seen(k, view) == Judged(k, view, Evaluate(k, limits[k], view, LabelOf[k]).state)
    IN  \A k \in {x \in Kinds : limits[x] # 0}, data \in Stored : Seen(k, View(data))

\* A sale takes its shares from what was held when it happened, so that what a
\* walk leaves is what was bought less what was sold.  (fifo.go, walk: "A sale
\* that would consume more than is held cannot reach here: the service refuses
\* it at the point of recording".)
SalesTakeWhatIsHeld ==
    \A i \in Instruments : Walk(Of(i, CurrentTrades)).quantity = HeldAfter(Of(i, CurrentTrades))
=============================================================================
