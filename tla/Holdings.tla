------------------------------ MODULE Holdings ------------------------------
(***************************************************************************)
(* What a person holds, derived from the trades that count and from stored *)
(* prices and rates: the first-in-first-out walk, the cross through the    *)
(* euro, the view and its totals (internal/portfolio), and the measure of  *)
(* a limit against that view (internal/risk).  Nothing here is stored.     *)
(*                                                                         *)
(* A trade is a record [instrument, direction, quantity, price, costs,     *)
(* date, sequence]; decimals are scaled by Scale.                          *)
(***************************************************************************)
EXTENDS Costs, FiniteSets, SequencesExt

Smaller(a, b) == IF a <= b THEN a ELSE b

SumSeq(values) == FoldLeft(LAMBDA a, b : a + b, 0, values)

\* The trade a walk comes to last.
LastWalked(trades) ==
    CHOOSE t \in trades : \A u \in trades :
        u.date < t.date \/ (u.date = t.date /\ u.sequence <= t.sequence)

\* By date, and on one date by sequence.
InWalkOrder(trades) ==
    MapThenFoldSet(LAMBDA t, earlier : Append(earlier, t), <<>>, LAMBDA t : t, LastWalked, trades)

\* A sale that empties a lot takes everything left in it; only a part divides.
Taken(lot, take) ==
    IF take = lot.quantity THEN lot.cost ELSE Div(Mul(lot.cost, take), lot.quantity)

Consume(sale, lot) ==
    LET Take(take, taken) ==
            [open |-> IF take = lot.quantity THEN sale.open
                      ELSE Append(sale.open, [quantity |-> lot.quantity - take,
                                              cost |-> lot.cost - taken, date |-> lot.date]),
             remaining |-> sale.remaining - take, consumed |-> sale.consumed + taken]
        Part(take) == IF take = 0 THEN [sale EXCEPT !.open = Append(@, lot)]
                      ELSE Take(take, Taken(lot, take))
    IN  Part(Smaller(sale.remaining, lot.quantity))

\* Fault: the newest shares are sold first.
ConsumptionFromTheNewest(open, quantity) ==
    LET sale == FoldLeft(Consume, [open |-> <<>>, remaining |-> quantity, consumed |-> 0], Reverse(open))
    IN  [sale EXCEPT !.open = Reverse(@)]

\* The oldest shares are sold first.  What a sale asks for beyond all lots is dropped.
Consumption(open, quantity) ==
    FoldLeft(Consume, [open |-> <<>>, remaining |-> quantity, consumed |-> 0], open)

Paid(trade) == Mul(trade.price, trade.quantity) + trade.costs

Proceeds(trade) == Mul(trade.price, trade.quantity) - trade.costs

(***************************************************************************)
(* Walk one instrument's trades into the open lots and the realised        *)
(* results.                                                                *)
(***************************************************************************)
Walk(trades) ==
    LET Sell(f, t, sale) ==
            [open |-> sale.open,
             realised |-> Append(f.realised, [cost |-> sale.consumed,
                                              realised |-> Proceeds(t) - sale.consumed])]
        Step(f, t) ==
            IF t.direction = "buy"
            THEN [f EXCEPT !.open = Append(@, [quantity |-> t.quantity, cost |-> Paid(t), date |-> t.date])]
            ELSE Sell(f, t, Consumption(f.open, t.quantity))
        Totals(f) ==
            [open     |-> f.open,
             realised |-> f.realised,
             quantity |-> SumSeq([n \in DOMAIN f.open |-> f.open[n].quantity]),
             cost     |-> SumSeq([n \in DOMAIN f.open |-> f.open[n].cost])]
    IN  Totals(FoldLeft(Step, [open |-> <<>>, realised |-> <<>>], InWalkOrder(trades)))

\* What would be left if these trades were the whole history, in whatever order.
HeldAfter(trades) ==
    MapThenSumSet(LAMBDA t : IF t.direction = "buy" THEN t.quantity ELSE -t.quantity, trades)

-----------------------------------------------------------------------------
(***************************************************************************)
(* Valuation.  quoted maps a currency to its euro rate of one session, 0   *)
(* when none is stored; a price is [close, session], session 0 when the    *)
(* instrument has no stored close.                                         *)
(***************************************************************************)

Convertible(from, accounting, quoted) ==
    from = accounting \/ \A c \in {from, accounting} \ {"EUR"} : quoted[c] > 0

\* From the listing currency to euro to the accounting currency, rounded between.
Convert(amount, from, accounting, quoted) ==
    LET inEuro == IF from = "EUR" THEN amount ELSE Div(amount, quoted[from])
    IN  IF from = accounting THEN amount
        ELSE IF accounting = "EUR" THEN inEuro
        ELSE Mul(inEuro, quoted[accounting])

Valuation(quantity, currency, accounting, price, quoted) ==
    IF price.session = 0 THEN [absent |-> "no_price", value |-> 0]
    ELSE IF ~ Convertible(currency, accounting, quoted) THEN [absent |-> "no_rate", value |-> 0]
    ELSE [absent |-> "", value |-> Convert(Mul(quantity, price.close), currency, accounting, quoted)]

(***************************************************************************)
(* The benchmark a holding is compared with, over the window from its      *)
(* oldest open lot to its price; the window is covered or the comparison   *)
(* is absent, never shortened.                                             *)
(***************************************************************************)
Comparison(folded, price, valuation, series) ==
    LET from == folded.open[1].date
        to   == price.session
    IN  IF valuation.absent # "" THEN "holding_not_valued"
        ELSE IF series = {} \/ (\A s \in series : s > from) \/ (\A s \in series : s < to)
             THEN "series_does_not_cover_window"
        ELSE "compared"

\* An instrument's holding, with the sums a view adds up.
HoldingOf(i, trades, accounting, currencies, stored) ==
    LET price  == stored.prices[i]
        quoted == stored.rates[price.session]
        Holding(folded, valued) ==
            [instrument |-> i, quantity |-> folded.quantity, valuation |-> valued,
             cost |-> IF valued.absent = "" THEN Convert(folded.cost, currencies[i], accounting, quoted) ELSE 0,
             realised |-> SumSeq([n \in DOMAIN folded.realised |-> folded.realised[n].realised]),
             comparison |-> IF folded.quantity <= 0 THEN "sold"
                            ELSE Comparison(folded, price, valued, stored.series)]
        Valued(folded) ==
            Holding(folded, Valuation(folded.quantity, currencies[i], accounting, price, quoted))
    IN  Valued(Walk(trades))

(***************************************************************************)
(* The view: a holding that cannot be valued stays in the list and makes   *)
(* the totals incomplete.                                                  *)
(***************************************************************************)
ViewOf(trades, instruments, accounting, currencies, stored) ==
    LET traded == {i \in instruments : \E t \in trades : t.instrument = i}
        Summed(derived, holdings) ==
            [holdings |-> holdings,
             complete |-> \A h \in holdings : h.valuation.absent = "",
             value    |-> MapThenSumSet(LAMBDA h : h.valuation.value, holdings),
             cost     |-> MapThenSumSet(LAMBDA h : h.cost, holdings),
             realised |-> MapThenSumSet(LAMBDA h : h.realised, derived)]
        Shown(derived) == Summed(derived, {h \in derived : h.quantity > 0})
    IN  Shown({HoldingOf(i, {t \in trades : t.instrument = i}, accounting, currencies, stored) :
                  i \in traded})

-----------------------------------------------------------------------------
(***************************************************************************)
(* A limit against a view: a share of one instrument, sector or market, or *)
(* the number of holdings.  labels maps an instrument to its label for the *)
(* kind.                                                                   *)
(***************************************************************************)
Groups(view, labels) ==
    LET Worth(l) == MapThenSumSet(LAMBDA h : h.valuation.value,
                                  {h \in view.holdings : labels[h.instrument] = l})
    IN  {[label |-> l, value |-> Worth(l)] : l \in {labels[h.instrument] : h \in view.holdings}}

Unevaluable(reason) == [state |-> "unevaluable", absent |-> reason, measured |-> 0, groups |-> {}]

Against(threshold, measured, groups) ==
    [state |-> IF measured > threshold THEN "exceeded" ELSE "within",
     absent |-> "", measured |-> measured, groups |-> groups]

LargestShare(threshold, groups, whole) ==
    LET largest == CHOOSE g \in groups : \A h \in groups : h.value <= g.value
    IN  Against(threshold, Div(largest.value, whole), groups)

\* Fault: a share is measured against what could be valued.
EvaluatePartial(kind, threshold, view, labels) ==
    IF view.holdings = {} THEN Unevaluable("nothing_held")
    ELSE IF kind = "holding_count" THEN Against(threshold, Cardinality(view.holdings) * Scale, {})
    ELSE IF view.value <= 0 THEN Unevaluable("nothing_held")
    ELSE LargestShare(threshold, Groups(view, labels), view.value)

Evaluate(kind, threshold, view, labels) ==
    IF view.holdings = {} THEN Unevaluable("nothing_held")
    ELSE IF kind = "holding_count" THEN Against(threshold, Cardinality(view.holdings) * Scale, {})
    ELSE IF ~ view.complete THEN Unevaluable("portfolio_incomplete")
    ELSE IF view.value <= 0 THEN Unevaluable("nothing_held")
    ELSE LargestShare(threshold, Groups(view, labels), view.value)
=============================================================================
