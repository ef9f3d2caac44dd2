---------------------------- MODULE MCPortfolio ----------------------------
EXTENDS Portfolio

Listings == (1 :> "SEK") @@ (2 :> "NOK")

\* Three shares at a cost that does not divide, sold one or two at a time.
Entry(direction, quantity, date) ==
    [instrument |-> 1, direction |-> direction, quantity |-> quantity * Scale,
     price |-> 70, costs |-> 10, date |-> date]

Asserted ==
    {Entry("buy", 3, 1), Entry("sell", 1, 1), Entry("sell", 2, 2),
     [instrument |-> 2, direction |-> "buy", quantity |-> 2 * Scale, price |-> 110, costs |-> 0, date |-> 1]}

\* A purchase, and a sale dated before it.
BackDated == {Entry("buy", 3, 2), Entry("sell", 1, 1)}

Alike == Permutations(Requests)

Labels == [instrument_share |-> (1 :> "a") @@ (2 :> "b"),
           market_share |-> (1 :> "m") @@ (2 :> "m"),
           holding_count |-> (1 :> "a") @@ (2 :> "b")]

Asked == {[kind |-> "instrument_share", threshold |-> 5], [kind |-> "market_share", threshold |-> 10],
          [kind |-> "holding_count", threshold |-> 10]}

Rates(sek, nok) == [EUR |-> 10, SEK |-> sek, NOK |-> nok]

\* Two sessions; the second instrument's price may be missing, or its rate.
MarketData ==
    {[prices |-> (1 :> [close |-> 90, session |-> 2]) @@ (2 :> second),
      rates |-> (0 :> Rates(0, 0)) @@ (1 :> Rates(110, nok)) @@ (2 :> Rates(115, 117)),
      series |-> {1, 2}] :
        second \in {[close |-> 60, session |-> 1], [close |-> 0, session |-> 0]}, nok \in {0, 113}}
=============================================================================
