------------------------------ MODULE MCPaper ------------------------------
(***************************************************************************)
(* Small instances of PaperTrading and PaperAccount for TLC.               *)
(***************************************************************************)
EXTENDS PaperAccount

CONSTANTS alice, share, buying, selling

\* Alice writes down a purchase and a sale of the same size.
WholeWrote ==
    [i \in Intents |->
        [user |-> alice, instrument |-> share,
         direction |-> IF i = selling THEN "sell" ELSE "buy", quantity |-> 10]]

\* A purchase of 0.7 and a sale of 0.3: a partial take that rounds.
PartialWrote ==
    [i \in Intents |->
        [user |-> alice, instrument |-> share,
         direction |-> IF i = selling THEN "sell" ELSE "buy",
         quantity |-> IF i = selling THEN 3 ELSE 7]]

\* Tenths: a slippage, spread and brokerage of 10 %, at least 0.3.
MCCosts == [slippage |-> 1, spread |-> 1, rate |-> 1, minimum |-> 3]

EuroListing  == [k \in Instruments |-> "EUR"]
KronaListing == [k \in Instruments |-> "SEK"]
=============================================================================
