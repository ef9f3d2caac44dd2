---------------------------- MODULE PaperAccount ----------------------------
(***************************************************************************)
(* What a person is shown of a paper account: the first-in-first-out fold  *)
(* of the recorded fills (internal/paper/account.go), beside the standing  *)
(* the fill pass decides by.                                               *)
(***************************************************************************)
EXTENDS PaperTrading, SequencesExt

\* The fill recorded last of some: by session, and in one session by the order
\* they were recorded in.
LastFilled(ids) ==
    CHOOSE i \in ids : \A j \in ids :
        fill[j].session < fill[i].session \/ (fill[j].session = fill[i].session /\ fill[j].at <= fill[i].at)

\* Repository.fills: by fill_session, and then by the order they were recorded in.
InFillOrder(ids) ==
    MapThenFoldSet(LAMBDA i, earlier : Append(earlier, i), <<>>, LAMBDA i : i, LastFilled, ids)

\* A person's fills in one instrument.
FilledIn(u, k) ==
    {i \in Intents : fill[i].session # 0 /\ Wrote[i].user = u /\ Wrote[i].instrument = k}

Fills(u, k) == InFillOrder(FilledIn(u, k))

\* What a take consumes of a lot's remaining cost: everything when the take
\* empties the lot, a rounded share of it otherwise.
Taken(lot, take) ==
    IF take = lot.quantity THEN lot.cost
    ELSE Div(Mul(lot.cost, take), lot.quantity)

\* Fault: what is left of a lot is a rounded share of its own.
TakeFromApart(sale, lot) ==
    LET take == IF sale.remaining > lot.quantity THEN lot.quantity ELSE sale.remaining
        left == [quantity |-> lot.quantity - take,
                 cost     |-> Div(Mul(lot.cost, lot.quantity - take), lot.quantity)]
    IN  IF sale.remaining = 0 THEN [sale EXCEPT !.lots = Append(@, lot)]
        ELSE [remaining |-> sale.remaining - take,
              consumed  |-> sale.consumed + Taken(lot, take),
              lots      |-> IF left.quantity > 0 THEN Append(sale.lots, left) ELSE sale.lots]

\* One lot's part of a sale: take what is left to sell, drop an emptied lot.
TakeFrom(sale, lot) ==
    LET take  == IF sale.remaining > lot.quantity THEN lot.quantity ELSE sale.remaining
        taken == Taken(lot, take)
        left  == [quantity |-> lot.quantity - take, cost |-> lot.cost - taken]
    IN  IF sale.remaining = 0 THEN [sale EXCEPT !.lots = Append(@, lot)]
        ELSE [remaining |-> sale.remaining - take,
              consumed  |-> sale.consumed + taken,
              lots      |-> IF left.quantity > 0 THEN Append(sale.lots, left) ELSE sale.lots]

ApplyFill(position, i) ==
    IF Wrote[i].direction = "buy"
    THEN [position EXCEPT !.lots = Append(@, [quantity |-> Wrote[i].quantity, cost |-> -fill[i].effect])]
    ELSE LET sale == FoldLeft(TakeFrom,
                              [remaining |-> Wrote[i].quantity, consumed |-> 0, lots |-> <<>>],
                              position.lots)
         IN  [lots |-> sale.lots, realised |-> position.realised + fill[i].effect - sale.consumed]

FoldFills(entries) ==
    LET folded == FoldLeft(ApplyFill, [lots |-> <<>>, realised |-> 0], entries)
    IN  [quantity |-> FoldLeft(LAMBDA sum, lot : sum + lot.quantity, 0, folded.lots),
         cost     |-> FoldLeft(LAMBDA sum, lot : sum + lot.cost, 0, folded.lots),
         realised |-> folded.realised]

Position(u, k) == FoldFills(Fills(u, k))

(***************************************************************************)
(* The figures a person is shown reconcile to the last unit with the cash  *)
(* the pass decides by: starting cash, plus what was realised, less what   *)
(* the remaining lots cost, is the cash standing.                          *)
(***************************************************************************)
AccountReconciles ==
    \A u \in Users :
        LET Net(position) == position.realised - position.cost
        IN  cash[u] = account[u].starting + MapThenSumSet(LAMBDA k : Net(Position(u, k)), Instruments)

(***************************************************************************)
(* "No figure can drift from the fills behind it": the holding shown is    *)
(* the position the pass would let the person sell.  It does not hold when *)
(* a bar arrives late, and no run checks it: see the README.               *)
(***************************************************************************)
HoldingsMatchStanding ==
    \A u \in Users, k \in Instruments : Position(u, k).quantity = held[u][k]
=============================================================================
