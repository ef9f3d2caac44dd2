---------------------------- MODULE PaperTrading ----------------------------
(***************************************************************************)
(* The simulated account over stored prices: order intents, the orders     *)
(* promoted from them, the nightly pass that fills them, and the bars and  *)
(* rates the pass reads (internal/intents, internal/paper).                *)
(*                                                                         *)
(* An action is one database transaction or one query: the code holds no   *)
(* lock between two of them, so requests, imports and the fill pass        *)
(* interleave there.  An order is named by its intent, because             *)
(* paper_orders.intent_id is UNIQUE.  What a person wrote in an intent is  *)
(* never updated, so it is the constant Wrote.                             *)
(***************************************************************************)
EXTENDS Costs, FiniteSets, Sequences

CONSTANTS
    Users, Instruments, Intents, Currencies,
    EUR,              \* the currency every stored rate is quoted against
    Listing,          \* the listing currency of each instrument
    Wrote,            \* intent -> [user, instrument, direction, quantity]
    StartingCash,     \* the opening balances people state
    Opens,            \* open prices the provider reports
    RateValues,       \* stored rates, units of a currency per euro
    CostModel,        \* DefaultCostRates as a Costs model
    GiveUpSessions,   \* days an order waits for a price (21 in the code)
    Slots,            \* API requests in flight at once (bound)
    MaxDay,           \* last calendar day (bound)
    MaxObservations,  \* changes of one stored bar (bound)
    MaxRestarts       \* process restarts (bound)

Contents == [user: Users, instrument: Instruments,
             direction: {"buy", "sell"}, quantity: Nat \ {0}]

ASSUME PaperAssumption ==
    /\ IsFiniteSet(Intents)
    /\ IsFiniteSet(Instruments)
    /\ EUR \in Currencies
    /\ "none" \notin Currencies
    /\ Listing \in [Instruments -> Currencies]
    /\ Wrote \in [Intents -> Contents]
    /\ StartingCash \subseteq Nat \ {0}
    /\ Opens \subseteq Nat \ {0}
    /\ RateValues \subseteq Nat \ {0}
    /\ \A a, b \in RateValues \cup {Scale} : Div(a, b) # 0
    /\ CostModel \in [slippage: Nat, spread: Nat, rate: Nat, minimum: Nat]
    /\ GiveUpSessions \in Nat
    /\ MaxDay \in Nat \ {0}
    /\ MaxObservations \in Nat
    /\ MaxRestarts \in Nat

VARIABLES
    today,     \* the calendar day, UTC
    account,   \* the terms of each person's account; currency "none" before it opens
    intent,    \* status of each intent, "none" before it is recorded
    order,     \* the order each intent became
    fill,      \* the fill each order became; session 0 before it
    bars,      \* stored daily bars; open 0 where none is stored
    fx,        \* stored rates against the euro; 0 where none is stored
    cash,      \* standing(): starting cash plus the recorded cash effects
    held,      \* standing(): bought minus sold in the recorded fills
    requests,  \* API requests between their read and their transaction
    queue,     \* the fill pass's snapshot of pending orders, not yet decided
    step,      \* where the pass is in fillOne for Head(queue)
    read,      \* what fillOne has read for Head(queue)
    told,      \* outcomes published and notified, per order
    restarts

tables  == <<account, intent, order, fill, cash, held, told>>
market  == <<bars, fx>>
pass    == <<queue, step, read>>
vars    == <<today, account, intent, order, fill, bars, fx, cash, held,
             requests, queue, step, read, told, restarts>>

Days     == 1..MaxDay
Reasons  == {"insufficient_cash", "exceeds_position", "no_price"}
Outcomes == Reasons \cup {"filled"}
Settled  == {"filled", "cancelled", "unfillable"}

NoAccount == [currency |-> "none", starting |-> 0]
NoOrder == [state |-> "none", placed |-> 0, at |-> 0, newest |-> 0]
NoFill  == [session |-> 0, open |-> 0, effect |-> 0, observed |-> 0, at |-> 0]
NoBar   == [open |-> 0, primary |-> FALSE, observed |-> 0]
NoRead  == [session |-> 0, open |-> 0, observed |-> 0, effect |-> 0,
            cash |-> 0, position |-> 0, verdict |-> "filled"]

AccountRows == [currency: Currencies, starting: StartingCash] \cup {NoAccount}
OrderRows   == [state: Settled \cup {"none", "pending"},
                placed: 0..MaxDay, at: Nat, newest: 0..MaxDay]
FillRows    == [session: 0..MaxDay, open: Nat, effect: Int, observed: Nat, at: Nat]
BarRows     == [open: Opens \cup {0}, primary: BOOLEAN, observed: Nat]
Requests    == [slot: Slots, op: {"promote", "withdrawn", "acted_on"},
                intent: Intents, session: Days]
Readings    == [session: 0..MaxDay, open: Nat, observed: Nat, effect: Int,
                cash: Int, position: Int, verdict: Outcomes]

TypeOK ==
    /\ today \in Days
    /\ account \in [Users -> AccountRows]
    /\ intent \in [Intents -> {"none", "considering", "withdrawn", "acted_on"}]
    /\ order \in [Intents -> OrderRows]
    /\ fill \in [Intents -> FillRows]
    /\ bars \in [Instruments -> [Days -> BarRows]]
    /\ fx \in [Currencies -> [Days -> RateValues \cup {0}]]
    /\ cash \in [Users -> Int]
    /\ held \in [Users -> [Instruments -> Int]]
    /\ requests \subseteq Requests
    /\ queue \in Seq(Intents)
    /\ step \in {"idle", "bar", "rate", "standing", "settle"}
    /\ read \in Readings
    /\ told \in [Intents -> SUBSET Outcomes]
    /\ restarts \in 0..MaxRestarts

Init ==
    /\ today = 1
    /\ account = [u \in Users |-> NoAccount]
    /\ intent = [i \in Intents |-> "none"]
    /\ order = [i \in Intents |-> NoOrder]
    /\ fill = [i \in Intents |-> NoFill]
    /\ bars = [k \in Instruments |-> [s \in Days |-> NoBar]]
    /\ fx = [c \in Currencies |-> [s \in Days |-> 0]]
    /\ cash = [u \in Users |-> 0]
    /\ held = [u \in Users |-> [k \in Instruments |-> 0]]
    /\ requests = {}
    /\ queue = <<>>
    /\ step = "idle"
    /\ read = NoRead
    /\ told = [i \in Intents |-> {}]
    /\ restarts = 0

-----------------------------------------------------------------------------
(***************************************************************************)
(* What people do.                                                         *)
(***************************************************************************)

\* Service.Open: once per person; user_id is UNIQUE and the terms never change.
Open(u, amount, currency) ==
    /\ account[u] = NoAccount
    /\ account' = [account EXCEPT ![u] = [currency |-> currency, starting |-> amount]]
    /\ cash' = [cash EXCEPT ![u] = amount]
    /\ UNCHANGED <<today, intent, order, fill, held, told, market, requests, pass, restarts>>

Record(i) ==
    /\ intent[i] = "none"
    /\ intent' = [intent EXCEPT ![i] = "considering"]
    /\ UNCHANGED <<today, account, order, fill, cash, held, told, market, requests, pass, restarts>>

FreeSlot(slot) == \A r \in requests : r.slot # slot

Finish(r) == requests' = requests \ {r}

\* Fault: the placement day is taken in a time zone where it is still yesterday.
BeginPromoteYesterday(slot, i) ==
    /\ FreeSlot(slot)
    /\ account[Wrote[i].user] # NoAccount
    /\ intent[i] = "considering"
    /\ today > 1
    /\ requests' = requests \cup {[slot |-> slot, op |-> "promote", intent |-> i, session |-> today - 1]}
    /\ UNCHANGED <<today, tables, market, pass, restarts>>

\* The reads Promote and Settle do before their transaction: the account must
\* be open (Promote) and the intent must still be under consideration.
BeginPromote(slot, i) ==
    /\ FreeSlot(slot)
    /\ account[Wrote[i].user] # NoAccount
    /\ intent[i] = "considering"
    /\ requests' = requests \cup {[slot |-> slot, op |-> "promote", intent |-> i, session |-> today]}
    /\ UNCHANGED <<today, tables, market, pass, restarts>>

BeginSettle(slot, i, status) ==
    /\ FreeSlot(slot)
    /\ intent[i] = "considering"
    /\ requests' = requests \cup {[slot |-> slot, op |-> status, intent |-> i, session |-> today]}
    /\ UNCHANGED <<today, tables, market, pass, restarts>>

NewestStored(k) ==
    CHOOSE s \in 0..MaxDay :
        /\ s = 0 \/ bars[k][s].open # 0
        /\ \A t \in Days : bars[k][t].open # 0 => t <= s

OrdersPlaced == Cardinality({j \in Intents : order[j].state # "none"})

\* Repository.Promote: the order and the settled intent on one transaction.  A
\* second promotion of the intent hits the unique index; an intent settled
\* meanwhile rolls the transaction back.
CommitPromote(r) ==
    LET i == r.intent
    IN  /\ r.op = "promote"
        /\ Finish(r)
        /\ IF order[i].state = "none" /\ intent[i] = "considering"
           THEN /\ order' = [order EXCEPT ![i] =
                                 [state |-> "pending", placed |-> r.session, at |-> OrdersPlaced,
                                  newest |-> NewestStored(Wrote[i].instrument)]]
                /\ intent' = [intent EXCEPT ![i] = "acted_on"]
           ELSE UNCHANGED <<order, intent>>
        /\ UNCHANGED <<today, account, fill, cash, held, told, market, pass, restarts>>

\* Fault: the update is not guarded by the status the request read.
CommitSettleBlindly(r) ==
    /\ r.op # "promote"
    /\ Finish(r)
    /\ intent' = [intent EXCEPT ![r.intent] = r.op]
    /\ UNCHANGED <<today, account, order, fill, cash, held, told, market, pass, restarts>>

\* intents.Repository.Settle: guarded by the status, so the loser changes nothing.
CommitSettle(r) ==
    /\ r.op # "promote"
    /\ Finish(r)
    /\ intent' = IF intent[r.intent] = "considering"
                 THEN [intent EXCEPT ![r.intent] = r.op] ELSE intent
    /\ UNCHANGED <<today, account, order, fill, cash, held, told, market, pass, restarts>>

\* Fault: the order takes the word an intent uses for it.
CancelAsWithdrawn(i) ==
    /\ order[i].state = "pending"
    /\ order' = [order EXCEPT ![i].state = "withdrawn"]
    /\ UNCHANGED <<today, account, intent, fill, cash, held, told, market, requests, pass, restarts>>

\* Repository.Cancel: one guarded update; anything but a pending order answers not found.
Cancel(i) ==
    /\ order[i].state = "pending"
    /\ order' = [order EXCEPT ![i].state = "cancelled"]
    /\ UNCHANGED <<today, account, intent, fill, cash, held, told, market, requests, pass, restarts>>

-----------------------------------------------------------------------------
(***************************************************************************)
(* What the market-data side does: bars arrive, are corrected, or stand in *)
(* from the fallback provider until the primary replaces them; exchange    *)
(* rates arrive.                                                           *)
(***************************************************************************)

\* Fault: the latest observation wins, whoever made it.
ObserveBarLatest(k, s, open, primary) ==
    LET bar == bars[k][s]
    IN  /\ s <= today
        /\ bar.observed < MaxObservations
        /\ bar.open # open \/ bar.primary # primary
        /\ bars' = [bars EXCEPT ![k][s] =
                        [open |-> open, primary |-> primary, observed |-> bar.observed + 1]]
        /\ UNCHANGED <<today, tables, fx, requests, pass, restarts>>

\* ImportScope.upsertBar: a fallback bar never replaces a primary one, an
\* unchanged bar is not written, and a changed one is observed later.
ObserveBar(k, s, open, primary) ==
    LET bar == bars[k][s]
    IN  /\ s <= today
        /\ bar.observed < MaxObservations
        /\ bar.primary => primary
        /\ bar.open # open \/ bar.primary # primary
        /\ bars' = [bars EXCEPT ![k][s] =
                        [open |-> open, primary |-> primary, observed |-> bar.observed + 1]]
        /\ UNCHANGED <<today, tables, fx, requests, pass, restarts>>

StoreRate(c, s, rate) ==
    /\ c # EUR
    /\ s <= today
    /\ fx[c][s] # rate
    /\ fx' = [fx EXCEPT ![c][s] = rate]
    /\ UNCHANGED <<today, tables, bars, requests, pass, restarts>>

\* A request lasts milliseconds, so no day ends inside one.
Tick ==
    /\ today < MaxDay
    /\ requests = {}
    /\ today' = today + 1
    /\ UNCHANGED <<tables, market, requests, pass, restarts>>

-----------------------------------------------------------------------------
(***************************************************************************)
(* The fill pass.                                                          *)
(***************************************************************************)

Before(i, j) ==
    \/ order[i].placed < order[j].placed
    \/ order[i].placed = order[j].placed /\ order[i].at < order[j].at

\* Fault: an order given up on is tried again.
PendingAgain == {i \in Intents : order[i].state \in {"pending", "unfillable"}}

Pending == {i \in Intents : order[i].state = "pending"}

\* pendingOrders: every pending order, by placed_session and placed_at.
PendingOrders(q) ==
    /\ Len(q) = Cardinality(Pending)
    /\ \A i \in Pending : \E n \in DOMAIN q : q[n] = i
    /\ \A m, n \in DOMAIN q : m < n => Before(q[m], q[n])

StartPass ==
    /\ step = "idle"
    /\ Pending # {}
    /\ queue' \in [1..Cardinality(Pending) -> Pending]
    /\ PendingOrders(queue')
    /\ step' = "bar"
    /\ read' = NoRead
    /\ UNCHANGED <<today, tables, market, requests, restarts>>

\* Fault: an order that must wait ends the pass.
NextOrderAbandons ==
    /\ queue' = <<>>
    /\ step' = "idle"
    /\ read' = NoRead

\* On to the next order of the snapshot.
NextOrder ==
    /\ queue' = Tail(queue)
    /\ step' = IF Len(queue) > 1 THEN "bar" ELSE "idle"
    /\ read' = NoRead

\* nextOpen: the first stored session strictly after the placement, 0 if none.
NextOpen(k, placed) ==
    LET later == {s \in Days : s > placed /\ bars[k][s].open # 0}
    IN  IF later = {} THEN 0 ELSE CHOOSE s \in later : \A t \in later : s <= t

\* fillOne up to its price: wait, give up, or take the open of a primary bar.
ReadBar ==
    /\ step = "bar"
    /\ LET i == Head(queue)
           k == Wrote[i].instrument
           s == NextOpen(k, order[i].placed)
       IN  \/ /\ s = 0
              /\ today - order[i].placed > GiveUpSessions
              /\ step' = "settle"
              /\ read' = [NoRead EXCEPT !.verdict = "no_price"]
              /\ UNCHANGED queue
           \/ /\ IF s = 0 THEN today - order[i].placed <= GiveUpSessions
                 ELSE ~bars[k][s].primary
              /\ NextOrder
           \/ /\ s # 0
              /\ bars[k][s].primary
              /\ step' = "rate"
              /\ read' = [NoRead EXCEPT !.session = s, !.open = bars[k][s].open,
                                        !.observed = bars[k][s].observed]
              /\ UNCHANGED queue
    /\ UNCHANGED <<today, tables, market, requests, restarts>>

\* rateOf: the latest stored rate on or before the session; 0 is an error.
RateOf(c, session) ==
    LET stored == {s \in Days : s <= session /\ fx[c][s] # 0}
    IN  IF c = EUR THEN Scale
        ELSE IF stored = {} THEN 0
        ELSE fx[c][CHOOSE s \in stored : \A t \in stored : t <= s]

\* conversionRate and costs.Price.  A missing rate leaves the order pending.
ReadRate ==
    /\ step = "rate"
    /\ LET w          == Wrote[Head(queue)]
           accounting == account[w.user].currency
           listing    == Listing[w.instrument]
           from       == RateOf(listing, read.session)
           to         == RateOf(accounting, read.session)
           converted  == listing # accounting
       IN  \/ /\ converted /\ (from = 0 \/ to = 0)
              /\ NextOrder
           \/ /\ converted => from # 0 /\ to # 0
              /\ step' = "standing"
              /\ read' = [read EXCEPT !.effect =
                            Price(CostModel, w.direction, w.quantity, read.open,
                                  IF converted THEN Div(from, to) ELSE Scale, converted).cashEffect]
              /\ UNCHANGED queue
    /\ UNCHANGED <<today, tables, market, requests, restarts>>

\* Fault: only purchases are checked.
VerdictBuysOnly(w, balance, position, effect) ==
    IF w.direction = "buy" /\ balance + effect < 0 THEN "insufficient_cash" ELSE "filled"

\* Fault: the balance is checked before the purchase instead of after it.
VerdictBeforeCosts(w, balance, position, effect) ==
    CASE w.direction = "buy" /\ balance < 0            -> "insufficient_cash"
      [] w.direction = "sell" /\ position < w.quantity -> "exceeds_position"
      [] OTHER                                         -> "filled"

\* What fillOne decides from the cash and position it read.
Verdict(w, balance, position, effect) ==
    CASE w.direction = "buy" /\ balance + effect < 0    -> "insufficient_cash"
      [] w.direction = "sell" /\ position < w.quantity -> "exceeds_position"
      [] OTHER                                         -> "filled"

ReadStanding ==
    /\ step = "standing"
    /\ LET w == Wrote[Head(queue)]
           balance  == cash[w.user]
           position == held[w.user][w.instrument]
       IN  read' = [read EXCEPT !.cash = balance, !.position = position,
                                !.verdict = Verdict(w, balance, position, read.effect)]
    /\ step' = "settle"
    /\ UNCHANGED <<today, tables, market, requests, queue, restarts>>

FillsRecorded == Cardinality({j \in Intents : fill[j].session # 0})

\* Fault: the update is not guarded.
SettleStateUnguarded(i, state) == order' = [order EXCEPT ![i].state = state]

SettleState(i, state) ==
    order' = IF order[i].state = "pending" THEN [order EXCEPT ![i].state = state] ELSE order

\* recordFill: the fill row (one per order, strictly after the placement), the
\* guarded update of the order, the event and the notice, on one transaction.
\* The update's row count is not read.
RecordFill ==
    LET i == Head(queue)
        w == Wrote[i]
    IN  /\ step = "settle"
        /\ read.verdict = "filled"
        /\ NextOrder
        /\ IF fill[i].session = 0 /\ read.session > order[i].placed
           THEN /\ fill' = [fill EXCEPT ![i] =
                                [session |-> read.session, open |-> read.open, effect |-> read.effect,
                                 observed |-> read.observed, at |-> FillsRecorded]]
                /\ cash' = [cash EXCEPT ![w.user] = @ + read.effect]
                /\ held' = [held EXCEPT ![w.user][w.instrument] =
                                IF w.direction = "buy" THEN @ + w.quantity ELSE @ - w.quantity]
                /\ SettleState(i, "filled")
                /\ told' = [told EXCEPT ![i] = @ \cup {"filled"}]
           ELSE UNCHANGED <<fill, cash, held, order, told>>
        /\ UNCHANGED <<today, account, intent, market, requests, restarts>>

\* markUnfillable: the guarded update, the event and the notice.
MarkUnfillable ==
    /\ step = "settle"
    /\ read.verdict # "filled"
    /\ NextOrder
    /\ SettleState(Head(queue), "unfillable")
    /\ told' = [told EXCEPT ![Head(queue)] = @ \cup {read.verdict}]
    /\ UNCHANGED <<today, account, intent, fill, cash, held, market, requests, restarts>>

\* The process stops: open requests and the pass are lost, the tables are not.
Restart ==
    /\ restarts < MaxRestarts
    /\ requests # {} \/ step # "idle"
    /\ restarts' = restarts + 1
    /\ requests' = {}
    /\ queue' = <<>>
    /\ step' = "idle"
    /\ read' = NoRead
    /\ UNCHANGED <<today, tables, market>>

-----------------------------------------------------------------------------
Person ==
    \/ \E u \in Users, amount \in StartingCash, c \in Currencies : Open(u, amount, c)
    \/ \E i \in Intents : Record(i) \/ Cancel(i)
    \/ \E slot \in Slots, i \in Intents :
          \/ BeginPromote(slot, i)
          \/ \E status \in {"withdrawn", "acted_on"} : BeginSettle(slot, i, status)
    \/ \E r \in requests : CommitPromote(r) \/ CommitSettle(r)

Market ==
    \/ \E k \in Instruments, s \in Days, open \in Opens, primary \in BOOLEAN :
          ObserveBar(k, s, open, primary)
    \/ \E c \in Currencies, s \in Days, rate \in RateValues : StoreRate(c, s, rate)
    \/ Tick

FillStep == ReadBar \/ ReadRate \/ ReadStanding \/ RecordFill \/ MarkUnfillable

Next == Person \/ Market \/ StartPass \/ FillStep \/ Restart

Spec == Init /\ [][Next]_vars

(***************************************************************************)
(* Fairness: the scheduler's goroutine runs FillPending after every        *)
(* night's import, and a running pass goes on to its last order.           *)
(***************************************************************************)
FairSpec == Spec /\ WF_vars(StartPass) /\ WF_vars(FillStep)
-----------------------------------------------------------------------------
(***************************************************************************)
(* Properties.                                                             *)
(***************************************************************************)

\* A paper account cannot go short: whatever cancels, corrections and restarts
\* happen between the pass's read of the position and its write, the recorded
\* sales never exceed the recorded purchases.
NeverShort == \A u \in Users, k \in Instruments : held[u][k] >= 0

\* A buy is recorded only when the cash really standing at that moment covers
\* it, although the cash was read in an earlier transaction.
BuysAreCovered ==
    [][\A i \in Intents :
          fill[i].session = 0 /\ fill'[i].session # 0 /\ Wrote[i].direction = "buy"
          => cash'[Wrote[i].user] >= 0]_vars

\* An order exists only beside an intent that says it was acted on: racing
\* promotions and settlements of one intent leave no order behind a withdrawn one.
OrdersComeFromActedIntents ==
    \A i \in Intents : order[i].state # "none" =>
        intent[i] = "acted_on" /\ account[Wrote[i].user] # NoAccount

\* An order never reads as filled beside no fill, and a fill never stands beside
\* an order that is still pending or was declared unfillable.
FilledOrdersHaveFills ==
    \A i \in Intents :
        /\ order[i].state = "filled" => fill[i].session # 0
        /\ fill[i].session # 0 => order[i].state \in {"filled", "cancelled"}

\* The price of a fill did not exist when its order was placed: no bar of the
\* fill's session, nor of a later one, was stored at that moment.
NoLookahead ==
    \A i \in Intents : fill[i].session # 0 =>
        fill[i].session > order[i].placed /\ fill[i].session > order[i].newest

\* BarDiverged of Repository.Orders: the bar was observed again after the fill.
BarDiverged(i) == bars[Wrote[i].instrument][fill[i].session].observed > fill[i].observed

\* A fill rests on a primary bar for good, and one whose price no longer equals
\* the stored open is reported as diverged, even when the correction came
\* between the pass's read of the bar and its write.
FillsMatchTheirBars ==
    \A i \in Intents : fill[i].session # 0 =>
        LET bar == bars[Wrote[i].instrument][fill[i].session]
        IN  bar.primary /\ (bar.open # fill[i].open => BarDiverged(i))

\* A track record cannot be edited: a settled order keeps its state and a
\* recorded fill is never repriced or removed.
HistoryIsPermanent ==
    [][\A i \in Intents :
          /\ order[i].state \in Settled => order'[i].state = order[i].state
          /\ fill[i].session # 0 => fill'[i] = fill[i]]_vars

\* An order the pass can decide: a primary bar with its rates, or no bar for
\* longer than the pass waits.
Decidable(i) ==
    LET w == Wrote[i]
        s == NextOpen(w.instrument, order[i].placed)
    IN  /\ order[i].state = "pending"
        /\ IF s = 0 THEN today - order[i].placed > GiveUpSessions
           ELSE /\ bars[w.instrument][s].primary
                /\ \/ Listing[w.instrument] = account[w.user].currency
                   \/ /\ RateOf(Listing[w.instrument], s) # 0
                      /\ RateOf(account[w.user].currency, s) # 0

\* One order that cannot be decided does not stop the rest: an order that stays
\* decidable is settled, whatever waits or fails in front of it.
DecidableOrdersSettle == \A i \in Intents : Decidable(i) ~> ~Decidable(i)

\* People are told once of what became of an order: of its fill exactly when it
\* has one, of a reason when it reads as unfillable, and never of both, although
\* the pass that tells them may be cut short and run again.
OutcomesAreToldOnce ==
    \A i \in Intents :
        /\ "filled" \in told[i] <=> fill[i].session # 0
        /\ order[i].state = "unfillable" => told[i] \cap Reasons # {}
        /\ \A a, b \in told[i] : a = b

\* Cancel "withdraws a pending order": a cancelled order has no fill.  It does not
\* hold while a pass is running, and no run checks it: see the README.
CancelledOrdersNeverFill ==
    \A i \in Intents : order[i].state = "cancelled" => fill[i].session = 0
=============================================================================
