------------------------- MODULE PaperTradingProofs -------------------------
(***************************************************************************)
(* What the simulated account guarantees for every number of people,       *)
(* instruments, intents, days, prices and concurrent requests.             *)
(***************************************************************************)
EXTENDS PaperAccount, MCCosts, FiniteSetTheorems, WellFoundedInduction, TLAPS

-----------------------------------------------------------------------------
(***************************************************************************)
(* What one execution costs is a number, for every operand, and every      *)
(* quotient on the way is the nearest one.                                 *)
(***************************************************************************)
\* RoundHalfEven of natural operands is a natural number within half a divisor.
LEMMA RoundHalfEvenType ==
    ASSUME NEW n \in Nat, NEW d \in Nat \ {0}
    PROVE  RoundHalfEven(n, d) \in Nat
  <1>1. n \div d \in Nat /\ n % d \in 0..(d - 1)
    OBVIOUS
  <1>. QED
    BY <1>1 DEF RoundHalfEven

LEMMA DivideHalfEvenType ==
    ASSUME NEW n \in Int, NEW d \in Int \ {0}
    PROVE  DivideHalfEven(n, d) \in Int
  <1>1. Magnitude(n) \in Nat /\ Magnitude(d) \in Nat \ {0}
    BY DEF Magnitude
  <1>2. RoundHalfEven(Magnitude(n), Magnitude(d)) \in Nat
    BY <1>1, RoundHalfEvenType
  <1>. QED
    BY <1>2 DEF DivideHalfEven

\* RoundHalfEven returns the integer nearest to n / d, of two the even one.
LEMMA RoundHalfEvenNearest ==
    ASSUME NEW n \in Nat, NEW d \in Nat \ {0}
    PROVE  LET q == RoundHalfEven(n, d)
               error == 2 * Magnitude(n - q * d)
           IN  error < d \/ (error = d /\ q % 2 = 0)
  <1> DEFINE q == n \div d
             r == n % d
  <1>1. q \in Nat /\ r \in Nat /\ r < d
    OBVIOUS
  <1>2. n = q * d + r
    OBVIOUS
  <1>3. (q + 1) * d = q * d + d /\ q * d \in Int
    BY <1>1
  <1>4. n - q * d = r /\ n - (q + 1) * d = r - d
    BY <1>1, <1>2, <1>3
  <1>5. q % 2 = 0 \/ (q % 2 = 1 /\ (q + 1) % 2 = 0)
    BY <1>1
  <1>6. CASE 2 * r > d \/ (2 * r = d /\ q % 2 = 1)
    <2>1. RoundHalfEven(n, d) = q + 1
      BY <1>6 DEF RoundHalfEven
    <2>. HIDE DEF q, r
    <2>. QED
      BY <1>1, <1>4, <1>5, <1>6, <2>1 DEF Magnitude
  <1>7. CASE ~(2 * r > d \/ (2 * r = d /\ q % 2 = 1))
    <2>1. RoundHalfEven(n, d) = q
      BY <1>7 DEF RoundHalfEven
    <2>. HIDE DEF q, r
    <2>. QED
      BY <1>1, <1>4, <1>5, <1>7, <2>1 DEF Magnitude
  <1>. QED
    BY <1>6, <1>7

\* divideHalfEven returns the integer nearest to n / d, of two the even one,
\* whatever the signs of the operands.
LEMMA DivideHalfEvenNearest ==
    ASSUME NEW n \in Int, NEW d \in Int \ {0}
    PROVE  LET q == DivideHalfEven(n, d)
               error == 2 * Magnitude(n - q * d)
           IN  error < Magnitude(d) \/ (error = Magnitude(d) /\ q % 2 = 0)
  <1> DEFINE a == Magnitude(n)
             b == Magnitude(d)
             Q == RoundHalfEven(a, b)
             q == DivideHalfEven(n, d)
  <1>1. a \in Nat /\ b \in Nat \ {0}
    BY DEF Magnitude
  <1>2. Q \in Nat
    BY <1>1, RoundHalfEvenType
  <1>3. 2 * Magnitude(a - Q * b) < b \/ (2 * Magnitude(a - Q * b) = b /\ Q % 2 = 0)
    BY <1>1, RoundHalfEvenNearest
  <1>4. q = IF (n < 0) # (d < 0) THEN -Q ELSE Q
    BY DEF DivideHalfEven
  <1>. HIDE DEF Q, q
  <1>5. Q * b \in Int /\ Q * d = (IF d < 0 THEN -(Q * b) ELSE Q * b)
    BY <1>1, <1>2 DEF Magnitude
  <1>6. q * d = IF (n < 0) # (d < 0) THEN -(Q * d) ELSE Q * d
    BY <1>2, <1>4
  <1>7. q * d = IF n < 0 THEN -(Q * b) ELSE Q * b
    BY <1>5, <1>6
  <1>8. Magnitude(n - q * d) = Magnitude(a - Q * b)
    BY <1>5, <1>7 DEF Magnitude
  <1>9. Q % 2 = 0 => q % 2 = 0
    BY <1>2, <1>4
  <1>. QED
    BY <1>3, <1>8, <1>9 DEF q

\* divideHalfEven rounds to the nearest integer, ties to even, for operands of
\* either sign and any size.
THEOREM RoundingIsNearest == InputSpec => []HalfEvenIsNearest
  <1> DEFINE Inv == input = Start \/ input \in Quotients \/ input \in Executions
  <1>1. InputInit => Inv
    BY DEF InputInit
  <1>2. Inv /\ [InputNext]_input => Inv'
    BY DEF InputNext, DivideAny, PriceAny
  <1>3. Inv => HalfEvenIsNearest
    <2>1. SUFFICES ASSUME Inv, input.op = "divide" PROVE HalfEvenIsNearest
      BY DEF HalfEvenIsNearest
    <2>2. input \in Quotients
      BY <2>1 DEF Start, Executions
    <2>3. input.n \in Int /\ input.d \in Int \ {0}
      BY <2>2 DEF Quotients
    <2>. QED
      BY <2>3, DivideHalfEvenNearest DEF HalfEvenIsNearest
  <1>. QED
    BY <1>1, <1>2, <1>3, PTL DEF InputSpec

LEMMA MulType == \A a, b \in Int : Mul(a, b) \in Int
  <1>1. SUFFICES ASSUME NEW a \in Int, NEW b \in Int PROVE Mul(a, b) \in Int
    OBVIOUS
  <1>2. a * b \in Int /\ Scale \in Int \ {0}
    BY ScaleAssumption
  <1>. QED
    BY <1>2, DivideHalfEvenType DEF Mul

LEMMA DivType == \A a \in Int, b \in Int \ {0} : Div(a, b) \in Int
  <1>1. SUFFICES ASSUME NEW a \in Int, NEW b \in Int \ {0} PROVE Div(a, b) \in Int
    OBVIOUS
  <1>2. a * Scale \in Int
    BY ScaleAssumption
  <1>. QED
    BY <1>2, DivideHalfEvenType DEF Div

LEMMA PriceType ==
    ASSUME NEW m \in [slippage: Nat, spread: Nat, rate: Nat, minimum: Nat],
           NEW direction, NEW q \in Int, NEW p \in Int, NEW r \in Int \ {0},
           NEW converted \in BOOLEAN
    PROVE  Price(m, direction, q, p, r, converted).cashEffect \in Int
  <1> DEFINE listed    == Mul(p, q)
             gross     == ToAccounting(listed, r, converted)
             slippage  == ToAccounting(Mul(listed, m.slippage), r, converted)
             base      == IF direction = "sell" THEN gross - slippage ELSE gross + slippage
             spread    == IF converted THEN Mul(base, m.spread) ELSE 0
             brokerage == Larger(Mul(gross, m.rate), m.minimum)
  <1>0. m.slippage \in Int /\ m.spread \in Int /\ m.rate \in Int /\ m.minimum \in Int
    OBVIOUS
  <1>1. listed \in Int
    BY MulType
  <1>2. Mul(listed, m.slippage) \in Int
    BY <1>0, <1>1, MulType
  <1>3. gross \in Int /\ slippage \in Int
    BY <1>1, <1>2, DivType DEF ToAccounting
  <1>4. base \in Int
    BY <1>3
  <1>. HIDE DEF base
  <1>5. spread \in Int
    BY <1>0, <1>4, MulType
  <1>6. brokerage \in Int
    BY <1>0, <1>3, MulType DEF Larger
  <1>7. Price(m, direction, q, p, r, converted).cashEffect =
            IF direction = "buy" THEN -(gross + slippage + spread + brokerage)
            ELSE gross - slippage - spread - brokerage
    BY DEF Price, base
  <1>. HIDE DEF gross, slippage, spread, brokerage
  <1>. QED
    BY <1>3, <1>5, <1>6, <1>7

-----------------------------------------------------------------------------
(***************************************************************************)
(* A bounded set of numbers has a least and a greatest element.            *)
(***************************************************************************)
LEMMA LeastOf ==
    ASSUME NEW S \in SUBSET Nat, S # {}
    PROVE  \E s \in S : \A t \in S : s <= t
  <1> DEFINE R == OpToRel(<, Nat)
  <1>1. IsWellFoundedOn(R, Nat)
    BY NatLessThanWellFounded
  <1>2. \A y, x \in Nat : y < x => <<y, x>> \in R
    BY DEF OpToRel
  <1>. HIDE DEF R
  <1>3. PICK s \in S : \A t \in S : ~(<<t, s>> \in R)
    BY <1>1, WFMin
  <1>4. \A t \in S : s <= t
    <2>1. TAKE t \in S
    <2>2. s \in Nat /\ t \in Nat
      OBVIOUS
    <2>3. ~(t < s)
      BY <1>2, <1>3, <2>2, Zenon
    <2>. QED
      BY <2>2, <2>3
  <1>. QED
    BY <1>4

LEMMA GreatestOf ==
    ASSUME NEW m \in Nat, NEW S \in SUBSET (0..m), S # {}
    PROVE  \E s \in S : \A t \in S : t <= s
  <1> DEFINE T == {m - s : s \in S}
  <1>1. T \in SUBSET Nat /\ T # {}
    <2>1. \A s \in S : m - s \in Nat
      OBVIOUS
    <2>. QED
      BY <2>1
  <1>2. PICK x \in T : \A y \in T : x <= y
    BY <1>1, LeastOf
  <1>3. PICK s \in S : x = m - s
    BY <1>2
  <1>4. \A t \in S : t <= s
    <2>1. TAKE t \in S
    <2>2. m - t \in T
      OBVIOUS
    <2>. QED
      BY <1>2, <1>3, <2>2
  <1>. QED
    BY <1>4

-----------------------------------------------------------------------------
(***************************************************************************)
(* What the operators of the model return.                                 *)
(***************************************************************************)

\* The newest stored session is a day that has a bar, or 0.
LEMMA NewestStoredType ==
    ASSUME TypeOK, NEW k \in Instruments
    PROVE  /\ NewestStored(k) \in 0..MaxDay
           /\ NewestStored(k) = 0 \/ bars[k][NewestStored(k)].open # 0
  <1> DEFINE stored == {s \in Days : bars[k][s].open # 0}
  <1>1. MaxDay \in Nat
    BY PaperAssumption
  <1>2. \E s \in 0..MaxDay :
            /\ s = 0 \/ bars[k][s].open # 0
            /\ \A t \in Days : bars[k][t].open # 0 => t <= s
    <2>1. CASE stored = {}
      BY <1>1, <2>1
    <2>2. CASE stored # {}
      <3>1. PICK s \in stored : \A t \in stored : t <= s
        <4>1. stored \in SUBSET (0..MaxDay)
          BY <1>1 DEF Days
        <4>. HIDE DEF stored
        <4>. QED
          BY <1>1, <2>2, <4>1, GreatestOf
      <3>. QED
        BY <1>1, <3>1 DEF Days
    <2>. QED
      BY <2>1, <2>2
  <1>. QED
    BY <1>2 DEF NewestStored

\* nextOpen answers 0 or a stored session after the placement.
LEMMA NextOpenType ==
    ASSUME TypeOK, NEW k \in Instruments, NEW placed \in 0..MaxDay
    PROVE  /\ NextOpen(k, placed) \in 0..MaxDay
           /\ NextOpen(k, placed) # 0 =>
                 NextOpen(k, placed) \in Days /\ NextOpen(k, placed) > placed
  <1> DEFINE later == {s \in Days : s > placed /\ bars[k][s].open # 0}
             least == CHOOSE s \in later : \A t \in later : s <= t
  <1>1. MaxDay \in Nat
    BY PaperAssumption
  <1>2. CASE later = {}
    BY <1>1, <1>2 DEF NextOpen
  <1>3. CASE later # {}
    <2>1. later \in SUBSET Nat
      BY DEF Days
    <2>2. \E s \in later : \A t \in later : s <= t
      <3>. HIDE DEF later
      <3>. QED
        BY <1>3, <2>1, LeastOf
    <2>3. least \in later
      BY <2>2
    <2>4. NextOpen(k, placed) = least
      BY <1>3 DEF NextOpen
    <2>. QED
      BY <1>1, <2>3, <2>4 DEF Days
  <1>. QED
    BY <1>2, <1>3

\* rateOf answers a stored rate, the unit rate of the euro, or 0.
LEMMA RateOfType ==
    ASSUME TypeOK, NEW c \in Currencies, NEW session \in 0..MaxDay
    PROVE  RateOf(c, session) \in RateValues \cup {Scale, 0}
  <1> DEFINE stored == {s \in Days : s <= session /\ fx[c][s] # 0}
             latest == CHOOSE s \in stored : \A t \in stored : t <= s
  <1>1. MaxDay \in Nat
    BY PaperAssumption
  <1>2. CASE c = EUR \/ stored = {}
    BY <1>2 DEF RateOf
  <1>3. CASE c # EUR /\ stored # {}
    <2>1. stored \in SUBSET (0..MaxDay)
      BY <1>1 DEF Days
    <2>2. \E s \in stored : \A t \in stored : t <= s
      <3>. HIDE DEF stored
      <3>. QED
        BY <1>1, <1>3, <2>1, GreatestOf
    <2>3. latest \in stored
      BY <2>2
    <2>4. RateOf(c, session) = fx[c][latest]
      BY <1>3 DEF RateOf
    <2>. QED
      BY <2>3, <2>4 DEF TypeOK
  <1>. QED
    BY <1>2, <1>3

LEMMA CountsAreNatural == OrdersPlaced \in Nat /\ FillsRecorded \in Nat /\ Cardinality(Pending) \in Nat
  BY PaperAssumption, FS_Subset, FS_CardinalityType DEF OrdersPlaced, FillsRecorded, Pending

\* conversionRate and costs.Price give a cash effect whenever both rates exist.
LEMMA EffectType ==
    ASSUME TypeOK, NEW w \in Contents, NEW open \in Nat,
           NEW from \in RateValues \cup {Scale, 0}, NEW to \in RateValues \cup {Scale, 0},
           NEW converted \in BOOLEAN,
           converted => from # 0 /\ to # 0
    PROVE  Price(CostModel, w.direction, w.quantity, open,
                 IF converted THEN Div(from, to) ELSE Scale, converted).cashEffect \in Int
  <1> DEFINE rate == IF converted THEN Div(from, to) ELSE Scale
  <1>1. rate \in Int \ {0}
    <2>1. CASE converted
      <3>1. from \in RateValues \cup {Scale} /\ to \in RateValues \cup {Scale}
        BY <2>1
      <3>2. from \in Int /\ to \in Int \ {0}
        BY <3>1, PaperAssumption, ScaleAssumption
      <3>3. Div(from, to) # 0
        BY <3>1, PaperAssumption
      <3>. QED
        BY <2>1, <3>2, <3>3, DivType
    <2>2. CASE ~converted
      BY <2>2, ScaleAssumption
    <2>. QED
      BY <2>1, <2>2
  <1>2. w.quantity \in Int /\ open \in Int
    BY DEF Contents
  <1>3. CostModel \in [slippage: Nat, spread: Nat, rate: Nat, minimum: Nat]
    BY PaperAssumption
  <1>. HIDE DEF rate
  <1>4. Price(CostModel, w.direction, w.quantity, open, rate, converted).cashEffect \in Int
    BY <1>1, <1>2, <1>3, PriceType
  <1>. QED
    BY <1>4 DEF rate

-----------------------------------------------------------------------------
(***************************************************************************)
(* The inductive invariant.  The pass works from a snapshot, so what it    *)
(* read may be stale when it writes; these are the facts that no other     *)
(* actor can disturb in between.                                           *)
(***************************************************************************)

\* The snapshot names each order once, and nobody but the pass settles an
\* order of it, except by cancelling.
SnapshotHolds ==
    /\ step # "idle" => queue # <<>>
    /\ \A m, n \in DOMAIN queue : m # n => queue[m] # queue[n]
    /\ \A n \in DOMAIN queue : order[queue[n]].state \in {"pending", "cancelled"}

\* An account, once open, stays: a promotion under way still has its own.
PromotersHaveAccounts ==
    \A r \in requests : r.op = "promote" => account[Wrote[r.intent].user] # NoAccount

\* Between reading the standing and recording the fill, the figures the verdict
\* rests on stay true.
StandingHolds ==
    step = "settle" /\ read.verdict = "filled" =>
        LET w == Wrote[Head(queue)]
        IN  /\ w.direction = "buy" => cash[w.user] + read.effect >= 0
            /\ w.direction = "sell" => held[w.user][w.instrument] >= w.quantity

\* No bar of a later day is stored and a request does not outlive its day, so
\* no order was placed after a bar of a later session was stored.
NothingFromTheFuture ==
    /\ \A k \in Instruments, s \in Days : bars[k][s].open # 0 => s <= today
    /\ \A r \in requests : r.session = today
    /\ \A i \in Intents : order[i].newest <= order[i].placed

\* Nobody has been told anything of an order that is not decided yet, cancelled
\* while it waits in the snapshot or not.
UndecidedAreUntold ==
    /\ \A i \in Intents : order[i].state \in {"none", "pending"} => told[i] = {}
    /\ \A n \in DOMAIN queue : told[queue[n]] = {}

IInv ==
    /\ TypeOK
    /\ SnapshotHolds
    /\ PromotersHaveAccounts
    /\ StandingHolds
    /\ NothingFromTheFuture
    /\ UndecidedAreUntold
    /\ OutcomesAreToldOnce
    /\ OrdersComeFromActedIntents
    /\ FilledOrdersHaveFills
    /\ NeverShort
    /\ NoLookahead

-----------------------------------------------------------------------------
(***************************************************************************)
(* Type correctness.                                                       *)
(***************************************************************************)
LEMMA WroteType ==
    \A i \in Intents :
        /\ Wrote[i] \in Contents
        /\ Wrote[i].user \in Users
        /\ Wrote[i].instrument \in Instruments
        /\ Wrote[i].direction \in {"buy", "sell"}
        /\ Wrote[i].quantity \in Nat \ {0}
        /\ Listing[Wrote[i].instrument] \in Currencies
  <1>1. \A i \in Intents : Wrote[i] \in Contents
    BY PaperAssumption
  <1>. QED
    BY <1>1, PaperAssumption DEF Contents

\* An order the pass works on is one of the snapshot, and dropping it leaves a
\* snapshot.
LEMMA HeadOfQueue ==
    ASSUME TypeOK, SnapshotHolds, step # "idle"
    PROVE  /\ Head(queue) \in Intents
           /\ Head(queue) = queue[1] /\ 1 \in DOMAIN queue
           /\ Tail(queue) \in Seq(Intents)
           /\ \A n \in DOMAIN Tail(queue) :
                 n + 1 \in DOMAIN queue /\ n + 1 # 1 /\ Tail(queue)[n] = queue[n + 1]
           /\ Len(queue) > 1 => Tail(queue) # <<>>
  <1>1. queue \in Seq(Intents) /\ queue # <<>>
    BY DEF TypeOK, SnapshotHolds
  <1>2. Len(queue) \in Nat \ {0} /\ DOMAIN queue = 1..Len(queue)
    BY <1>1
  <1>3. Head(queue) = queue[1] /\ queue[1] \in Intents /\ 1 \in DOMAIN queue
    BY <1>1, <1>2
  <1>4. Tail(queue) \in Seq(Intents) /\ Len(Tail(queue)) = Len(queue) - 1
    BY <1>1
  <1>5. \A n \in 1..(Len(queue) - 1) : Tail(queue)[n] = queue[n + 1]
    BY <1>1, <1>2
  <1>6. DOMAIN Tail(queue) = 1..(Len(queue) - 1)
    BY <1>4
  <1>7. Len(queue) > 1 => Tail(queue) # <<>>
    <2>1. Len(<<>>) = 0
      OBVIOUS
    <2>2. Tail(queue) = <<>> => Len(queue) - 1 = 0
      BY <1>4, <2>1
    <2>. QED
      BY <1>2, <2>2
  <1>. QED
    BY <1>2, <1>3, <1>4, <1>5, <1>6, <1>7

LEMMA NoReadType == NoRead \in Readings
  BY PaperAssumption DEF NoRead, Readings, Outcomes

LEMMA NextOrderType ==
    ASSUME TypeOK, SnapshotHolds, step # "idle", NextOrder
    PROVE  /\ queue' \in Seq(Intents)
           /\ step' \in {"idle", "bar"}
           /\ read' \in Readings
  BY HeadOfQueue, NoReadType DEF NextOrder

\* What is not among the pass's variables keeps its type when it is unchanged.
LEMMA PassType ==
    ASSUME TypeOK, UNCHANGED <<today, tables, market, requests, restarts>>,
           queue' \in Seq(Intents),
           step' \in {"idle", "bar", "rate", "standing", "settle"},
           read' \in Readings
    PROVE  TypeOK'
  BY DEF TypeOK, tables, market

\* SettleState leaves every order a typed row.
LEMMA SettleStateType ==
    ASSUME TypeOK, NEW i \in Intents, NEW state \in Settled, SettleState(i, state)
    PROVE  order' \in [Intents -> OrderRows]
  <1>1. order[i] \in OrderRows /\ order \in [Intents -> OrderRows]
    BY DEF TypeOK
  <1>2. [order[i] EXCEPT !.state = state] \in OrderRows
    BY <1>1 DEF OrderRows
  <1>3. order' = order \/ order' = [order EXCEPT ![i] = [order[i] EXCEPT !.state = state]]
    BY <1>1 DEF SettleState
  <1>. QED
    BY <1>1, <1>2, <1>3

LEMMA TypeInit == Init => TypeOK
  <1> SUFFICES ASSUME Init PROVE TypeOK
    OBVIOUS
  <1>1. NoAccount \in AccountRows /\ NoOrder \in OrderRows /\ NoFill \in FillRows /\ NoBar \in BarRows
    BY PaperAssumption
    DEF NoAccount, NoOrder, NoFill, NoBar, AccountRows, OrderRows, FillRows, BarRows
  <1>. QED
    BY <1>1, PaperAssumption, NoReadType DEF Init, TypeOK, Days

LEMMA TypeStep ==
    TypeOK /\ SnapshotHolds /\ OrdersComeFromActedIntents /\ [Next]_vars => TypeOK'
  <1> SUFFICES ASSUME TypeOK, SnapshotHolds, OrdersComeFromActedIntents, [Next]_vars
               PROVE  TypeOK'
    OBVIOUS
  <1>1. ASSUME NEW u \in Users, NEW amount \in StartingCash, NEW c \in Currencies,
               Open(u, amount, c)
        PROVE  TypeOK'
    <2>1. amount \in Int /\ [currency |-> c, starting |-> amount] \in AccountRows
      BY PaperAssumption DEF AccountRows
    <2>2. account' \in [Users -> AccountRows] /\ cash' \in [Users -> Int]
      BY <1>1, <2>1 DEF Open, TypeOK
    <2>. QED
      BY <1>1, <2>2 DEF Open, TypeOK, market, pass
  <1>2. ASSUME NEW i \in Intents, Record(i) PROVE TypeOK'
    BY <1>2 DEF Record, TypeOK, market, pass
  <1>3. ASSUME NEW i \in Intents, Cancel(i) PROVE TypeOK'
    <2>1. order' \in [Intents -> OrderRows]
      <3>1. SettleState(i, "cancelled")
        BY <1>3 DEF Cancel, SettleState
      <3>. QED
        BY <3>1, SettleStateType DEF Settled
    <2>. QED
      BY <1>3, <2>1 DEF Cancel, TypeOK, market, pass
  <1>4. ASSUME NEW slot \in Slots, NEW i \in Intents, BeginPromote(slot, i) PROVE TypeOK'
    <2>1. [slot |-> slot, op |-> "promote", intent |-> i, session |-> today] \in Requests
      BY DEF TypeOK, Requests
    <2>. QED
      BY <1>4, <2>1 DEF BeginPromote, TypeOK, tables, market, pass
  <1>5. ASSUME NEW slot \in Slots, NEW i \in Intents,
               NEW status \in {"withdrawn", "acted_on"}, BeginSettle(slot, i, status)
        PROVE  TypeOK'
    <2>1. [slot |-> slot, op |-> status, intent |-> i, session |-> today] \in Requests
      BY DEF TypeOK, Requests
    <2>. QED
      BY <1>5, <2>1 DEF BeginSettle, TypeOK, tables, market, pass
  <1>6. ASSUME NEW r \in requests, CommitPromote(r) PROVE TypeOK'
    <2> DEFINE i == r.intent
               row == [state |-> "pending", placed |-> r.session, at |-> OrdersPlaced,
                       newest |-> NewestStored(Wrote[i].instrument)]
    <2>1. i \in Intents /\ r.session \in Days
      BY DEF TypeOK, Requests
    <2>2. NewestStored(Wrote[i].instrument) \in 0..MaxDay
      BY <2>1, NewestStoredType, WroteType
    <2>3. row \in OrderRows
      BY <2>1, <2>2, CountsAreNatural, PaperAssumption DEF OrderRows, Days
    <2>4. order' = order \/ order' = [order EXCEPT ![i] = row]
      BY <1>6 DEF CommitPromote
    <2>5. intent' = intent \/ intent' = [intent EXCEPT ![i] = "acted_on"]
      BY <1>6 DEF CommitPromote
    <2>. HIDE DEF row, i
    <2>6. order' \in [Intents -> OrderRows]
      BY <2>1, <2>3, <2>4 DEF TypeOK
    <2>7. intent' \in [Intents -> {"none", "considering", "withdrawn", "acted_on"}]
      BY <2>1, <2>5 DEF TypeOK
    <2>. QED
      BY <1>6, <2>6, <2>7 DEF CommitPromote, Finish, TypeOK, market, pass
  <1>7. ASSUME NEW r \in requests, CommitSettle(r) PROVE TypeOK'
    <2>1. r.intent \in Intents /\ r.op \in {"promote", "withdrawn", "acted_on"}
      BY DEF TypeOK, Requests
    <2>2. r.op \in {"withdrawn", "acted_on"}
      BY <1>7, <2>1 DEF CommitSettle
    <2>3. intent' = intent \/ intent' = [intent EXCEPT ![r.intent] = r.op]
      BY <1>7 DEF CommitSettle
    <2>4. intent' \in [Intents -> {"none", "considering", "withdrawn", "acted_on"}]
      BY <2>1, <2>2, <2>3 DEF TypeOK
    <2>. QED
      BY <1>7, <2>4 DEF CommitSettle, Finish, TypeOK, market, pass
  <1>8. ASSUME NEW k \in Instruments, NEW s \in Days, NEW open \in Opens,
               NEW primary \in BOOLEAN, ObserveBar(k, s, open, primary)
        PROVE  TypeOK'
    <2>1. bars[k][s].observed \in Nat
      BY DEF TypeOK, BarRows
    <2>2. [open |-> open, primary |-> primary, observed |-> bars[k][s].observed + 1] \in BarRows
      BY <2>1 DEF BarRows
    <2>3. bars' \in [Instruments -> [Days -> BarRows]]
      BY <1>8, <2>2 DEF ObserveBar, TypeOK
    <2>. QED
      BY <1>8, <2>3 DEF ObserveBar, TypeOK, tables, pass
  <1>9. ASSUME NEW c \in Currencies, NEW s \in Days, NEW rate \in RateValues,
               StoreRate(c, s, rate)
        PROVE  TypeOK'
    BY <1>9 DEF StoreRate, TypeOK, tables, pass
  <1>10. ASSUME Tick PROVE TypeOK'
    BY <1>10, PaperAssumption DEF Tick, TypeOK, Days, tables, market, pass
  <1>11. ASSUME StartPass PROVE TypeOK'
    <2>1. queue' \in [1..Cardinality(Pending) -> Intents]
      BY <1>11 DEF StartPass, Pending
    <2>2. queue' \in Seq(Intents)
      BY <2>1, CountsAreNatural
    <2>. QED
      BY <1>11, <2>2, NoReadType, PassType DEF StartPass
  <1>12. ASSUME ReadBar PROVE TypeOK'
    <2> DEFINE i == Head(queue)
               k == Wrote[i].instrument
               s == NextOpen(k, order[i].placed)
    <2>1. step # "idle" /\ i \in Intents
      BY <1>12, HeadOfQueue DEF ReadBar
    <2>2. k \in Instruments /\ order[i].placed \in 0..MaxDay
      BY <2>1, WroteType DEF TypeOK, OrderRows
    <2>3. s \in 0..MaxDay /\ (s # 0 => s \in Days)
      BY <2>2, NextOpenType
    <2>. HIDE DEF s, k
    <2>4. CASE step' = "settle" /\ read' = [NoRead EXCEPT !.verdict = "no_price"] /\ UNCHANGED queue
      <3>1. read' \in Readings
        BY <2>4, NoReadType DEF Readings, Outcomes, Reasons
      <3>. QED
        BY <1>12, <2>4, <3>1, PassType DEF ReadBar, TypeOK
    <2>5. CASE NextOrder
      BY <1>12, <2>1, <2>5, NextOrderType, PassType DEF ReadBar
    <2>6. CASE /\ s # 0
               /\ step' = "rate"
               /\ read' = [NoRead EXCEPT !.session = s, !.open = bars[k][s].open,
                                         !.observed = bars[k][s].observed]
               /\ UNCHANGED queue
      <3>1. bars[k][s] \in BarRows
        BY <2>2, <2>3, <2>6 DEF TypeOK
      <3>2. bars[k][s].open \in Nat /\ bars[k][s].observed \in Nat
        <4>1. Opens \cup {0} \subseteq Nat
          BY PaperAssumption
        <4>. QED
          BY <3>1, <4>1 DEF BarRows
      <3>3. read' \in Readings
        BY <2>3, <2>6, <3>2, NoReadType DEF Readings
      <3>. QED
        BY <1>12, <2>6, <3>3, PassType DEF ReadBar, TypeOK
    <2>. QED
      BY <1>12, <2>4, <2>5, <2>6 DEF ReadBar, s, k
  <1>13. ASSUME ReadRate PROVE TypeOK'
    <2> DEFINE w          == Wrote[Head(queue)]
               accounting == account[w.user].currency
               listing    == Listing[w.instrument]
               from       == RateOf(listing, read.session)
               to         == RateOf(accounting, read.session)
               converted  == listing # accounting
               effect     == Price(CostModel, w.direction, w.quantity, read.open,
                                   IF converted THEN Div(from, to) ELSE Scale, converted).cashEffect
    <2>0. step = "rate"
      BY <1>13 DEF ReadRate
    <2>1. CASE NextOrder
      BY <1>13, <2>0, <2>1, NextOrderType, PassType DEF ReadRate
    <2>2. CASE /\ converted => from # 0 /\ to # 0
               /\ step' = "standing"
               /\ read' = [read EXCEPT !.effect = effect]
               /\ UNCHANGED queue
      <3>1. Head(queue) \in Intents
        BY <2>0, HeadOfQueue
      <3>2. w \in Contents /\ listing \in Currencies
        BY <3>1, WroteType
      <3>3. accounting \in Currencies
        <4>1. account[w.user] # NoAccount
          BY <2>0, <3>1, HeadOfQueue DEF SnapshotHolds, OrdersComeFromActedIntents
        <4>2. account[w.user] \in AccountRows
          BY <3>1, WroteType DEF TypeOK
        <4>. QED
          BY <4>1, <4>2 DEF AccountRows
      <3>4. read.session \in 0..MaxDay /\ read.open \in Nat
        BY DEF TypeOK, Readings
      <3>5. effect \in Int
        BY <2>2, <3>2, <3>3, <3>4, EffectType, RateOfType
      <3>6. read' \in Readings
        BY <2>2, <3>5 DEF TypeOK, Readings
      <3>. QED
        BY <1>13, <2>2, <3>6, PassType DEF ReadRate, TypeOK
    <2>. QED
      BY <1>13, <2>1, <2>2 DEF ReadRate
  <1>14. ASSUME ReadStanding PROVE TypeOK'
    <2> DEFINE w == Wrote[Head(queue)]
               v == Verdict(w, cash[w.user], held[w.user][w.instrument], read.effect)
    <2>1. step = "standing" /\ Head(queue) \in Intents
      BY <1>14, HeadOfQueue DEF ReadStanding
    <2>2. cash[w.user] \in Int /\ held[w.user][w.instrument] \in Int
      BY <2>1, WroteType DEF TypeOK
    <2>3. v \in Outcomes
      BY DEF Verdict, Outcomes, Reasons
    <2>4. read' = [read EXCEPT !.cash = cash[w.user], !.position = held[w.user][w.instrument],
                               !.verdict = v]
      BY <1>14 DEF ReadStanding
    <2>. HIDE DEF v, w
    <2>5. read' \in Readings
      BY <2>2, <2>3, <2>4 DEF TypeOK, Readings
    <2>. QED
      BY <1>14, <2>5, PassType DEF ReadStanding, TypeOK
  <1>15. ASSUME RecordFill PROVE TypeOK'
    <2> DEFINE i == Head(queue)
               w == Wrote[i]
               row == [session |-> read.session, open |-> read.open, effect |-> read.effect,
                       observed |-> read.observed, at |-> FillsRecorded]
    <2>1. step = "settle" /\ NextOrder /\ i \in Intents
      BY <1>15, HeadOfQueue DEF RecordFill
    <2>2. queue' \in Seq(Intents) /\ step' \in {"idle", "bar"} /\ read' \in Readings
      BY <2>1, NextOrderType
    <2>3. CASE UNCHANGED <<fill, cash, held, order, told>>
      BY <1>15, <2>2, <2>3 DEF RecordFill, TypeOK, market
    <2>4. CASE /\ fill' = [fill EXCEPT ![i] = row]
               /\ cash' = [cash EXCEPT ![w.user] = @ + read.effect]
               /\ held' = [held EXCEPT ![w.user][w.instrument] =
                              IF w.direction = "buy" THEN @ + w.quantity ELSE @ - w.quantity]
               /\ SettleState(i, "filled")
               /\ told' = [told EXCEPT ![i] = @ \cup {"filled"}]
      <3>1. row \in FillRows
        BY CountsAreNatural DEF TypeOK, Readings, FillRows
      <3>2. fill' \in [Intents -> FillRows]
        BY <2>4, <3>1 DEF TypeOK
      <3>3. w.user \in Users /\ w.instrument \in Instruments /\ w.quantity \in Int /\ read.effect \in Int
        BY <2>1, WroteType DEF TypeOK, Readings
      <3>4. cash' \in [Users -> Int]
        BY <2>4, <3>3 DEF TypeOK
      <3>5. held' \in [Users -> [Instruments -> Int]]
        BY <2>4, <3>3 DEF TypeOK
      <3>6. order' \in [Intents -> OrderRows]
        BY <2>1, <2>4, SettleStateType DEF Settled
      <3>7. told' \in [Intents -> SUBSET Outcomes]
        BY <2>4 DEF TypeOK, Outcomes
      <3>. QED
        BY <1>15, <2>2, <3>2, <3>4, <3>5, <3>6, <3>7 DEF RecordFill, TypeOK, market
    <2>. QED
      BY <1>15, <2>3, <2>4 DEF RecordFill
  <1>16. ASSUME MarkUnfillable PROVE TypeOK'
    <2>1. step = "settle" /\ NextOrder /\ Head(queue) \in Intents
      BY <1>16, HeadOfQueue DEF MarkUnfillable
    <2>2. queue' \in Seq(Intents) /\ step' \in {"idle", "bar"} /\ read' \in Readings
      BY <2>1, NextOrderType
    <2>3. order' \in [Intents -> OrderRows]
      BY <1>16, <2>1, SettleStateType DEF MarkUnfillable, Settled
    <2>4. read.verdict \in Outcomes
      BY DEF TypeOK, Readings
    <2>5. told' \in [Intents -> SUBSET Outcomes]
      BY <1>16, <2>4 DEF MarkUnfillable, TypeOK
    <2>. QED
      BY <1>16, <2>2, <2>3, <2>5 DEF MarkUnfillable, TypeOK, market
  <1>17. ASSUME Restart PROVE TypeOK'
    BY <1>17, NoReadType, PaperAssumption DEF Restart, TypeOK, tables, market
  <1>18. CASE UNCHANGED vars
    BY <1>18 DEF TypeOK, vars
  <1>. QED
    BY <1>1, <1>2, <1>3, <1>4, <1>5, <1>6, <1>7, <1>8, <1>9, <1>10, <1>11, <1>12,
       <1>13, <1>14, <1>15, <1>16, <1>17, <1>18
    DEF Next, Person, Market, FillStep

-----------------------------------------------------------------------------
(***************************************************************************)
(* The invariant is inductive.                                             *)
(***************************************************************************)

\* Settling an order changes the state of that order alone, and only from pending.
LEMMA SettleStateEffect ==
    ASSUME TypeOK, NEW i \in Intents, NEW state, SettleState(i, state)
    PROVE  /\ \A j \in Intents : j # i => order'[j] = order[j]
           /\ order'[i].placed = order[i].placed /\ order'[i].newest = order[i].newest
           /\ order'[i].state = IF order[i].state = "pending" THEN state ELSE order[i].state
  <1>1. order[i] \in OrderRows /\ order \in [Intents -> OrderRows]
    BY DEF TypeOK
  <1>2. CASE order[i].state = "pending"
    <2>1. order' = [order EXCEPT ![i] = [order[i] EXCEPT !.state = state]]
      BY <1>1, <1>2 DEF SettleState
    <2>2. order'[i] = [order[i] EXCEPT !.state = state]
      BY <1>1, <2>1
    <2>3. \A j \in Intents : j # i => order'[j] = order[j]
      BY <1>1, <2>1
    <2>. QED
      BY <1>1, <1>2, <2>2, <2>3 DEF OrderRows
  <1>3. CASE order[i].state # "pending"
    BY <1>3 DEF SettleState
  <1>. QED
    BY <1>2, <1>3

LEMMA CommitPromoteEffect ==
    ASSUME TypeOK, NothingFromTheFuture, NEW r \in requests, CommitPromote(r)
    PROVE  \/ order' = order /\ intent' = intent
           \/ /\ r.intent \in Intents /\ r.op = "promote"
              /\ order[r.intent].state = "none"
              /\ order'[r.intent].state = "pending"
              /\ order'[r.intent].newest <= order'[r.intent].placed
              /\ \A j \in Intents : j # r.intent => order'[j] = order[j]
              /\ intent' = [intent EXCEPT ![r.intent] = "acted_on"]
  <1> DEFINE i == r.intent
             row == [state |-> "pending", placed |-> r.session, at |-> OrdersPlaced,
                     newest |-> NewestStored(Wrote[i].instrument)]
  <1>1. i \in Intents /\ r.session = today
    BY DEF TypeOK, Requests, NothingFromTheFuture
  <1>2. NewestStored(Wrote[i].instrument) <= today
    <2> DEFINE k == Wrote[i].instrument
               s == NewestStored(k)
    <2>1. k \in Instruments
      BY <1>1, WroteType
    <2>2. s \in 0..MaxDay /\ (s = 0 \/ bars[k][s].open # 0)
      BY <2>1, NewestStoredType
    <2>3. today \in Nat
      BY PaperAssumption DEF TypeOK, Days
    <2>. HIDE DEF s, k
    <2>4. CASE s = 0
      BY <2>3, <2>4 DEF s, k
    <2>5. CASE s # 0
      <3>1. s \in Days
        BY <2>2, <2>5, PaperAssumption DEF Days
      <3>2. s <= today
        BY <2>1, <2>2, <2>5, <3>1 DEF NothingFromTheFuture
      <3>. QED
        BY <3>2 DEF s, k
    <2>. QED
      BY <2>4, <2>5
  <1>3. CASE order[i].state = "none" /\ intent[i] = "considering"
    <2>1. order' = [order EXCEPT ![i] = row] /\ intent' = [intent EXCEPT ![i] = "acted_on"]
      BY <1>3 DEF CommitPromote
    <2>2. order'[i] = row /\ \A j \in Intents : j # i => order'[j] = order[j]
      BY <1>1, <2>1 DEF TypeOK
    <2>3. row.state = "pending" /\ row.newest <= row.placed
      BY <1>1, <1>2
    <2>. QED
      BY <1>1, <1>3, <2>1, <2>2, <2>3 DEF CommitPromote
  <1>4. CASE ~(order[i].state = "none" /\ intent[i] = "considering")
    BY <1>4 DEF CommitPromote
  <1>. QED
    BY <1>3, <1>4

\* While its queue stays, the snapshot survives what others do to the orders.
LEMMA SnapshotFrame ==
    ASSUME TypeOK, SnapshotHolds, queue' = queue, step' = step \/ (step # "idle"),
           \A i \in Intents : order[i].state \in {"pending", "cancelled"} =>
                              order'[i].state \in {"pending", "cancelled"}
    PROVE  SnapshotHolds'
  <1>1. \A n \in DOMAIN queue : queue[n] \in Intents
    BY DEF TypeOK
  <1>. QED
    BY <1>1 DEF SnapshotHolds

\* Going on to the next order keeps the snapshot, and drops the figures read.
LEMMA NextOrderHolds ==
    ASSUME TypeOK, SnapshotHolds, step # "idle", NextOrder,
           \A i \in Intents : i # Head(queue) => order'[i] = order[i]
    PROVE  SnapshotHolds' /\ StandingHolds'
  <1>1. /\ Head(queue) = queue[1] /\ 1 \in DOMAIN queue
        /\ \A n \in DOMAIN Tail(queue) :
              n + 1 \in DOMAIN queue /\ n + 1 # 1 /\ Tail(queue)[n] = queue[n + 1]
        /\ Len(queue) > 1 => Tail(queue) # <<>>
    BY HeadOfQueue
  <1>2. queue' = Tail(queue)
    BY DEF NextOrder
  <1>3. \A n \in DOMAIN queue : queue[n] \in Intents
    BY DEF TypeOK
  <1>4. step' # "idle" => queue' # <<>>
    BY <1>1, <1>2 DEF NextOrder
  <1>5. ASSUME NEW m \in DOMAIN Tail(queue), NEW n \in DOMAIN Tail(queue), m # n
        PROVE  Tail(queue)[m] # Tail(queue)[n]
    <2>1. m \in Int /\ n \in Int
      BY HeadOfQueue
    <2>2. m + 1 # n + 1
      BY <1>5, <2>1
    <2>. QED
      BY <1>1, <2>2 DEF SnapshotHolds
  <1>6. ASSUME NEW n \in DOMAIN Tail(queue)
        PROVE  order'[Tail(queue)[n]].state \in {"pending", "cancelled"}
    <2>1. queue[n + 1] # Head(queue) /\ queue[n + 1] \in Intents
      BY <1>1, <1>3 DEF SnapshotHolds
    <2>2. order'[queue[n + 1]] = order[queue[n + 1]]
      BY <2>1
    <2>. QED
      BY <1>1, <2>2 DEF SnapshotHolds
  <1>7. SnapshotHolds'
    BY <1>2, <1>4, <1>5, <1>6 DEF SnapshotHolds
  <1>8. StandingHolds'
    BY DEF NextOrder, StandingHolds
  <1>. QED
    BY <1>7, <1>8

LEMMA InvInit == Init => IInv
  <1> SUFFICES ASSUME Init PROVE IInv
    OBVIOUS
  <1>1. TypeOK
    BY TypeInit
  <1>2. SnapshotHolds /\ PromotersHaveAccounts /\ StandingHolds
    BY DEF Init, SnapshotHolds, PromotersHaveAccounts, StandingHolds
  <1>3. NothingFromTheFuture
    BY DEF Init, NothingFromTheFuture, NoBar, NoOrder
  <1>4. OrdersComeFromActedIntents /\ FilledOrdersHaveFills /\ NoLookahead
    BY DEF Init, OrdersComeFromActedIntents, FilledOrdersHaveFills, NoLookahead, NoOrder, NoFill
  <1>5. NeverShort
    BY DEF Init, NeverShort
  <1>6. UndecidedAreUntold /\ OutcomesAreToldOnce
    BY DEF Init, UndecidedAreUntold, OutcomesAreToldOnce, NoOrder, NoFill
  <1>. QED
    BY <1>1, <1>2, <1>3, <1>4, <1>5, <1>6 DEF IInv

\* The owner of the order at the head of the snapshot has an account.
LEMMA HeadHasAccount ==
    ASSUME TypeOK, SnapshotHolds, OrdersComeFromActedIntents, step # "idle"
    PROVE  account[Wrote[Head(queue)].user] # NoAccount
  BY HeadOfQueue DEF SnapshotHolds, OrdersComeFromActedIntents

\* Deciding or passing over the head of the snapshot tells nobody of the others.
LEMMA UntoldFrame ==
    ASSUME TypeOK, SnapshotHolds, UndecidedAreUntold, step # "idle",
           (queue' = queue /\ told' = told /\ order' = order) \/ queue' = Tail(queue),
           \A i \in Intents : i # Head(queue) => told'[i] = told[i] /\ order'[i] = order[i],
           \/ told'[Head(queue)] = told[Head(queue)] /\ order'[Head(queue)] = order[Head(queue)]
           \/ order'[Head(queue)].state \notin {"none", "pending"}
    PROVE  UndecidedAreUntold'
  <1>1. \A i \in Intents : order'[i].state \in {"none", "pending"} => told'[i] = {}
    BY HeadOfQueue DEF UndecidedAreUntold
  <1>2. \A n \in DOMAIN queue' : told'[queue'[n]] = {}
    <2>1. CASE queue' = queue /\ told' = told
      BY <2>1 DEF UndecidedAreUntold
    <2>2. CASE queue' = Tail(queue)
      <3>1. TAKE n \in DOMAIN queue'
      <3>2. queue'[n] = queue[n + 1] /\ n + 1 \in DOMAIN queue /\ queue[n + 1] # Head(queue)
        BY <2>2, HeadOfQueue DEF SnapshotHolds
      <3>3. queue[n + 1] \in Intents
        BY <3>2 DEF TypeOK
      <3>. QED
        BY <3>2, <3>3 DEF UndecidedAreUntold
    <2>. QED
      BY <2>1, <2>2
  <1>. QED
    BY <1>1, <1>2 DEF UndecidedAreUntold

LEMMA InvStep == IInv /\ [Next]_vars => IInv'
  <1> SUFFICES ASSUME IInv, [Next]_vars PROVE IInv'
    OBVIOUS
  <1> USE DEF IInv
  <1>0. TypeOK'
    BY TypeStep
  <1>1. ASSUME NEW u \in Users, NEW amount \in StartingCash, NEW c \in Currencies,
               Open(u, amount, c)
        PROVE  IInv'
    <2>1. \A v \in Users : account[v] # NoAccount =>
              v # u /\ account'[v] = account[v] /\ cash'[v] = cash[v]
      BY <1>1 DEF Open, TypeOK
    <2>2. account'[u] # NoAccount
      BY <1>1, PaperAssumption DEF Open, TypeOK, NoAccount
    <2>3. PromotersHaveAccounts'
      BY <1>1, <2>1, <2>2, WroteType DEF Open, PromotersHaveAccounts, TypeOK, Requests
    <2>4. OrdersComeFromActedIntents'
      BY <1>1, <2>1, WroteType DEF Open, OrdersComeFromActedIntents
    <2>5. StandingHolds'
      <3>1. CASE step = "settle"
        <4>1. cash'[Wrote[Head(queue)].user] = cash[Wrote[Head(queue)].user]
          BY <2>1, <3>1, HeadHasAccount, HeadOfQueue, WroteType
        <4>. QED
          BY <1>1, <4>1 DEF Open, StandingHolds, pass
      <3>2. CASE step # "settle"
        BY <1>1, <3>2 DEF Open, StandingHolds, pass
      <3>. QED
        BY <3>1, <3>2
    <2>. QED
      BY <1>0, <1>1, <2>3, <2>4, <2>5
      DEF Open, SnapshotHolds, NothingFromTheFuture, FilledOrdersHaveFills, NeverShort,
          UndecidedAreUntold, OutcomesAreToldOnce, NoLookahead, market, pass
  <1>2. ASSUME NEW i \in Intents, Record(i) PROVE IInv'
    <2>1. OrdersComeFromActedIntents'
      BY <1>2 DEF Record, OrdersComeFromActedIntents, TypeOK
    <2>. QED
      BY <1>0, <1>2, <2>1
      DEF Record, SnapshotHolds, PromotersHaveAccounts, StandingHolds, NothingFromTheFuture,
          FilledOrdersHaveFills, NeverShort, UndecidedAreUntold, OutcomesAreToldOnce, NoLookahead, market, pass
  <1>3. ASSUME NEW i \in Intents, Cancel(i) PROVE IInv'
    <2>1. SettleState(i, "cancelled") /\ order[i].state = "pending"
      BY <1>3 DEF Cancel, SettleState
    <2>2. /\ \A j \in Intents : j # i => order'[j] = order[j]
          /\ order'[i].placed = order[i].placed /\ order'[i].newest = order[i].newest
          /\ order'[i].state = "cancelled"
      BY <2>1, SettleStateEffect
    <2>3. \A j \in Intents :
              /\ order'[j].placed = order[j].placed /\ order'[j].newest = order[j].newest
              /\ order'[j].state \in {order[j].state, "cancelled"}
      BY <2>2
    <2>4. SnapshotHolds'
      BY <1>3, <2>3, SnapshotFrame DEF Cancel, pass
    <2>5. NothingFromTheFuture'
      BY <1>3, <2>3 DEF Cancel, NothingFromTheFuture, market
    <2>6. OrdersComeFromActedIntents'
      BY <1>3, <2>1, <2>2 DEF Cancel, OrdersComeFromActedIntents
    <2>7. FilledOrdersHaveFills'
      BY <1>3, <2>1, <2>2 DEF Cancel, FilledOrdersHaveFills
    <2>8. NoLookahead'
      BY <1>3, <2>3 DEF Cancel, NoLookahead
    <2>9. UndecidedAreUntold'
      BY <1>3, <2>3 DEF Cancel, UndecidedAreUntold, pass
    <2>10. OutcomesAreToldOnce'
      BY <1>3, <2>1, <2>2 DEF Cancel, OutcomesAreToldOnce
    <2>. QED
      BY <1>0, <1>3, <2>4, <2>5, <2>6, <2>7, <2>8, <2>9, <2>10
      DEF Cancel, PromotersHaveAccounts, StandingHolds, NeverShort, pass
  <1>4. ASSUME NEW slot \in Slots, NEW i \in Intents, BeginPromote(slot, i) PROVE IInv'
    <2>1. PromotersHaveAccounts' /\ NothingFromTheFuture'
      BY <1>4 DEF BeginPromote, PromotersHaveAccounts, NothingFromTheFuture, tables, market
    <2>. QED
      BY <1>0, <1>4, <2>1
      DEF BeginPromote, SnapshotHolds, StandingHolds, OrdersComeFromActedIntents,
          FilledOrdersHaveFills, NeverShort, UndecidedAreUntold, OutcomesAreToldOnce, NoLookahead, tables, pass
  <1>5. ASSUME NEW slot \in Slots, NEW i \in Intents,
               NEW status \in {"withdrawn", "acted_on"}, BeginSettle(slot, i, status)
        PROVE  IInv'
    <2>1. PromotersHaveAccounts' /\ NothingFromTheFuture'
      BY <1>5 DEF BeginSettle, PromotersHaveAccounts, NothingFromTheFuture, tables, market
    <2>. QED
      BY <1>0, <1>5, <2>1
      DEF BeginSettle, SnapshotHolds, StandingHolds, OrdersComeFromActedIntents,
          FilledOrdersHaveFills, NeverShort, UndecidedAreUntold, OutcomesAreToldOnce, NoLookahead, tables, pass
  <1>6. ASSUME NEW r \in requests, CommitPromote(r) PROVE IInv'
    <2>1. requests' \subseteq requests
      BY <1>6 DEF CommitPromote, Finish
    <2>2. PromotersHaveAccounts'
      BY <1>6, <2>1 DEF CommitPromote, PromotersHaveAccounts
    <2>3. CASE order' = order /\ intent' = intent
      BY <1>0, <1>6, <2>1, <2>2, <2>3
      DEF CommitPromote, SnapshotHolds, StandingHolds, OrdersComeFromActedIntents,
          NothingFromTheFuture, FilledOrdersHaveFills, NeverShort, NoLookahead,
          UndecidedAreUntold, OutcomesAreToldOnce, market, pass
    <2>4. CASE /\ r.intent \in Intents /\ r.op = "promote"
               /\ order[r.intent].state = "none"
               /\ order'[r.intent].state = "pending"
               /\ order'[r.intent].newest <= order'[r.intent].placed
               /\ \A j \in Intents : j # r.intent => order'[j] = order[j]
               /\ intent' = [intent EXCEPT ![r.intent] = "acted_on"]
      <3>1. SnapshotHolds'
        BY <1>6, <2>4, SnapshotFrame DEF CommitPromote, pass
      <3>2. NothingFromTheFuture'
        BY <1>6, <2>1, <2>4 DEF CommitPromote, NothingFromTheFuture, market
      <3>3. OrdersComeFromActedIntents'
        BY <1>6, <2>4 DEF CommitPromote, OrdersComeFromActedIntents, PromotersHaveAccounts, TypeOK
      <3>4. fill[r.intent].session = 0
        BY <2>4 DEF FilledOrdersHaveFills
      <3>5. FilledOrdersHaveFills' /\ NoLookahead'
        BY <1>6, <2>4, <3>4 DEF CommitPromote, FilledOrdersHaveFills, NoLookahead
      <3>6. UndecidedAreUntold'
        BY <1>6, <2>4 DEF CommitPromote, UndecidedAreUntold, pass
      <3>7. OutcomesAreToldOnce'
        BY <1>6, <2>4 DEF CommitPromote, OutcomesAreToldOnce
      <3>. QED
        BY <1>0, <1>6, <2>2, <3>1, <3>2, <3>3, <3>5, <3>6, <3>7
        DEF CommitPromote, StandingHolds, NeverShort, pass
    <2>. QED
      BY <1>6, <2>3, <2>4, CommitPromoteEffect
  <1>7. ASSUME NEW r \in requests, CommitSettle(r) PROVE IInv'
    <2>1. requests' \subseteq requests
      BY <1>7 DEF CommitSettle, Finish
    <2>2. OrdersComeFromActedIntents'
      BY <1>7 DEF CommitSettle, OrdersComeFromActedIntents, TypeOK
    <2>. QED
      BY <1>0, <1>7, <2>1, <2>2
      DEF CommitSettle, SnapshotHolds, PromotersHaveAccounts, StandingHolds, NothingFromTheFuture,
          FilledOrdersHaveFills, NeverShort, UndecidedAreUntold, OutcomesAreToldOnce, NoLookahead, market, pass
  <1>8. ASSUME NEW k \in Instruments, NEW s \in Days, NEW open \in Opens,
               NEW primary \in BOOLEAN, ObserveBar(k, s, open, primary)
        PROVE  IInv'
    <2>1. s <= today /\ \A l \in Instruments, t \in Days :
              bars'[l][t] = bars[l][t] \/ (l = k /\ t = s)
      BY <1>8 DEF ObserveBar, TypeOK
    <2>2. NothingFromTheFuture'
      BY <1>8, <2>1 DEF ObserveBar, NothingFromTheFuture, tables
    <2>. QED
      BY <1>0, <1>8, <2>2
      DEF ObserveBar, SnapshotHolds, PromotersHaveAccounts, StandingHolds,
          OrdersComeFromActedIntents, FilledOrdersHaveFills, NeverShort, UndecidedAreUntold, OutcomesAreToldOnce, NoLookahead, tables, pass
  <1>9. ASSUME NEW c \in Currencies, NEW s \in Days, NEW rate \in RateValues,
               StoreRate(c, s, rate)
        PROVE  IInv'
    BY <1>0, <1>9
    DEF StoreRate, SnapshotHolds, PromotersHaveAccounts, StandingHolds, NothingFromTheFuture,
        OrdersComeFromActedIntents, FilledOrdersHaveFills, NeverShort, UndecidedAreUntold, OutcomesAreToldOnce, NoLookahead, tables, pass
  <1>10. ASSUME Tick PROVE IInv'
    <2>1. NothingFromTheFuture'
      BY <1>10 DEF Tick, NothingFromTheFuture, TypeOK, Days, tables, market
    <2>. QED
      BY <1>0, <1>10, <2>1
      DEF Tick, SnapshotHolds, PromotersHaveAccounts, StandingHolds,
          OrdersComeFromActedIntents, FilledOrdersHaveFills, NeverShort, UndecidedAreUntold, OutcomesAreToldOnce, NoLookahead, tables, pass
  <1>11. ASSUME StartPass PROVE IInv'
    <2> DEFINE n == Cardinality(Pending)
    <2>1. n \in Nat /\ n # 0
      <3>1. IsFiniteSet(Pending)
        BY PaperAssumption, FS_Subset DEF Pending
      <3>. QED
        BY <1>11, <3>1, CountsAreNatural, FS_EmptySet DEF StartPass
    <2>2. queue' \in [1..n -> Pending] /\ DOMAIN queue' = 1..n
      BY <1>11 DEF StartPass
    <2>3. queue' # <<>>
      BY <2>1, <2>2
    <2>4. ASSUME NEW a \in 1..n, NEW b \in 1..n, a # b PROVE queue'[a] # queue'[b]
      <3>1. \A x, y \in 1..n : x < y => Before(queue'[x], queue'[y])
        BY <1>11, <2>2 DEF StartPass, PendingOrders
      <3>2. \A i \in Intents : ~Before(i, i)
        BY DEF Before, TypeOK, OrderRows
      <3>3. queue'[a] \in Intents /\ queue'[b] \in Intents
        BY <2>2 DEF Pending
      <3>4. a < b \/ b < a
        BY <2>4
      <3>. QED
        BY <3>1, <3>2, <3>3, <3>4
    <2>5. SnapshotHolds'
      BY <1>11, <2>2, <2>3, <2>4 DEF StartPass, SnapshotHolds, Pending, tables
    <2>6. StandingHolds'
      BY <1>11 DEF StartPass, StandingHolds
    <2>7. UndecidedAreUntold'
      BY <1>11, <2>2 DEF StartPass, UndecidedAreUntold, Pending, tables
    <2>. QED
      BY <1>0, <1>11, <2>5, <2>6, <2>7
      DEF StartPass, PromotersHaveAccounts, NothingFromTheFuture,
          OrdersComeFromActedIntents, FilledOrdersHaveFills, NeverShort, NoLookahead,
          OutcomesAreToldOnce, tables, market
  <1>12. ASSUME ReadBar PROVE IInv'
    <2>1. step = "bar" /\ UNCHANGED <<today, tables, market, requests, restarts>>
      BY <1>12 DEF ReadBar
    <2>2. SnapshotHolds' /\ StandingHolds'
      <3>1. CASE NextOrder
        BY <2>1, <3>1, NextOrderHolds DEF tables
      <3>2. CASE UNCHANGED queue /\ step' = "settle" /\ read'.verdict = "no_price"
        BY <2>1, <3>2, SnapshotFrame DEF StandingHolds, tables
      <3>3. CASE UNCHANGED queue /\ step' = "rate"
        BY <2>1, <3>3, SnapshotFrame DEF StandingHolds, tables
      <3>. QED
        BY <1>12, <3>1, <3>2, <3>3 DEF ReadBar, NoRead
    <2>3. UndecidedAreUntold'
      BY <1>12, <2>1, UntoldFrame, HeadOfQueue DEF ReadBar, NextOrder, tables
    <2>. QED
      BY <1>0, <2>1, <2>2, <2>3
      DEF PromotersHaveAccounts, NothingFromTheFuture, OrdersComeFromActedIntents,
          FilledOrdersHaveFills, NeverShort, OutcomesAreToldOnce, NoLookahead, tables, market
  <1>13. ASSUME ReadRate PROVE IInv'
    <2>1. step = "rate" /\ UNCHANGED <<today, tables, market, requests, restarts>>
      BY <1>13 DEF ReadRate
    <2>2. SnapshotHolds' /\ StandingHolds'
      <3>1. CASE NextOrder
        BY <2>1, <3>1, NextOrderHolds DEF tables
      <3>2. CASE UNCHANGED queue /\ step' = "standing"
        BY <2>1, <3>2, SnapshotFrame DEF StandingHolds, tables
      <3>. QED
        BY <1>13, <3>1, <3>2 DEF ReadRate
    <2>3. UndecidedAreUntold'
      BY <1>13, <2>1, UntoldFrame, HeadOfQueue DEF ReadRate, NextOrder, tables
    <2>. QED
      BY <1>0, <2>1, <2>2, <2>3
      DEF PromotersHaveAccounts, NothingFromTheFuture, OrdersComeFromActedIntents,
          FilledOrdersHaveFills, NeverShort, OutcomesAreToldOnce, NoLookahead, tables, market
  <1>14. ASSUME ReadStanding PROVE IInv'
    <2> DEFINE w == Wrote[Head(queue)]
               v == Verdict(w, cash[w.user], held[w.user][w.instrument], read.effect)
    <2>1. /\ step = "standing" /\ step' = "settle" /\ queue' = queue
          /\ UNCHANGED <<today, tables, market, requests, restarts>>
      BY <1>14 DEF ReadStanding
    <2>2. SnapshotHolds'
      BY <2>1, SnapshotFrame DEF tables
    <2>3. read'.verdict = v /\ read'.effect = read.effect
      BY <1>14 DEF ReadStanding, TypeOK, Readings
    <2>4. Head(queue) \in Intents
      BY <2>1, HeadOfQueue
    <2>5. cash[w.user] \in Int /\ held[w.user][w.instrument] \in Int /\ read.effect \in Int
      BY <2>4, WroteType DEF TypeOK, Readings
    <2>6. w.direction \in {"buy", "sell"} /\ w.quantity \in Int
      BY <2>4, WroteType
    <2>7. v = "filled" => /\ w.direction = "buy" => cash[w.user] + read.effect >= 0
                          /\ w.direction = "sell" => held[w.user][w.instrument] >= w.quantity
      BY <2>5, <2>6 DEF Verdict
    <2>8. StandingHolds'
      BY <2>1, <2>3, <2>7 DEF StandingHolds, tables
    <2>9. UndecidedAreUntold'
      BY <2>1 DEF UndecidedAreUntold, tables
    <2>. QED
      BY <1>0, <2>1, <2>2, <2>8, <2>9
      DEF PromotersHaveAccounts, NothingFromTheFuture, OrdersComeFromActedIntents,
          FilledOrdersHaveFills, NeverShort, OutcomesAreToldOnce, NoLookahead, tables, market
  <1>15. ASSUME RecordFill PROVE IInv'
    <2> DEFINE i == Head(queue)
               w == Wrote[i]
    <2>1. /\ step = "settle" /\ read.verdict = "filled" /\ NextOrder
          /\ UNCHANGED <<today, account, intent, market, requests, restarts>>
      BY <1>15 DEF RecordFill
    <2>2. i \in Intents /\ order[i].state \in {"pending", "cancelled"}
      BY <2>1, HeadOfQueue DEF SnapshotHolds
    <2>3. CASE UNCHANGED <<fill, cash, held, order, told>>
      <3>1. SnapshotHolds' /\ StandingHolds'
        BY <2>1, <2>3, NextOrderHolds
      <3>2. UndecidedAreUntold'
        BY <2>1, <2>3, UntoldFrame DEF NextOrder
      <3>. QED
        BY <1>0, <2>1, <2>3, <3>1, <3>2
        DEF OutcomesAreToldOnce, PromotersHaveAccounts, NothingFromTheFuture, OrdersComeFromActedIntents,
            FilledOrdersHaveFills, NeverShort, NoLookahead, market
    <2>4. CASE /\ read.session > order[i].placed
               /\ fill' = [fill EXCEPT ![i] =
                              [session |-> read.session, open |-> read.open,
                               effect |-> read.effect, observed |-> read.observed,
                               at |-> FillsRecorded]]
               /\ held' = [held EXCEPT ![w.user][w.instrument] =
                              IF w.direction = "buy" THEN @ + w.quantity ELSE @ - w.quantity]
               /\ SettleState(i, "filled")
               /\ told' = [told EXCEPT ![i] = @ \cup {"filled"}]
      <3>1. /\ \A j \in Intents : j # i => order'[j] = order[j] /\ fill'[j] = fill[j]
            /\ order'[i].placed = order[i].placed /\ order'[i].newest = order[i].newest
            /\ order'[i].state \in {"filled", "cancelled"}
        BY <2>2, <2>4, SettleStateEffect DEF TypeOK
      <3>2. fill'[i].session = read.session
        BY <2>2, <2>4 DEF TypeOK
      <3>3. /\ read.session \in Int /\ order[i].placed \in Nat /\ order[i].newest \in Int
            /\ order[i].newest <= order[i].placed
        BY <2>2 DEF TypeOK, Readings, OrderRows, NothingFromTheFuture
      <3>4. SnapshotHolds' /\ StandingHolds'
        BY <2>1, <3>1, NextOrderHolds
      <3>5. NothingFromTheFuture'
        BY <2>1, <3>1 DEF NothingFromTheFuture, market
      <3>6. OrdersComeFromActedIntents'
        BY <2>1, <2>2, <3>1 DEF OrdersComeFromActedIntents
      <3>7. FilledOrdersHaveFills'
        BY <2>4, <3>1, <3>2, <3>3 DEF FilledOrdersHaveFills
      <3>8. NoLookahead'
        BY <2>4, <3>1, <3>2, <3>3 DEF NoLookahead
      <3>9. NeverShort'
        <4>1. /\ w.user \in Users /\ w.instrument \in Instruments
              /\ w.quantity \in Nat /\ w.direction \in {"buy", "sell"}
          BY <2>2, WroteType
        <4>2. w.direction = "sell" => held[w.user][w.instrument] >= w.quantity
          BY <2>1 DEF StandingHolds
        <4>3. held[w.user][w.instrument] \in Int /\ held[w.user][w.instrument] >= 0
          BY <4>1 DEF TypeOK, NeverShort
        <4>4. held'[w.user][w.instrument] =
                  IF w.direction = "buy" THEN held[w.user][w.instrument] + w.quantity
                  ELSE held[w.user][w.instrument] - w.quantity
          BY <2>4, <4>1 DEF TypeOK
        <4>5. held'[w.user][w.instrument] >= 0
          BY <4>1, <4>2, <4>3, <4>4
        <4>6. \A u \in Users, k \in Instruments :
                  u # w.user \/ k # w.instrument => held'[u][k] = held[u][k]
          BY <2>4, <4>1 DEF TypeOK
        <4>. QED
          BY <4>5, <4>6 DEF NeverShort
      <3>10. told[i] = {}
        BY <2>1, HeadOfQueue DEF UndecidedAreUntold
      <3>11. told'[i] = {"filled"} /\ \A j \in Intents : j # i => told'[j] = told[j]
        BY <2>2, <2>4, <3>10 DEF TypeOK
      <3>12. UndecidedAreUntold'
        BY <2>1, <2>2, <3>1, <3>11, UntoldFrame DEF NextOrder
      <3>13. OutcomesAreToldOnce'
        <4>1. fill'[i].session # 0 /\ "filled" \notin Reasons
          BY <2>4, <3>2, <3>3 DEF Reasons
        <4>. QED
          BY <2>2, <3>1, <3>11, <4>1 DEF OutcomesAreToldOnce
      <3>. QED
        BY <1>0, <2>1, <3>4, <3>5, <3>6, <3>7, <3>8, <3>9, <3>12, <3>13 DEF PromotersHaveAccounts
    <2>. QED
      BY <1>15, <2>3, <2>4 DEF RecordFill
  <1>16. ASSUME MarkUnfillable PROVE IInv'
    <2> DEFINE i == Head(queue)
    <2>1. /\ step = "settle" /\ NextOrder /\ SettleState(i, "unfillable")
          /\ UNCHANGED <<today, account, intent, fill, cash, held, market, requests, restarts>>
      BY <1>16 DEF MarkUnfillable
    <2>2. i \in Intents /\ order[i].state \in {"pending", "cancelled"}
      BY <2>1, HeadOfQueue DEF SnapshotHolds
    <2>3. /\ \A j \in Intents : j # i => order'[j] = order[j]
          /\ order'[i].placed = order[i].placed /\ order'[i].newest = order[i].newest
          /\ order'[i].state = IF order[i].state = "pending" THEN "unfillable" ELSE order[i].state
      BY <2>1, <2>2, SettleStateEffect
    <2>4. SnapshotHolds' /\ StandingHolds'
      BY <2>1, <2>3, NextOrderHolds
    <2>5. NothingFromTheFuture'
      BY <2>1, <2>3 DEF NothingFromTheFuture, market
    <2>6. OrdersComeFromActedIntents'
      BY <2>1, <2>2, <2>3 DEF OrdersComeFromActedIntents
    <2>7. FilledOrdersHaveFills'
      BY <2>1, <2>2, <2>3 DEF FilledOrdersHaveFills
    <2>8. NoLookahead'
      BY <2>1, <2>3 DEF NoLookahead
    <2>9. told[i] = {} /\ told' = [told EXCEPT ![i] = @ \cup {read.verdict}]
      BY <1>16, <2>1, HeadOfQueue DEF MarkUnfillable, UndecidedAreUntold
    <2>10. told'[i] = {read.verdict} /\ \A j \in Intents : j # i => told'[j] = told[j]
      BY <2>2, <2>9 DEF TypeOK
    <2>11. UndecidedAreUntold'
      BY <2>1, <2>2, <2>3, <2>10, UntoldFrame DEF NextOrder
    <2>12. OutcomesAreToldOnce'
      <3>1. read.verdict \in Reasons
        BY <1>16 DEF MarkUnfillable, TypeOK, Readings, Outcomes
      <3>2. fill[i].session = 0
        BY <2>2, <2>9 DEF OutcomesAreToldOnce
      <3>3. "filled" \notin Reasons
        BY DEF Reasons
      <3>. QED
        BY <2>1, <2>2, <2>3, <2>10, <3>1, <3>2, <3>3 DEF OutcomesAreToldOnce
    <2>. QED
      BY <1>0, <2>1, <2>4, <2>5, <2>6, <2>7, <2>8, <2>11, <2>12 DEF PromotersHaveAccounts, NeverShort
  <1>17. ASSUME Restart PROVE IInv'
    <2>1. SnapshotHolds' /\ StandingHolds' /\ PromotersHaveAccounts'
      BY <1>17 DEF Restart, SnapshotHolds, StandingHolds, PromotersHaveAccounts
    <2>2. NothingFromTheFuture'
      BY <1>17 DEF Restart, NothingFromTheFuture, tables, market
    <2>3. UndecidedAreUntold'
      BY <1>17 DEF Restart, UndecidedAreUntold, tables
    <2>. QED
      BY <1>0, <1>17, <2>1, <2>2, <2>3
      DEF Restart, OutcomesAreToldOnce, OrdersComeFromActedIntents, FilledOrdersHaveFills, NeverShort, NoLookahead, tables
  <1>18. CASE UNCHANGED vars
    BY <1>18
    DEF vars, TypeOK, SnapshotHolds, PromotersHaveAccounts, StandingHolds, NothingFromTheFuture,
        OrdersComeFromActedIntents, FilledOrdersHaveFills, NeverShort, UndecidedAreUntold, OutcomesAreToldOnce, NoLookahead
  <1>. QED
    BY <1>1, <1>2, <1>3, <1>4, <1>5, <1>6, <1>7, <1>8, <1>9, <1>10, <1>11, <1>12,
       <1>13, <1>14, <1>15, <1>16, <1>17, <1>18
    DEF Next, Person, Market, FillStep

-----------------------------------------------------------------------------
(***************************************************************************)
(* The theorems.                                                           *)
(***************************************************************************)

\* The invariant holds throughout.
THEOREM Invariance == Spec => []IInv
  BY InvInit, InvStep, PTL DEF Spec

\* Every variable keeps its type: in particular every recorded cash effect and
\* every figure a pass has read is a number, whatever rates are missing.
THEOREM TypeCorrect == Spec => []TypeOK
  <1>1. IInv => TypeOK
    BY DEF IInv
  <1>. QED
    BY <1>1, Invariance, PTL

\* recordFill never takes a position below zero, for any interleaving of the
\* pass with cancellations, corrections, promotions and restarts.
THEOREM NoShortPositions == Spec => []NeverShort
  <1>1. IInv => NeverShort
    BY DEF IInv
  <1>. QED
    BY <1>1, Invariance, PTL

\* Repository.Promote never leaves an order beside an intent settled otherwise.
THEOREM OrdersBelongToActedIntents == Spec => []OrdersComeFromActedIntents
  <1>1. IInv => OrdersComeFromActedIntents
    BY DEF IInv
  <1>. QED
    BY <1>1, Invariance, PTL

\* recordFill and markUnfillable leave the order's state and its fill in agreement.
THEOREM StatesAgreeWithFills == Spec => []FilledOrdersHaveFills
  <1>1. IInv => FilledOrdersHaveFills
    BY DEF IInv
  <1>. QED
    BY <1>1, Invariance, PTL

\* recordFill and markUnfillable announce each outcome once, for any number of
\* passes and restarts.
THEOREM PeopleAreToldOnce == Spec => []OutcomesAreToldOnce
  <1>1. IInv => OutcomesAreToldOnce
    BY DEF IInv
  <1>. QED
    BY <1>1, Invariance, PTL

\* No fill is priced by a bar that was stored when its order was placed.
THEOREM FillsLookOnlyForward == Spec => []NoLookahead
  <1>1. IInv => NoLookahead
    BY DEF IInv
  <1>. QED
    BY <1>1, Invariance, PTL

\* recordFill takes a buy only out of cash that covers it at that moment.
THEOREM BuysStayCovered == Spec => BuysAreCovered
  <1> DEFINE Covered ==
        \A i \in Intents :
            fill[i].session = 0 /\ fill'[i].session # 0 /\ Wrote[i].direction = "buy"
            => cash'[Wrote[i].user] >= 0
  <1>1. IInv /\ [Next]_vars => Covered
    <2> SUFFICES ASSUME IInv, [Next]_vars, NEW i \in Intents,
                        fill[i].session = 0, fill'[i].session # 0, Wrote[i].direction = "buy"
                 PROVE  cash'[Wrote[i].user] >= 0
      OBVIOUS
    <2>1. TypeOK /\ SnapshotHolds /\ StandingHolds
      BY DEF IInv
    <2>2. fill' # fill
      OBVIOUS
    <2>3. RecordFill
      BY <2>2
      DEF Next, Person, Market, FillStep, Open, Record, Cancel, BeginPromote, BeginSettle,
          CommitPromote, CommitSettle, ObserveBar, StoreRate, Tick, StartPass, ReadBar, ReadRate,
          ReadStanding, MarkUnfillable, Restart, vars, tables
    <2>4. step = "settle" /\ read.verdict = "filled"
      BY <2>3 DEF RecordFill
    <2>5. /\ fill' = [fill EXCEPT ![Head(queue)] =
                         [session |-> read.session, open |-> read.open, effect |-> read.effect,
                          observed |-> read.observed, at |-> FillsRecorded]]
          /\ cash' = [cash EXCEPT ![Wrote[Head(queue)].user] = @ + read.effect]
      BY <2>2, <2>3 DEF RecordFill
    <2>6. i = Head(queue)
      BY <2>1, <2>5 DEF TypeOK
    <2>7. cash'[Wrote[i].user] = cash[Wrote[i].user] + read.effect
      BY <2>1, <2>5, <2>6, WroteType DEF TypeOK
    <2>. QED
      BY <2>1, <2>4, <2>6, <2>7 DEF StandingHolds
  <1>. QED
    BY <1>1, Invariance, PTL DEF Spec, BuysAreCovered

\* No action of the system changes a settled order's state or a recorded fill.
THEOREM TrackRecordIsPermanent == Spec => HistoryIsPermanent
  <1> DEFINE Kept ==
        \A i \in Intents :
            /\ order[i].state \in Settled => order'[i].state = order[i].state
            /\ fill[i].session # 0 => fill'[i] = fill[i]
  <1>1. IInv /\ [Next]_vars => Kept
    <2> SUFFICES ASSUME IInv, [Next]_vars PROVE Kept
      OBVIOUS
    <2>1. TypeOK /\ SnapshotHolds /\ NothingFromTheFuture /\ "pending" \notin Settled /\ "none" \notin Settled
      BY DEF IInv, Settled
    <2>2. ASSUME NEW i \in Intents, Cancel(i) PROVE Kept
      <3>1. SettleState(i, "cancelled") /\ fill' = fill
        BY <2>2 DEF Cancel, SettleState
      <3>. QED
        BY <2>1, <3>1, SettleStateEffect
    <2>3. ASSUME NEW r \in requests, CommitPromote(r) PROVE Kept
      <3>1. fill' = fill
        BY <2>3 DEF CommitPromote
      <3>. QED
        BY <2>1, <2>3, <3>1, CommitPromoteEffect
    <2>4. ASSUME RecordFill PROVE Kept
      <3>1. step = "settle"
        BY <2>4 DEF RecordFill
      <3>2. Head(queue) \in Intents
        BY <2>1, <3>1, HeadOfQueue
      <3>3. CASE UNCHANGED <<fill, order>>
        BY <3>3
      <3>4. CASE /\ fill[Head(queue)].session = 0
                 /\ fill' = [fill EXCEPT ![Head(queue)] =
                         [session |-> read.session, open |-> read.open, effect |-> read.effect,
                          observed |-> read.observed, at |-> FillsRecorded]]
                 /\ SettleState(Head(queue), "filled")
        <4>1. \A j \in Intents : j # Head(queue) => fill'[j] = fill[j]
          BY <2>1, <3>4 DEF TypeOK
        <4>. QED
          BY <2>1, <3>2, <3>4, <4>1, SettleStateEffect
      <3>. QED
        BY <2>4, <3>3, <3>4 DEF RecordFill
    <2>5. ASSUME MarkUnfillable PROVE Kept
      <3>1. step = "settle" /\ SettleState(Head(queue), "unfillable") /\ fill' = fill
        BY <2>5 DEF MarkUnfillable
      <3>2. Head(queue) \in Intents
        BY <2>1, <3>1, HeadOfQueue
      <3>. QED
        BY <2>1, <3>1, <3>2, SettleStateEffect
    <2>6. CASE UNCHANGED <<order, fill>>
      BY <2>6
    <2>. QED
      BY <2>2, <2>3, <2>4, <2>5, <2>6
      DEF Next, Person, Market, FillStep, Open, Record, BeginPromote, BeginSettle,
          CommitSettle, ObserveBar, StoreRate, Tick, StartPass, ReadBar, ReadRate,
          ReadStanding, Restart, vars, tables
  <1>. QED
    BY <1>1, Invariance, PTL DEF Spec, HistoryIsPermanent

-----------------------------------------------------------------------------
(***************************************************************************)
(* A fill and the bar it was priced by.                                    *)
(***************************************************************************)

\* The bar an open price was read from is still a primary one, and says so if it was
\* changed since.
RestsOn(k, session, open, observed) ==
    LET bar == bars[k][session]
    IN  bar.primary /\ observed <= bar.observed /\ (bar.open # open => observed < bar.observed)

ReadsRestOnBars ==
    step \in {"rate", "standing", "settle"} /\ read.session # 0 =>
        RestsOn(Wrote[Head(queue)].instrument, read.session, read.open, read.observed)

FillsRestOnBars ==
    \A i \in Intents : fill[i].session # 0 =>
        RestsOn(Wrote[i].instrument, fill[i].session, fill[i].open, fill[i].observed)

\* Only ObserveBar changes a bar: it observes it later, and keeps a primary one primary.
LEMMA RestsOnFrame ==
    ASSUME TypeOK, NEW k \in Instruments, NEW session \in 0..MaxDay, session # 0, NEW open, NEW observed \in Nat,
           RestsOn(k, session, open, observed),
           \/ UNCHANGED bars
           \/ \E j \in Instruments, s \in Days, price \in Opens, primary \in BOOLEAN : ObserveBar(j, s, price, primary)
    PROVE  RestsOn(k, session, open, observed)'
  <1>1. session \in Days /\ bars \in [Instruments -> [Days -> BarRows]]
    BY PaperAssumption DEF TypeOK, Days
  <1>2. CASE UNCHANGED bars
    BY <1>2 DEF RestsOn
  <1>3. ASSUME NEW j \in Instruments, NEW s \in Days, NEW price \in Opens, NEW primary \in BOOLEAN,
               ObserveBar(j, s, price, primary)
        PROVE  RestsOn(k, session, open, observed)'
    <2>1. /\ bars[j][s].primary => primary
          /\ bars' = [bars EXCEPT ![j][s] = [open |-> price, primary |-> primary, observed |-> bars[j][s].observed + 1]]
      BY <1>3 DEF ObserveBar
    <2>2. CASE j = k /\ s = session
      <3>1. bars'[k][session] = [open |-> price, primary |-> primary, observed |-> bars[k][session].observed + 1]
        BY <1>1, <2>1, <2>2
      <3>2. bars[k][session].observed \in Nat
        BY <1>1 DEF BarRows
      <3>3. bars'[k][session].primary
        BY <2>1, <2>2, <3>1 DEF RestsOn
      <3>4. observed < bars'[k][session].observed
        BY <3>1, <3>2 DEF RestsOn
      <3>. QED
        BY <3>3, <3>4, <3>2, <3>1 DEF RestsOn
    <2>3. CASE ~(j = k /\ s = session)
      <3>1. bars'[k][session] = bars[k][session]
        BY <1>1, <2>1, <2>3
      <3>. QED
        BY <3>1 DEF RestsOn
    <2>. QED
      BY <2>2, <2>3
  <1>. QED
    BY <1>2, <1>3

LEMMA RestingStep == IInv /\ ReadsRestOnBars /\ FillsRestOnBars /\ [Next]_vars => (ReadsRestOnBars /\ FillsRestOnBars)'
  <1> SUFFICES ASSUME IInv, ReadsRestOnBars, FillsRestOnBars, [Next]_vars PROVE (ReadsRestOnBars /\ FillsRestOnBars)'
    OBVIOUS
  <1>0. TypeOK /\ SnapshotHolds
    BY DEF IInv
  <1> DEFINE Moves == \/ UNCHANGED bars
                      \/ \E j \in Instruments, s \in Days, price \in Opens, primary \in BOOLEAN :
                            ObserveBar(j, s, price, primary)
  <1>1. Moves /\ (UNCHANGED bars \/ UNCHANGED <<fill, step, queue, read>>)
    BY DEF Next, Person, Market, FillStep, Open, Record, Cancel, BeginPromote, BeginSettle, CommitPromote, CommitSettle,
           ObserveBar, StoreRate, Tick, StartPass, ReadBar, ReadRate, ReadStanding, RecordFill, MarkUnfillable, Restart,
           vars, tables, market, pass
  <1>2. ASSUME NEW i \in Intents, fill[i].session # 0
        PROVE  RestsOn(Wrote[i].instrument, fill[i].session, fill[i].open, fill[i].observed)
            /\ Wrote[i].instrument \in Instruments /\ fill[i] \in FillRows
    BY <1>0, <1>2, WroteType DEF TypeOK, FillsRestOnBars
  <1>3. UNCHANGED fill => FillsRestOnBars'
    <2>1. ASSUME UNCHANGED fill, NEW i \in Intents, fill[i].session # 0
          PROVE  RestsOn(Wrote[i].instrument, fill[i].session, fill[i].open, fill[i].observed)'
      <3> DEFINE row == fill[i]
                 k == Wrote[i].instrument
      <3>1. row.session \in 0..MaxDay /\ row.session # 0 /\ row.observed \in Nat /\ k \in Instruments
        BY <1>2, <2>1 DEF FillRows
      <3>2. ASSUME NEW session, NEW open, NEW observed,
                   row.session = session, row.open = open, row.observed = observed
            PROVE  RestsOn(k, session, open, observed)'
        <4>. HIDE DEF k
        <4>. QED
          BY <1>0, <1>1, <1>2, <2>1, <3>1, <3>2, RestsOnFrame DEF k
      <3>. QED
        BY <2>1, <3>2 DEF RestsOn
    <2>. QED
      BY <2>1 DEF FillsRestOnBars
  <1>4. ASSUME UNCHANGED queue, read'.session = read.session, read'.open = read.open, read'.observed = read.observed,
               step \in {"rate", "standing", "settle"}
        PROVE  ReadsRestOnBars'
    <2>1. Head(queue) \in Intents
      BY <1>0, <1>4, HeadOfQueue
    <2>2. Wrote[Head(queue)].instrument \in Instruments
      BY <2>1, WroteType
    <2>3. read.session \in 0..MaxDay /\ read.observed \in Nat
      BY <1>0 DEF TypeOK, Readings
    <2>4. ASSUME NEW k, NEW session, NEW open, NEW observed, k = Wrote[Head(queue)].instrument,
                 session = read.session, open = read.open, observed = read.observed, session # 0
          PROVE  RestsOn(k, session, open, observed)'
      <3>1. RestsOn(k, session, open, observed)
        BY <1>4, <2>4 DEF ReadsRestOnBars
      <3>. QED
        BY <1>0, <1>1, <2>2, <2>3, <2>4, <3>1, RestsOnFrame
    <2>5. ASSUME read'.session # 0
          PROVE  RestsOn(Wrote[Head(queue)].instrument, read.session, read.open, read.observed)'
      BY <1>4, <2>4, <2>5 DEF RestsOn
    <2>. QED
      BY <1>4, <2>5 DEF ReadsRestOnBars
  <1>5. read' = NoRead => ReadsRestOnBars'
    BY DEF ReadsRestOnBars, NoRead
  <1>6. CASE ReadBar
    <2>1. UNCHANGED <<fill, bars>> /\ step = "bar"
      BY <1>6 DEF ReadBar, tables, market
    <2> DEFINE i == Head(queue)
               k == Wrote[i].instrument
               s == NextOpen(k, order[i].placed)
    <2>2. \/ read' = NoRead
          \/ read'.session = 0
          \/ /\ s # 0 /\ bars[k][s].primary /\ UNCHANGED queue
             /\ read' = [NoRead EXCEPT !.session = s, !.open = bars[k][s].open, !.observed = bars[k][s].observed]
      BY <1>6 DEF ReadBar, NextOrder, NoRead
    <2>3. CASE s # 0 /\ bars[k][s].primary /\ UNCHANGED queue
               /\ read' = [NoRead EXCEPT !.session = s, !.open = bars[k][s].open, !.observed = bars[k][s].observed]
      <3>1. i \in Intents /\ k \in Instruments
        BY <1>0, <2>1, HeadOfQueue, WroteType
      <3>2. order[i].placed \in 0..MaxDay
        BY <1>0, <3>1 DEF TypeOK, OrderRows
      <3>. HIDE DEF i
      <3>3. s \in Days
        BY <1>0, <2>3, <3>1, <3>2, NextOpenType
      <3>4. bars[k][s].observed \in Nat
        BY <1>0, <3>1, <3>3 DEF TypeOK, BarRows
      <3>5. read'.session = s /\ read'.open = bars[k][s].open /\ read'.observed = bars[k][s].observed
        BY <2>3 DEF NoRead
      <3>. HIDE DEF s
      <3>6. RestsOn(k, s, bars[k][s].open, bars[k][s].observed)
        BY <2>3, <3>4 DEF RestsOn
      <3>7. RestsOn(Wrote[Head(queue)].instrument, read.session, read.open, read.observed)'
        BY <2>1, <2>3, <3>5, <3>6 DEF RestsOn, i
      <3>. QED
        BY <1>3, <2>1, <3>7 DEF ReadsRestOnBars
    <2>4. CASE read'.session = 0
      BY <1>3, <2>1, <2>4 DEF ReadsRestOnBars
    <2>. QED
      BY <1>3, <1>5, <2>1, <2>2, <2>3, <2>4
  <1>7. CASE ReadRate
    <2>1. UNCHANGED fill /\ step = "rate"
      BY <1>7 DEF ReadRate, tables
    <2>2. \/ read' = NoRead
          \/ /\ UNCHANGED queue
             /\ \E effect : read' = [read EXCEPT !.effect = effect]
      BY <1>7, Zenon DEF ReadRate, NextOrder
    <2>3. ASSUME NEW effect, UNCHANGED queue, read' = [read EXCEPT !.effect = effect] PROVE ReadsRestOnBars'
      BY <1>0, <1>4, <2>1, <2>3 DEF TypeOK, Readings
    <2>. QED
      BY <1>3, <1>5, <2>1, <2>2, <2>3
  <1>8. CASE ReadStanding
    <2>1. UNCHANGED <<fill, queue>> /\ step = "standing"
      BY <1>8 DEF ReadStanding, tables
    <2>2. read'.session = read.session /\ read'.open = read.open /\ read'.observed = read.observed
      BY <1>0, <1>8 DEF ReadStanding, TypeOK, Readings
    <2>. QED
      BY <1>3, <1>4, <2>1, <2>2
  <1>9. CASE RecordFill
    <2> DEFINE i   == Head(queue)
               row == [session |-> read.session, open |-> read.open, effect |-> read.effect,
                       observed |-> read.observed, at |-> FillsRecorded]
    <2>1. step = "settle" /\ read' = NoRead /\ UNCHANGED bars
      BY <1>9 DEF RecordFill, NextOrder, market
    <2>2. UNCHANGED fill \/ (read.session > order[i].placed /\ fill' = [fill EXCEPT ![i] = row])
      BY <1>9 DEF RecordFill
    <2>3. CASE read.session > order[i].placed /\ fill' = [fill EXCEPT ![i] = row]
      <3>1. i \in Intents /\ fill \in [Intents -> FillRows]
        BY <1>0, <2>1, HeadOfQueue DEF TypeOK
      <3>2. order[i].placed \in 0..MaxDay /\ read.session \in 0..MaxDay
        BY <1>0, <3>1 DEF TypeOK, OrderRows, Readings
      <3>3. read.session # 0
        BY <2>3, <3>2, PaperAssumption
      <3>4. RestsOn(Wrote[i].instrument, row.session, row.open, row.observed)
        BY <2>1, <3>3 DEF ReadsRestOnBars
      <3>. HIDE DEF row, i
      <3>5. ASSUME NEW j \in Intents, fill'[j].session # 0
            PROVE  RestsOn(Wrote[j].instrument, fill[j].session, fill[j].open, fill[j].observed)'
        <4>1. CASE j = i
          BY <2>1, <2>3, <3>1, <3>4, <4>1 DEF RestsOn
        <4>2. CASE j # i
          <5>1. fill'[j] = fill[j]
            BY <2>3, <3>1, <4>2
          <5>. QED
            BY <1>2, <2>1, <3>5, <5>1 DEF RestsOn
        <4>. QED
          BY <4>1, <4>2
      <3>. QED
        BY <1>5, <2>1, <3>5 DEF FillsRestOnBars
    <2>. QED
      BY <1>3, <1>5, <2>1, <2>2, <2>3
  <1>10. CASE StartPass \/ MarkUnfillable \/ Restart
    BY <1>3, <1>5, <1>10 DEF StartPass, MarkUnfillable, Restart, NextOrder, tables
  <1>11. CASE UNCHANGED <<fill, queue, step, read>>
    <2>1. ReadsRestOnBars'
      <3>1. CASE step \in {"rate", "standing", "settle"}
        BY <1>4, <1>11, <3>1
      <3>2. CASE step \notin {"rate", "standing", "settle"}
        BY <1>11, <3>2 DEF ReadsRestOnBars
      <3>. QED
        BY <3>1, <3>2
    <2>. QED
      BY <1>3, <1>11, <2>1
  <1>. QED
    BY <1>6, <1>7, <1>8, <1>9, <1>10, <1>11
    DEF Next, Person, Market, FillStep, Open, Record, Cancel, BeginPromote, BeginSettle, CommitPromote, CommitSettle,
        ObserveBar, StoreRate, Tick, vars, tables, pass

\* A fill rests on a primary bar for good, and a bar whose price was changed after the
\* pass read it is reported as diverged (fillOne, Repository.Orders).
THEOREM FillsKeepTheirBars == Spec => []FillsMatchTheirBars
  <1>1. Init => ReadsRestOnBars /\ FillsRestOnBars
    BY DEF Init, ReadsRestOnBars, FillsRestOnBars, NoFill
  <1>2. FillsRestOnBars => FillsMatchTheirBars
    BY DEF FillsRestOnBars, FillsMatchTheirBars, RestsOn, BarDiverged
  <1>. QED
    BY <1>1, <1>2, Invariance, RestingStep, PTL DEF Spec

-----------------------------------------------------------------------------
(***************************************************************************)
(* The account a person is shown.  First, induction over the subsets of a  *)
(* finite set and over sequences, and folds over them: a fold over a set T *)
(* takes a member of each subset with next and a step with it, which are   *)
(* functions here.                                                         *)
(***************************************************************************)
LEMMA SmallestSize ==
    ASSUME NEW S \in SUBSET Nat, S # {}
    PROVE  \E s \in S : \A t \in S : s <= t
  <1> DEFINE R == OpToRel(<, Nat)
  <1>1. IsWellFoundedOn(R, Nat)
    BY NatLessThanWellFounded
  <1>2. \A y, x \in Nat : y < x => <<y, x>> \in R
    BY DEF OpToRel
  <1>. HIDE DEF R
  <1>3. PICK s \in S : \A t \in S : ~(<<t, s>> \in R)
    BY <1>1, WFMin
  <1>4. ASSUME NEW t \in S PROVE s <= t
    <2>1. ~(t < s)
      BY <1>2, <1>3, Zenon
    <2>. QED
      BY <2>1
  <1>. QED
    BY <1>4

\* Induction over the subsets of a finite set.
LEMMA SubsetInduction ==
    ASSUME NEW T, IsFiniteSet(T), NEW P,
           \A s \in SUBSET T : (\A u \in SUBSET s : u # s => u \in P) => s \in P
    PROVE  \A s \in SUBSET T : s \in P
  <1> SUFFICES ASSUME NEW b \in SUBSET T, b \notin P PROVE FALSE
    OBVIOUS
  <1> DEFINE bad   == {s \in SUBSET T : s \notin P}
             sizes == {Cardinality(s) : s \in bad}
  <1>1. \A s \in bad : IsFiniteSet(s) /\ Cardinality(s) \in Nat
    BY FS_Subset, FS_CardinalityType
  <1>2. sizes \in SUBSET Nat /\ sizes # {}
    BY <1>1
  <1>. HIDE DEF sizes
  <1>3. PICK n \in sizes : \A m \in sizes : n <= m
    BY <1>2, SmallestSize
  <1>4. PICK s \in bad : n = Cardinality(s)
    BY <1>3 DEF sizes
  <1>5. ASSUME NEW u \in SUBSET s, u # s PROVE u \in P
    <2>1. IsFiniteSet(s) /\ Cardinality(s) \in Nat
      BY <1>1, <1>4
    <2>2. Cardinality(u) \in Nat /\ Cardinality(u) < Cardinality(s)
      BY <1>5, <2>1, FS_Subset, FS_CardinalityType
    <2>3. Cardinality(u) \notin sizes
      BY <1>3, <1>4, <2>1, <2>2
    <2>. QED
      BY <1>4, <2>3 DEF sizes
  <1>. QED
    BY <1>4, <1>5

\* A sequence is empty, or one shorter with an element more.
LEMMA AppendInduction ==
    ASSUME NEW A, NEW P, <<>> \in P,
           \A s \in Seq(A) : \A x \in A : s \in P => Append(s, x) \in P
    PROVE  \A s \in Seq(A) : s \in P
  <1> SUFFICES ASSUME NEW b \in Seq(A), b \notin P PROVE FALSE
    OBVIOUS
  <1> DEFINE bad  == {s \in Seq(A) : s \notin P}
             lens == {Len(s) : s \in bad}
  <1>1. lens \in SUBSET Nat /\ lens # {}
    <2>1. \A s \in bad : Len(s) \in Nat
      OBVIOUS
    <2>2. b \in bad
      OBVIOUS
    <2>. HIDE DEF bad
    <2>. QED
      BY <2>1, <2>2
  <1>. HIDE DEF lens
  <1>2. PICK n \in lens : \A m \in lens : n <= m
    BY <1>1, SmallestSize
  <1>3. PICK s \in bad : n = Len(s)
    BY <1>2 DEF lens
  <1>4. s \in Seq(A) /\ s \notin P /\ n \in Nat
    BY <1>3
  <1>5. n # 0
    <2>1. ASSUME n = 0 PROVE s = <<>>
      <3>1. s \in Seq(A) /\ Len(s) = 0
        BY <1>3, <1>4, <2>1
      <3>. QED
        BY <3>1
    <2>. QED
      BY <1>4, <2>1
  <1> DEFINE front == [k \in 1..(n - 1) |-> s[k]]
  <1>6. front \in Seq(A) /\ Len(front) = n - 1 /\ s[n] \in A
    BY <1>3, <1>4, <1>5
  <1>7. s = Append(front, s[n])
    BY <1>3, <1>4, <1>5, <1>6
  <1>8. front \notin P
    <2>. HIDE DEF front
    <2>. QED
      BY <1>4, <1>6, <1>7
  <1>9. n - 1 \in lens
    <2>. HIDE DEF front
    <2>. QED
      BY <1>6, <1>8 DEF lens
  <1>. QED
    BY <1>2, <1>4, <1>9

Foldable(T, A, base, move, next) ==
    /\ IsFiniteSet(T)
    /\ base \in A
    /\ move \in [T -> [A -> A]]
    /\ \A s \in SUBSET T : s # {} => next[s] \in s

FoldOf(h, T, A, base, move, next) ==
    /\ h \in [SUBSET T -> A]
    /\ \A s \in SUBSET T : h[s] = IF s = {} THEN base ELSE move[next[s]][h[s \ {next[s]}]]

\* A fold's recursion has a solution.
LEMMA FoldExists ==
    \A T, A, base, move, next :
        Foldable(T, A, base, move, next) => \E h : FoldOf(h, T, A, base, move, next)
  <1> SUFFICES ASSUME NEW T, NEW A, NEW base, NEW move, NEW next, Foldable(T, A, base, move, next)
               PROVE  \E h : FoldOf(h, T, A, base, move, next)
    OBVIOUS
  <1>0. /\ IsFiniteSet(T) /\ base \in A /\ move \in [T -> [A -> A]]
        /\ \A s \in SUBSET T : s # {} => next[s] \in s
    BY DEF Foldable
  <1>. USE <1>0
  <1> DEFINE Up(g, s) == IF s = {} THEN base ELSE move[next[s]][g[s \ {next[s]}]]
             Upto(g, n) == \A s \in SUBSET T : Cardinality(s) <= n => g[s] = Up(g, s)
             Maps == [SUBSET T -> A]
             reached == {n \in Nat : \E g \in Maps : Upto(g, n)}
  <1>1. \A s \in SUBSET T : IsFiniteSet(s) /\ Cardinality(s) \in Nat
    BY FS_Subset, FS_CardinalityType
  <1>2. \A g \in Maps, s \in SUBSET T : Up(g, s) \in A
    <2> SUFFICES ASSUME NEW g \in Maps, NEW s \in SUBSET T, s # {} PROVE Up(g, s) \in A
      OBVIOUS
    <2>1. next[s] \in T /\ s \ {next[s]} \in SUBSET T
      OBVIOUS
    <2>2. g[s \ {next[s]}] \in A /\ move[next[s]] \in [A -> A]
      BY <2>1
    <2>. QED
      BY <2>2
  <1>3. ASSUME NEW n \in Nat, NEW g \in Maps, Upto(g, n)
        PROVE  \E h \in Maps : Upto(h, n + 1)
    <2> DEFINE h == [s \in SUBSET T |-> Up(g, s)]
    <2>1. h \in Maps
      BY <1>2
    <2>2. ASSUME NEW s \in SUBSET T, Cardinality(s) <= n + 1 PROVE h[s] = Up(h, s)
      <3>1. CASE s = {}
        BY <3>1
      <3>2. CASE s # {}
        <4> DEFINE u == s \ {next[s]}
        <4>1. u \in SUBSET T /\ Cardinality(u) = Cardinality(s) - 1
          BY <1>1, <3>2, FS_RemoveElement
        <4>2. Cardinality(u) <= n
          BY <1>1, <2>2, <4>1
        <4>3. h[u] = g[u]
          BY <1>3, <4>1, <4>2
        <4>. QED
          BY <3>2, <4>3
      <3>. QED
        BY <3>1, <3>2
    <2>. QED
      BY <2>1, <2>2
  <1>4. 0 \in reached
    <2> DEFINE h == [s \in SUBSET T |-> base]
    <2>1. h \in Maps
      OBVIOUS
    <2>2. ASSUME NEW s \in SUBSET T, Cardinality(s) <= 0 PROVE h[s] = Up(h, s)
      <3>1. s = {}
        BY <1>1, <2>2, FS_EmptySet
      <3>. QED
        BY <3>1
    <2>. QED
      BY <2>1, <2>2
  <1>5. ASSUME NEW n \in Nat, n \in reached PROVE n + 1 \in reached
    <2>1. PICK g \in Maps : Upto(g, n)
      BY <1>5
    <2>2. \E h \in Maps : Upto(h, n + 1)
      <3>. HIDE DEF Maps, Upto
      <3>. QED
        BY <1>3, <2>1
    <2>3. n + 1 \in Nat
      OBVIOUS
    <2>. HIDE DEF Maps, Upto
    <2>. QED
      BY <2>2, <2>3
  <1>6. Cardinality(T) \in Nat /\ \A s \in SUBSET T : Cardinality(s) <= Cardinality(T)
    BY FS_Subset, FS_CardinalityType
  <1>8. reached = Nat
    <2>. HIDE DEF reached
    <2> SUFFICES ASSUME Nat \ reached # {} PROVE FALSE
      BY DEF reached
    <2>1. PICK n \in Nat \ reached : \A m \in Nat \ reached : n <= m
      BY SmallestSize
    <2>2. n # 0 /\ n - 1 \in Nat /\ (n - 1) + 1 = n
      BY <1>4, <2>1
    <2>3. n - 1 \in reached
      BY <2>1, <2>2
    <2>. QED
      BY <1>5, <2>1, <2>2, <2>3
  <1>7. PICK h \in Maps : Upto(h, Cardinality(T))
    BY <1>6, <1>8
  <1>9. \A s \in SUBSET T : h[s] = Up(h, s)
    BY <1>6, <1>7
  <1>. QED
    BY <1>7, <1>9 DEF FoldOf

\* A function that steps as the fold does, as far as its values are of the type.
Steps(it, T, A, base, move, next) ==
    /\ it[{}] = base
    /\ \A s \in SUBSET T : s # {} /\ it[s \ {next[s]}] \in A
           => it[s] = move[next[s]][it[s \ {next[s]}]]

\* What a fold returns is of the type its steps keep.
LEMMA FoldTyped ==
    \A T, A, base, move, next, it :
        Foldable(T, A, base, move, next) /\ Steps(it, T, A, base, move, next) => it[T] \in A
  <1> SUFFICES ASSUME NEW T, NEW A, NEW base, NEW move, NEW next, NEW it,
                      Foldable(T, A, base, move, next), Steps(it, T, A, base, move, next)
               PROVE  it[T] \in A
    OBVIOUS
  <1> DEFINE P == {s \in SUBSET T : it[s] \in A}
  <1>0. /\ IsFiniteSet(T) /\ base \in A /\ move \in [T -> [A -> A]]
        /\ \A s \in SUBSET T : s # {} => next[s] \in s
        /\ it[{}] = base
        /\ \A s \in SUBSET T : s # {} /\ it[s \ {next[s]}] \in A
               => it[s] = move[next[s]][it[s \ {next[s]}]]
    BY DEF Foldable, Steps
  <1>1. ASSUME NEW s \in SUBSET T, \A u \in SUBSET s : u # s => u \in P
        PROVE  s \in P
    <2>1. CASE s = {}
      BY <1>0, <2>1
    <2>2. CASE s # {}
      <3>1. next[s] \in T /\ s \ {next[s]} \in P
        BY <1>0, <1>1, <2>2
      <3>2. it[s] = move[next[s]][it[s \ {next[s]}]] /\ move[next[s]] \in [A -> A]
        BY <1>0, <2>2, <3>1
      <3>. QED
        BY <3>1, <3>2
    <2>. QED
      BY <2>1, <2>2
  <1>2. \A s \in SUBSET T : s \in P
    <2>. HIDE DEF P
    <2>. QED
      BY <1>0, <1>1, SubsetInduction
  <1>. QED
    BY <1>2

\* A fold over a sequence comes from the last element down.
LEMMA SequenceFoldable ==
    ASSUME NEW n \in Nat, NEW A, NEW base \in A, NEW move \in [1..n -> [A -> A]]
    PROVE  /\ \A s \in SUBSET (1..n) : s # {} => Max(s) \in s
           /\ Foldable(1..n, A, base, move, [s \in SUBSET (1..n) |-> Max(s)])
  <1>1. ASSUME NEW s \in SUBSET (1..n), s # {} PROVE Max(s) \in s
    <2> DEFINE D == {n - x : x \in s}
    <2>1. D \in SUBSET Nat /\ D # {}
      <3>1. \A x \in s : n - x \in Nat
        OBVIOUS
      <3>. QED
        BY <1>1, <3>1
    <2>2. PICK d \in D : \A e \in D : d <= e
      BY <2>1, SmallestSize
    <2>3. PICK m \in s : d = n - m
      BY <2>2
    <2>4. ASSUME NEW x \in s PROVE m >= x
      <3>1. n - x \in D /\ d <= n - x
        BY <2>2
      <3>. QED
        BY <2>3, <3>1
    <2>5. \E y \in s : \A x \in s : y >= x
      BY <2>3, <2>4
    <2>. QED
      BY <2>5 DEF Max
  <1>2. IsFiniteSet(1..n)
    BY FS_Interval
  <1>. QED
    BY <1>1, <1>2 DEF Foldable

\* A finite set of numbers has a largest.
LEMMA LargestExists ==
    ASSUME NEW S, IsFiniteSet(S), S # {}, S \in SUBSET Int
    PROVE  \E m \in S : \A x \in S : x <= m
  <1> DEFINE P == {s \in SUBSET S : s = {} \/ \E m \in s : \A x \in s : x <= m}
  <1>1. ASSUME NEW s \in SUBSET S, \A u \in SUBSET s : u # s => u \in P
        PROVE  s \in P
    <2>1. CASE s = {}
      BY <2>1
    <2>2. CASE s # {}
      <3>1. PICK y \in s : TRUE
        BY <2>2
      <3>2. s \ {y} \in P
        BY <1>1, <3>1
      <3>3. CASE s \ {y} = {}
        <4>1. \A x \in s : x <= y
          BY <3>1, <3>3
        <4>. QED
          BY <3>1, <4>1
      <3>4. CASE s \ {y} # {}
        <4>1. PICK m \in s \ {y} : \A x \in s \ {y} : x <= m
          BY <3>2, <3>4
        <4>2. CASE m <= y
          <5>1. \A x \in s : x <= y
            BY <3>1, <4>1, <4>2
          <5>. QED
            BY <3>1, <5>1
        <4>3. CASE ~(m <= y)
          <5>1. \A x \in s : x <= m
            BY <3>1, <4>1, <4>3
          <5>. QED
            BY <4>1, <5>1
        <4>. QED
          BY <4>2, <4>3
      <3>. QED
        BY <3>3, <3>4
    <2>. QED
      BY <2>1, <2>2
  <1>2. \A s \in SUBSET S : s \in P
    <2>. HIDE DEF P
    <2>. QED
      BY <1>1, SubsetInduction
  <1>. QED
    BY <1>2

\* As many values as arguments, at most.
LEMMA ImageIsFinite ==
    ASSUME NEW S, IsFiniteSet(S), NEW f
    PROVE  IsFiniteSet({f[x] : x \in S})
  <1> DEFINE T == {f[x] : x \in S}
             g == [x \in S |-> f[x]]
  <1>1. g \in Surjection(S, T)
    BY DEF Surjection
  <1>. HIDE DEF T, g
  <1>2. IsFiniteSet(T)
    BY <1>1, FS_Surjection
  <1>. QED
    BY <1>2 DEF T

Pick(s) == CHOOSE t \in s : TRUE

Summing(it, f, S) ==
    \A s \in SUBSET S : it[s] = IF s = {} THEN 0 ELSE f[Pick(s)] + it[s \ {Pick(s)}]

OnSubsets(h, S) == h = [s \in SUBSET S |-> h[s]]

Numbers(f, T) == \A t \in T : f[t] \in Int

\* A sum does not depend on what it was part of.
LEMMA SummingIsUnique ==
    \A it, jt, f, S, R :
        IsFiniteSet(R) /\ S \subseteq R /\ Summing(it, f, S) /\ Summing(jt, f, R) => it[S] = jt[S]
  <1> SUFFICES ASSUME NEW it, NEW jt, NEW f, NEW S, NEW R, IsFiniteSet(R), S \subseteq R,
                      Summing(it, f, S), Summing(jt, f, R)
               PROVE  it[S] = jt[S]
    OBVIOUS
  <1> DEFINE P == {s \in SUBSET S : it[s] = jt[s]}
  <1>0. IsFiniteSet(S)
    BY FS_Subset
  <1>1. ASSUME NEW s \in SUBSET S, \A u \in SUBSET s : u # s => u \in P
        PROVE  s \in P
    <2>1. it[s] = IF s = {} THEN 0 ELSE f[Pick(s)] + it[s \ {Pick(s)}]
      BY DEF Summing
    <2>2. jt[s] = IF s = {} THEN 0 ELSE f[Pick(s)] + jt[s \ {Pick(s)}]
      BY DEF Summing
    <2>3. s # {} => s \ {Pick(s)} \in P
      BY <1>1 DEF Pick
    <2>. QED
      BY <2>1, <2>2, <2>3
  <1>2. \A s \in SUBSET S : s \in P
    <2>. HIDE DEF P
    <2>. QED
      BY <1>0, <1>1, SubsetInduction
  <1>. QED
    BY <1>2

\* A fold that adds is such a sum.
LEMMA SummingExists ==
    \A f, T : IsFiniteSet(T) /\ Numbers(f, T) =>
        \E h : Summing(h, f, T) /\ OnSubsets(h, T)
  <1> SUFFICES ASSUME NEW f, NEW T, IsFiniteSet(T), Numbers(f, T)
               PROVE  \E h : Summing(h, f, T) /\ OnSubsets(h, T)
    OBVIOUS
  <1>0. \A t \in T : f[t] \in Int
    BY DEF Numbers
  <1> DEFINE move == [t \in T |-> [a \in Int |-> f[t] + a]]
             next == [s \in SUBSET T |-> Pick(s)]
  <1>1. 0 \in Int /\ move \in [T -> [Int -> Int]]
    BY <1>0
  <1>2. \A s \in SUBSET T : s # {} => Pick(s) \in s
    BY DEF Pick
  <1>3. Foldable(T, Int, 0, move, next)
    <2>. HIDE DEF move
    <2>. QED
      BY <1>1, <1>2 DEF Foldable
  <1>4. PICK h : FoldOf(h, T, Int, 0, move, next)
    <2>. HIDE DEF move, next
    <2>. QED
      BY <1>3, FoldExists, Zenon
  <1>5. h \in [SUBSET T -> Int]
    BY <1>4 DEF FoldOf
  <1>6. Summing(h, f, T)
    <2> SUFFICES ASSUME NEW s \in SUBSET T
                 PROVE  h[s] = IF s = {} THEN 0 ELSE f[Pick(s)] + h[s \ {Pick(s)}]
      BY DEF Summing
    <2>1. h[s] = IF s = {} THEN 0 ELSE move[next[s]][h[s \ {next[s]}]]
      BY <1>4, Zenon DEF FoldOf
    <2>2. s # {} => move[next[s]][h[s \ {next[s]}]] = f[Pick(s)] + h[s \ {Pick(s)}]
      BY <1>2, <1>5
    <2>. HIDE DEF move, next
    <2>. QED
      BY <2>1, <2>2
  <1>7. OnSubsets(h, T)
    BY <1>5 DEF OnSubsets
  <1>. QED
    BY <1>6, <1>7

\* The positions of a sequence and of the sequence with one more.
LEMMA OneMore ==
    ASSUME NEW n \in Nat
    PROVE  Max(1..(n + 1)) = n + 1 /\ (1..(n + 1)) \ {n + 1} = 1..n /\ 1..(n + 1) # {}
  <1> DEFINE S == 1..(n + 1)
  <1>1. n + 1 \in S /\ \A y \in S : n + 1 >= y
    OBVIOUS
  <1>2. Max(S) \in S /\ \A y \in S : Max(S) >= y
    <2>1. \E x \in S : \A y \in S : x >= y
      BY <1>1
    <2>. HIDE DEF S
    <2>. QED
      BY <2>1 DEF Max
  <1>3. Max(S) = n + 1
    BY <1>1, <1>2
  <1>. QED
    BY <1>3

\* The largest of some positions is one of them.
LEMMA LargestPosition ==
    ASSUME NEW n \in Nat, NEW s \in SUBSET (1..n), s # {}
    PROVE  Max(s) \in s
  <1> DEFINE move == [k \in 1..n |-> [a \in {0} |-> 0]]
  <1>1. move \in [1..n -> [{0} -> {0}]] /\ 0 \in {0}
    OBVIOUS
  <1>. HIDE DEF move
  <1>. QED
    BY <1>1, SequenceFoldable

\* g is the sum of f over each subset of T.
SumsOf(g, f, T) == \A S \in SUBSET T : \E it : Summing(it, f, S) /\ g[S] = it[S]

\* It is a number, and it does not matter which member is counted first.
SumsUpTo(g, f, T) ==
    /\ g[{}] = 0
    /\ \A s \in SUBSET T : g[s] \in Int
    /\ \A s \in SUBSET T : \A x \in s : g[s] = f[x] + g[s \ {x}]

\* A sum is a number, and it does not matter which member is counted first.
LEMMA SumsOfFacts ==
    \A g, f, T : IsFiniteSet(T) /\ SumsOf(g, f, T) /\ Numbers(f, T) => SumsUpTo(g, f, T)
  <1> SUFFICES ASSUME NEW g, NEW f, NEW T, IsFiniteSet(T), SumsOf(g, f, T), Numbers(f, T)
               PROVE  SumsUpTo(g, f, T)
    OBVIOUS
  <1>0. \A t \in T : f[t] \in Int
    BY DEF Numbers
  <1>1. PICK it : Summing(it, f, T)
    BY DEF SumsOf
  <1>2. \A s \in SUBSET T : g[s] = it[s]
    <2> SUFFICES ASSUME NEW s \in SUBSET T PROVE g[s] = it[s]
      OBVIOUS
    <2>1. PICK jt : Summing(jt, f, s) /\ g[s] = jt[s]
      BY DEF SumsOf
    <2>2. jt[s] = it[s]
      <3>1. s \subseteq T
        OBVIOUS
      <3>. QED
        BY <1>1, <2>1, <3>1, SummingIsUnique
    <2>. QED
      BY <2>1, <2>2
  <1>3. g[{}] = 0
    BY <1>1, <1>2 DEF Summing
  <1>4. \A s \in SUBSET T : s # {} => Pick(s) \in s /\ s \ {Pick(s)} \in SUBSET T
    BY DEF Pick
  <1>5. \A s \in SUBSET T : s # {} => g[s] = f[Pick(s)] + g[s \ {Pick(s)}]
    BY <1>1, <1>2, <1>4 DEF Summing
  <1> DEFINE P == {s \in SUBSET T :
                     /\ g[s] \in Int
                     /\ \A x \in s : g[s] = f[x] + g[s \ {x}]}
  <1>6. ASSUME NEW s \in SUBSET T, \A u \in SUBSET s : u # s => u \in P
        PROVE  s \in P
    <2>1. CASE s = {}
      BY <1>3, <2>1
    <2>2. CASE s # {}
      <3> DEFINE p == Pick(s)
      <3>1. p \in s /\ s \ {p} \in P /\ g[s] = f[p] + g[s \ {p}]
        BY <1>4, <1>5, <1>6, <2>2
      <3>2. f[p] \in Int /\ g[s \ {p}] \in Int /\ g[s] \in Int
        BY <1>0, <3>1
      <3>3. ASSUME NEW x \in s, x # p
            PROVE  g[s] = f[x] + g[s \ {x}]
        <4> DEFINE rest  == g[(s \ {p}) \ {x}]
                   left  == g[s \ {p}]
                   right == g[s \ {x}]
                   a     == f[p]
                   b     == f[x]
        <4>1. s \ {x} \in P /\ x \in s \ {p} /\ p \in s \ {x}
          BY <1>6, <3>1, <3>3
        <4>2. left = b + rest
          BY <3>1, <4>1
        <4>3. (s \ {p}) \ {x} = (s \ {x}) \ {p}
          OBVIOUS
        <4>4. right = a + rest
          BY <4>1, <4>3
        <4>5. (s \ {p}) \ {x} \in P
          <5>1. (s \ {p}) \ {x} \in SUBSET s /\ (s \ {p}) \ {x} # s
            BY <3>1
          <5>. QED
            BY <1>6, <5>1
        <4>6. rest \in Int /\ a \in Int /\ b \in Int /\ g[s] = a + left
          BY <1>0, <3>1, <4>5
        <4>. HIDE DEF rest, left, right, a, b, p
        <4>7. g[s] = b + right
          BY <4>2, <4>4, <4>6
        <4>. QED
          BY <4>7 DEF right, b
      <3>. HIDE DEF p
      <3>4. \A x \in s : g[s] = f[x] + g[s \ {x}]
        BY <3>1, <3>3
      <3>. QED
        BY <3>2, <3>4
    <2>. QED
      BY <2>1, <2>2
  <1>7. \A s \in SUBSET T : s \in P
    <2>. HIDE DEF P
    <2>. QED
      BY <1>6, SubsetInduction
  <1>. QED
    BY <1>3, <1>7 DEF SumsUpTo

\* The sum of f over S.
Total(f, S) == (CHOOSE it : Summing(it, f, S) /\ OnSubsets(it, S))[S]

SumFacts(f, T) ==
    /\ Total(f, {}) = 0
    /\ \A s \in SUBSET T : Total(f, s) \in Int
    /\ \A s \in SUBSET T : \A x \in s : Total(f, s) = f[x] + Total(f, s \ {x})

\* Whatever sums f is its sum.
LEMMA TotalIs ==
    ASSUME NEW f, NEW S, IsFiniteSet(S), Numbers(f, S), NEW jt, Summing(jt, f, S)
    PROVE  Total(f, S) = jt[S]
  <1> DEFINE it == CHOOSE h : Summing(h, f, S) /\ OnSubsets(h, S)
  <1>1. \E h : Summing(h, f, S) /\ OnSubsets(h, S)
    BY SummingExists
  <1>2. Summing(it, f, S)
    BY <1>1
  <1>. HIDE DEF it
  <1>3. it[S] = jt[S]
    <2>1. S \subseteq S
      OBVIOUS
    <2>. QED
      BY <1>2, <2>1, SummingIsUnique
  <1>. QED
    BY <1>3 DEF Total, it

\* A sum of numbers is one, whichever member is counted first.
LEMMA TotalFacts ==
    \A f, T : IsFiniteSet(T) /\ Numbers(f, T) => SumFacts(f, T)
  <1> SUFFICES ASSUME NEW f, NEW T, IsFiniteSet(T), Numbers(f, T) PROVE SumFacts(f, T)
    OBVIOUS
  <1> DEFINE g == [s \in SUBSET T |-> Total(f, s)]
  <1>1. ASSUME NEW S \in SUBSET T PROVE \E it : Summing(it, f, S) /\ g[S] = it[S]
    <2>1. IsFiniteSet(S) /\ Numbers(f, S)
      BY FS_Subset DEF Numbers
    <2>2. PICK it : Summing(it, f, S)
      BY <2>1, SummingExists, Zenon
    <2>3. Total(f, S) = it[S]
      BY <2>1, <2>2, TotalIs
    <2>. QED
      BY <2>2, <2>3
  <1>2. SumsOf(g, f, T)
    BY <1>1 DEF SumsOf
  <1>3. SumsUpTo(g, f, T)
    <2>. HIDE DEF g
    <2>. QED
      BY <1>2, SumsOfFacts, Zenon
  <1>. QED
    BY <1>3 DEF SumsUpTo, SumFacts

\* Values that agree on a set have one sum over it.
LEMMA TotalsAgree ==
    \A f, g, S : IsFiniteSet(S) /\ Numbers(f, S) /\ (\A x \in S : f[x] = g[x]) => Total(f, S) = Total(g, S)
  <1> SUFFICES ASSUME NEW f, NEW g, NEW S, IsFiniteSet(S), Numbers(f, S), \A x \in S : f[x] = g[x]
               PROVE  Total(f, S) = Total(g, S)
    OBVIOUS
  <1>1. Numbers(g, S)
    BY DEF Numbers
  <1>2. PICK it : Summing(it, f, S)
    BY SummingExists, Zenon
  <1>3. Summing(it, g, S)
    <2>1. \A s \in SUBSET S : s # {} => f[Pick(s)] = g[Pick(s)]
      BY DEF Pick
    <2>. QED
      BY <1>2, <2>1 DEF Summing
  <1>. QED
    BY <1>1, <1>2, <1>3, TotalIs

\* Sums over sets that have nothing in common add up.
LEMMA TotalOfUnion ==
    \A f, T, A, B : /\ IsFiniteSet(T) /\ Numbers(f, T)
                    /\ A \in SUBSET T /\ B \in SUBSET T /\ A \cap B = {}
                    => Total(f, A \cup B) = Total(f, A) + Total(f, B)
  <1> SUFFICES ASSUME NEW f, NEW T, NEW A \in SUBSET T, NEW B \in SUBSET T,
                      IsFiniteSet(T), Numbers(f, T), A \cap B = {}
               PROVE  Total(f, A \cup B) = Total(f, A) + Total(f, B)
    OBVIOUS
  <1> DEFINE P == {s \in SUBSET B : Total(f, A \cup s) = Total(f, A) + Total(f, s)}
  <1>1. SumFacts(f, T)
    BY TotalFacts
  <1>2. ASSUME NEW s \in SUBSET B, \A u \in SUBSET s : u # s => u \in P
        PROVE  s \in P
    <2>1. CASE s = {}
      <3>1. A \cup {} = A /\ Total(f, {}) = 0 /\ Total(f, A) \in Int
        BY <1>1 DEF SumFacts
      <3>2. Total(f, A \cup {}) = Total(f, A) + Total(f, {})
        BY <3>1
      <3>. QED
        BY <2>1, <3>2
    <2>2. CASE s # {}
      <3>1. PICK x \in s : TRUE
        BY <2>2
      <3>2. s \ {x} \in P
        BY <1>2, <3>1
      <3> DEFINE a == Total(f, A)
                 b == Total(f, s \ {x})
                 c == f[x]
      <3>3. /\ Total(f, A \cup s) = c + Total(f, (A \cup s) \ {x})
            /\ Total(f, s) = c + b
            /\ a \in Int /\ b \in Int
        BY <1>1 DEF SumFacts
      <3>4. (A \cup s) \ {x} = A \cup (s \ {x})
        OBVIOUS
      <3>5. Total(f, A \cup (s \ {x})) = a + b
        BY <3>2
      <3>6. c \in Int
        BY DEF Numbers
      <3>. HIDE DEF a, b, c
      <3>7. Total(f, A \cup s) = a + Total(f, s)
        BY <3>3, <3>4, <3>5, <3>6
      <3>. QED
        BY <3>7 DEF a
    <2>. QED
      BY <2>1, <2>2
  <1>3. IsFiniteSet(B)
    BY FS_Subset
  <1>4. \A s \in SUBSET B : s \in P
    <2>. HIDE DEF P
    <2>. QED
      BY <1>2, <1>3, SubsetInduction
  <1>. QED
    BY <1>4

-----------------------------------------------------------------------------
(***************************************************************************)
(* Folds over sequences.  v is what folding n elements comes to: step maps *)
(* a position to what the element there does.                              *)
(***************************************************************************)
Along(n) == [s \in SUBSET (1..n) |-> Max(s)]

FoldsTo(v, n, A, base, move) ==
    /\ n \in Nat /\ base \in A /\ move \in [1..n -> [A -> A]]
    /\ \E it : Steps(it, 1..n, A, base, move, Along(n)) /\ v = it[1..n]

Continues(longer, move, n) == \A k \in 1..n : longer[k] = move[k]

\* Such a fold is of the type its steps keep, and is the base over nothing.
LEMMA FoldsToType ==
    \A v, n, A, base, move : FoldsTo(v, n, A, base, move) => v \in A /\ (n = 0 => v = base)
  <1> SUFFICES ASSUME NEW v, NEW n, NEW A, NEW base, NEW move, FoldsTo(v, n, A, base, move)
               PROVE  v \in A /\ (n = 0 => v = base)
    OBVIOUS
  <1>0. n \in Nat /\ base \in A /\ move \in [1..n -> [A -> A]]
    BY DEF FoldsTo
  <1>. USE <1>0
  <1>1. PICK it : Steps(it, 1..n, A, base, move, Along(n)) /\ v = it[1..n]
    BY DEF FoldsTo
  <1>2. Foldable(1..n, A, base, move, Along(n))
    BY SequenceFoldable DEF Along
  <1>3. v \in A
    BY <1>1, <1>2, FoldTyped
  <1>4. n = 0 => 1..n = {}
    OBVIOUS
  <1>5. n = 0 => v = base
    BY <1>1, <1>4 DEF Steps
  <1>. QED
    BY <1>3, <1>5

\* With one element more it is one step more.
LEMMA FoldsToMore ==
    \A v, w, n, A, base, move, longer :
        /\ FoldsTo(v, n, A, base, move) /\ FoldsTo(w, n + 1, A, base, longer)
        /\ Continues(longer, move, n)
        => w = longer[n + 1][v]
  <1> SUFFICES ASSUME NEW v, NEW w, NEW n, NEW A, NEW base, NEW move, NEW longer,
                      FoldsTo(v, n, A, base, move), FoldsTo(w, n + 1, A, base, longer),
                      Continues(longer, move, n)
               PROVE  w = longer[n + 1][v]
    OBVIOUS
  <1>0. /\ n \in Nat /\ base \in A /\ move \in [1..n -> [A -> A]] /\ longer \in [1..(n + 1) -> [A -> A]]
        /\ \A k \in 1..n : longer[k] = move[k]
    BY DEF FoldsTo, Continues
  <1>. USE <1>0
  <1>1. PICK it : Steps(it, 1..n, A, base, move, Along(n)) /\ v = it[1..n]
    BY DEF FoldsTo
  <1>2. PICK jt : Steps(jt, 1..(n + 1), A, base, longer, Along(n + 1)) /\ w = jt[1..(n + 1)]
    BY DEF FoldsTo
  <1> DEFINE P == {s \in SUBSET (1..n) : it[s] \in A /\ jt[s] = it[s]}
  <1>3. ASSUME NEW s \in SUBSET (1..n), \A u \in SUBSET s : u # s => u \in P
        PROVE  s \in P
    <2>1. CASE s = {}
      BY <1>1, <1>2, <2>1 DEF Steps
    <2>2. CASE s # {}
      <3> DEFINE m == Max(s)
                 r == s \ {m}
      <3>1. m \in s
        BY <2>2, LargestPosition
      <3>2. r \in P
        BY <1>3, <3>1
      <3>3. s \in SUBSET (1..(n + 1)) /\ Along(n)[s] = m /\ Along(n + 1)[s] = m
        BY DEF Along
      <3>4. it[s] = move[m][it[r]]
        BY <1>1, <2>2, <3>2, <3>3 DEF Steps
      <3>5. jt[s] = longer[m][jt[r]]
        BY <1>2, <2>2, <3>2, <3>3 DEF Steps
      <3>. HIDE DEF m, r
      <3>6. move[m] \in [A -> A] /\ longer[m] = move[m] /\ it[r] \in A /\ jt[r] = it[r]
        BY <3>1, <3>2
      <3>. QED
        BY <3>4, <3>5, <3>6
    <2>. QED
      BY <2>1, <2>2
  <1>4. IsFiniteSet(1..n)
    BY FS_Interval
  <1>5. \A s \in SUBSET (1..n) : s \in P
    <2> DEFINE T == 1..n
    <2>1. IsFiniteSet(T) /\ \A s \in SUBSET T : (\A u \in SUBSET s : u # s => u \in P) => s \in P
      <3>. HIDE DEF P
      <3>. QED
        BY <1>3, <1>4
    <2>2. \A s \in SUBSET T : s \in P
      <3>. HIDE DEF P, T
      <3>. QED
        BY <2>1, SubsetInduction
    <2>. QED
      BY <2>2
  <1>6. it[1..n] \in A /\ jt[1..n] = it[1..n]
    BY <1>5
  <1>7. Max(1..(n + 1)) = n + 1 /\ (1..(n + 1)) \ {n + 1} = 1..n /\ 1..(n + 1) # {}
    BY OneMore
  <1>8. Along(n + 1)[1..(n + 1)] = n + 1
    BY <1>7 DEF Along
  <1> DEFINE whole == 1..(n + 1)
  <1>9. jt[whole] = longer[n + 1][jt[1..n]]
    <2>1. whole \in SUBSET whole /\ whole # {} /\ jt[whole \ {n + 1}] \in A /\ Along(n + 1)[whole] = n + 1
          /\ whole \ {n + 1} = 1..n
      BY <1>6, <1>7, <1>8
    <2>2. \A s \in SUBSET whole : s # {} /\ jt[s \ {Along(n + 1)[s]}] \in A
             => jt[s] = longer[Along(n + 1)[s]][jt[s \ {Along(n + 1)[s]}]]
      BY <1>2 DEF Steps
    <2>. HIDE DEF whole
    <2>. QED
      BY <2>1, <2>2
  <1>. QED
    BY <1>1, <1>2, <1>6, <1>9

-----------------------------------------------------------------------------
(***************************************************************************)
(* The fold of the fills.  A lot holds something; a sale in progress owes  *)
(* a number of shares.                                                     *)
(***************************************************************************)
Lots == [quantity: Nat \ {0}, cost: Int]

Sales == [remaining: Nat, consumed: Int, lots: Seq(Lots)]

Positions == [lots: Seq(Lots), realised: Int]

\* What lots cost.
CostOf(lots) == FoldLeft(LAMBDA sum, lot : sum + lot.cost, 0, lots)

CostSteps(lots) == [k \in 1..Len(lots) |-> [a \in Int |-> a + lots[k].cost]]

LEMMA CostIsChosen ==
    ASSUME NEW lots
    PROVE  CostOf(lots) =
             (CHOOSE it : it = [s \in SUBSET DOMAIN lots |->
                 IF s = {} THEN 0 ELSE it[s \ {Max(s)}] + lots[Max(s)].cost])[DOMAIN lots]
  BY Zenon DEF CostOf, FoldLeft, MapThenFoldSet

\* A cost is a fold of the lots' costs.
LEMMA CostFolds ==
    ASSUME NEW lots \in Seq(Lots)
    PROVE  FoldsTo(CostOf(lots), Len(lots), Int, 0, CostSteps(lots))
  <1> DEFINE n == Len(lots)
             move == CostSteps(lots)
             next == Along(n)
             Rec(f) == f = [s \in SUBSET DOMAIN lots |->
                              IF s = {} THEN 0 ELSE f[s \ {Max(s)}] + lots[Max(s)].cost]
             it == CHOOSE f : Rec(f)
  <1>0. n \in Nat /\ DOMAIN lots = 1..n /\ \A k \in 1..n : lots[k] \in Lots
    OBVIOUS
  <1>1. n \in Nat /\ DOMAIN lots = 1..n /\ \A k \in 1..n : lots[k].cost \in Int
    BY <1>0 DEF Lots
  <1>2. move \in [1..n -> [Int -> Int]] /\ 0 \in Int
    BY <1>1 DEF CostSteps
  <1>3. /\ \A s \in SUBSET (1..n) : s # {} => Max(s) \in s
        /\ Foldable(1..n, Int, 0, move, next)
    <2>. HIDE DEF n, move
    <2>. QED
      BY <1>1, <1>2, SequenceFoldable DEF next, Along
  <1>4. PICK h : FoldOf(h, 1..n, Int, 0, move, next)
    <2>. HIDE DEF n, move, next
    <2>. QED
      BY <1>3, FoldExists, Zenon
  <1>5. ASSUME NEW g, NEW s \in SUBSET (1..n), s # {}, g[s \ {Max(s)}] \in Int
        PROVE  move[next[s]][g[s \ {next[s]}]] = g[s \ {Max(s)}] + lots[Max(s)].cost
    BY <1>3, <1>5 DEF CostSteps, Along
  <1>6. Rec(h)
    <2>1. ASSUME NEW s \in SUBSET (1..n)
          PROVE  h[s] = IF s = {} THEN 0 ELSE h[s \ {Max(s)}] + lots[Max(s)].cost
      <3>1. h[s] = IF s = {} THEN 0 ELSE move[next[s]][h[s \ {next[s]}]]
        BY <1>4, Zenon DEF FoldOf
      <3>2. h[s \ {Max(s)}] \in Int
        BY <1>4 DEF FoldOf
      <3>. HIDE DEF move, next
      <3>. QED
        BY <1>5, <3>1, <3>2
    <2>2. h \in [SUBSET (1..n) -> Int]
      BY <1>4 DEF FoldOf
    <2>. HIDE DEF n
    <2>. QED
      BY <1>1, <2>1, <2>2
  <1>7. Rec(it)
    BY <1>6
  <1>. HIDE DEF it
  <1>8. it[{}] = 0 /\ \A s \in SUBSET (1..n) : s # {} => it[s] = it[s \ {Max(s)}] + lots[Max(s)].cost
    BY <1>1, <1>7
  <1>9. Steps(it, 1..n, Int, 0, move, next)
    <2>. HIDE DEF n, move, next
    <2>1. ASSUME NEW s \in SUBSET (1..n), s # {}, it[s \ {next[s]}] \in Int
          PROVE  it[s] = move[next[s]][it[s \ {next[s]}]]
      <3>1. next[s] = Max(s)
        BY DEF next, Along
      <3>. QED
        BY <1>5, <1>8, <2>1, <3>1
    <2>. QED
      BY <1>8, <2>1 DEF Steps
  <1>10. CostOf(lots) = it[1..n]
    BY <1>1, CostIsChosen, Zenon DEF it
  <1>. QED
    BY <1>1, <1>2, <1>9, <1>10 DEF FoldsTo

\* What lots cost with one more.
LEMMA CostAppend ==
    ASSUME NEW lots \in Seq(Lots), NEW lot \in Lots
    PROVE  CostOf(lots) \in Int /\ CostOf(Append(lots, lot)) = CostOf(lots) + lot.cost
  <1> DEFINE n == Len(lots)
             more == Append(lots, lot)
  <1>1. /\ n \in Nat /\ more \in Seq(Lots) /\ Len(more) = n + 1
        /\ more[n + 1] = lot /\ \A k \in 1..n : more[k] = lots[k]
    OBVIOUS
  <1>2. FoldsTo(CostOf(lots), n, Int, 0, CostSteps(lots))
    BY CostFolds
  <1>3. FoldsTo(CostOf(more), n + 1, Int, 0, CostSteps(more))
    <2>. HIDE DEF more
    <2>. QED
      BY <1>1, CostFolds
  <1>. HIDE DEF more
  <1>4. Continues(CostSteps(more), CostSteps(lots), n)
    BY <1>1 DEF CostSteps, Continues
  <1>5. CostOf(lots) \in Int
    <2>. HIDE DEF n
    <2>. QED
      BY <1>2, FoldsToType, Zenon
  <1>6. CostOf(more) = CostSteps(more)[n + 1][CostOf(lots)]
    <2>. HIDE DEF n
    <2>. QED
      BY <1>2, <1>3, <1>4, FoldsToMore
  <1>7. CostSteps(more)[n + 1][CostOf(lots)] = CostOf(lots) + lot.cost
    BY <1>1, <1>5 DEF CostSteps
  <1>. QED
    BY <1>5, <1>6, <1>7 DEF more

\* No lots cost nothing.
LEMMA CostOfNothing == CostOf(<<>>) = 0
  <1>1. <<>> \in Seq(Lots) /\ Len(<<>>) = 0
    OBVIOUS
  <1>2. FoldsTo(CostOf(<<>>), 0, Int, 0, CostSteps(<<>>))
    BY <1>1, CostFolds
  <1>. QED
    BY <1>2, FoldsToType

\* What one lot of a sale comes to: it is kept, taken, or divided.
TakenFrom(sale, lot, after) ==
    \/ after.lots = Append(sale.lots, lot) /\ after.consumed = sale.consumed
    \/ after.lots = sale.lots /\ after.consumed = sale.consumed + lot.cost
    \/ \E left \in Lots : /\ after.lots = Append(sale.lots, left)
                          /\ after.consumed + left.cost = sale.consumed + lot.cost

\* A sale takes one of three courses with a lot.
LEMMA TakeFromCases ==
    ASSUME NEW sale \in Sales, NEW lot \in Lots
    PROVE  TakeFrom(sale, lot) \in Sales /\ TakenFrom(sale, lot, TakeFrom(sale, lot))
  <1> DEFINE take  == IF sale.remaining > lot.quantity THEN lot.quantity ELSE sale.remaining
             taken == Taken(lot, take)
             left  == [quantity |-> lot.quantity - take, cost |-> lot.cost - taken]
             after == TakeFrom(sale, lot)
  <1>1. /\ sale.lots \in Seq(Lots) /\ sale.remaining \in Nat /\ sale.consumed \in Int
        /\ lot.quantity \in Nat \ {0} /\ lot.cost \in Int
    BY DEF Sales, Lots
  <1>2. take \in Nat /\ take <= sale.remaining /\ take <= lot.quantity
    BY <1>1
  <1>3. after = IF sale.remaining = 0 THEN [sale EXCEPT !.lots = Append(sale.lots, lot)]
                ELSE [remaining |-> sale.remaining - take, consumed |-> sale.consumed + taken,
                      lots |-> IF left.quantity > 0 THEN Append(sale.lots, left) ELSE sale.lots]
    BY DEF TakeFrom
  <1>4. taken \in Int /\ (take = lot.quantity => taken = lot.cost)
    <2> DEFINE cost == lot.cost
               whole == lot.quantity
               product == Mul(cost, take)
    <2>1. cost \in Int /\ take \in Int /\ whole \in Int \ {0}
      BY <1>1, <1>2
    <2>2. product \in Int
      <3>. HIDE DEF cost, take
      <3>. QED
        BY <2>1, MulType
    <2>3. Div(product, whole) \in Int
      <3>. HIDE DEF product, whole
      <3>. QED
        BY <2>1, <2>2, DivType
    <2>4. taken = IF take = whole THEN cost ELSE Div(product, whole)
      BY DEF Taken
    <2>. HIDE DEF take, product, whole, taken
    <2>5. taken \in Int /\ (take = whole => taken = cost)
      BY <2>1, <2>3, <2>4
    <2>. QED
      BY <2>5 DEF whole
  <1>. HIDE DEF take, taken, after
  <1>5. CASE sale.remaining = 0
    <2>1. after = [sale EXCEPT !.lots = Append(sale.lots, lot)]
      BY <1>3, <1>5
    <2>2. Append(sale.lots, lot) \in Seq(Lots)
      BY <1>1
    <2>3. after \in Sales
      BY <2>1, <2>2 DEF Sales
    <2>4. after.lots = Append(sale.lots, lot) /\ after.consumed = sale.consumed
      BY <2>1 DEF Sales
    <2>. QED
      BY <2>3, <2>4 DEF TakenFrom, after
  <1>6. CASE sale.remaining # 0 /\ take = lot.quantity
    <2>1. after = [remaining |-> sale.remaining - take, consumed |-> sale.consumed + taken,
                   lots |-> sale.lots]
      BY <1>1, <1>3, <1>6
    <2>2. after \in Sales
      BY <1>1, <1>2, <1>4, <2>1 DEF Sales
    <2>3. after.lots = sale.lots /\ after.consumed = sale.consumed + lot.cost
      BY <1>4, <1>6, <2>1
    <2>. QED
      BY <2>2, <2>3 DEF TakenFrom, after
  <1>7. CASE sale.remaining # 0 /\ take # lot.quantity
    <2>1. left \in Lots /\ left.quantity > 0 /\ left.cost = lot.cost - taken
      BY <1>1, <1>2, <1>4, <1>7 DEF Lots
    <2>2. after = [remaining |-> sale.remaining - take, consumed |-> sale.consumed + taken,
                   lots |-> Append(sale.lots, left)]
      BY <1>3, <1>7, <2>1
    <2>. HIDE DEF left
    <2>3. Append(sale.lots, left) \in Seq(Lots)
      BY <1>1, <2>1
    <2>4. after \in Sales
      BY <1>1, <1>2, <1>4, <2>2, <2>3 DEF Sales
    <2>5. after.lots = Append(sale.lots, left) /\ after.consumed + left.cost = sale.consumed + lot.cost
      BY <1>1, <1>4, <2>1, <2>2
    <2>. QED
      BY <2>1, <2>4, <2>5 DEF TakenFrom, after
  <1>. QED
    BY <1>5, <1>6, <1>7

LEMMA TakeFromType ==
    ASSUME NEW sale \in Sales, NEW lot \in Lots
    PROVE  TakeFrom(sale, lot) \in Sales
  BY TakeFromCases

SaleSteps(lots) == [k \in 1..Len(lots) |-> [a \in Sales |-> TakeFrom(a, lots[k])]]

LEMMA SaleIsChosen ==
    ASSUME NEW lots, NEW base
    PROVE  FoldLeft(TakeFrom, base, lots) =
             (CHOOSE it : it = [s \in SUBSET DOMAIN lots |->
                 IF s = {} THEN base ELSE TakeFrom(it[s \ {Max(s)}], lots[Max(s)])])[DOMAIN lots]
  BY Zenon DEF FoldLeft, MapThenFoldSet

\* A sale is a fold of what it takes from each lot.
LEMMA SaleFolds ==
    ASSUME NEW lots \in Seq(Lots), NEW base \in Sales
    PROVE  FoldsTo(FoldLeft(TakeFrom, base, lots), Len(lots), Sales, base, SaleSteps(lots))
  <1> DEFINE n == Len(lots)
             move == SaleSteps(lots)
             next == Along(n)
             Rec(f) == f = [s \in SUBSET DOMAIN lots |->
                              IF s = {} THEN base ELSE TakeFrom(f[s \ {Max(s)}], lots[Max(s)])]
             it == CHOOSE f : Rec(f)
  <1>1. n \in Nat /\ DOMAIN lots = 1..n /\ \A k \in 1..n : lots[k] \in Lots
    OBVIOUS
  <1>2. move \in [1..n -> [Sales -> Sales]]
    BY <1>1, TakeFromType DEF SaleSteps
  <1>3. /\ \A s \in SUBSET (1..n) : s # {} => Max(s) \in s
        /\ Foldable(1..n, Sales, base, move, next)
    <2>. HIDE DEF n, move
    <2>. QED
      BY <1>1, <1>2, SequenceFoldable DEF next, Along
  <1>4. PICK h : FoldOf(h, 1..n, Sales, base, move, next)
    <2>. HIDE DEF n, move, next
    <2>. QED
      BY <1>3, FoldExists, Zenon
  <1>5. ASSUME NEW g, NEW s \in SUBSET (1..n), s # {}, g[s \ {Max(s)}] \in Sales
        PROVE  move[next[s]][g[s \ {next[s]}]] = TakeFrom(g[s \ {Max(s)}], lots[Max(s)])
    BY <1>3, <1>5 DEF SaleSteps, Along
  <1>6. Rec(h)
    <2>1. ASSUME NEW s \in SUBSET (1..n)
          PROVE  h[s] = IF s = {} THEN base ELSE TakeFrom(h[s \ {Max(s)}], lots[Max(s)])
      <3>1. h[s] = IF s = {} THEN base ELSE move[next[s]][h[s \ {next[s]}]]
        BY <1>4, Zenon DEF FoldOf
      <3>2. h[s \ {Max(s)}] \in Sales
        BY <1>4 DEF FoldOf
      <3>. HIDE DEF move, next
      <3>. QED
        BY <1>5, <3>1, <3>2
    <2>2. h \in [SUBSET (1..n) -> Sales]
      BY <1>4 DEF FoldOf
    <2>. HIDE DEF n
    <2>. QED
      BY <1>1, <2>1, <2>2
  <1>7. Rec(it)
    BY <1>6
  <1>. HIDE DEF it
  <1>8. it[{}] = base /\ \A s \in SUBSET (1..n) : s # {} => it[s] = TakeFrom(it[s \ {Max(s)}], lots[Max(s)])
    BY <1>1, <1>7
  <1>9. Steps(it, 1..n, Sales, base, move, next)
    <2>. HIDE DEF n, move, next
    <2>1. ASSUME NEW s \in SUBSET (1..n), s # {}, it[s \ {next[s]}] \in Sales
          PROVE  it[s] = move[next[s]][it[s \ {next[s]}]]
      <3>1. next[s] = Max(s)
        BY DEF next, Along
      <3>. QED
        BY <1>5, <1>8, <2>1, <3>1
    <2>. QED
      BY <1>8, <2>1 DEF Steps
  <1>10. FoldLeft(TakeFrom, base, lots) = it[1..n]
    BY <1>1, SaleIsChosen, Zenon DEF it
  <1>. QED
    BY <1>1, <1>2, <1>9, <1>10 DEF FoldsTo

\* A sale over lots with one more.
LEMMA SaleAppend ==
    ASSUME NEW lots \in Seq(Lots), NEW x \in Lots, NEW base \in Sales
    PROVE  /\ FoldLeft(TakeFrom, base, lots) \in Sales
           /\ FoldLeft(TakeFrom, base, Append(lots, x)) = TakeFrom(FoldLeft(TakeFrom, base, lots), x)
  <1> DEFINE n == Len(lots)
             more == Append(lots, x)
             v == FoldLeft(TakeFrom, base, lots)
             w == FoldLeft(TakeFrom, base, more)
  <1>1. /\ n \in Nat /\ more \in Seq(Lots) /\ Len(more) = n + 1
        /\ more[n + 1] = x /\ \A k \in 1..n : more[k] = lots[k]
    OBVIOUS
  <1>2. FoldsTo(v, n, Sales, base, SaleSteps(lots))
    BY SaleFolds
  <1>3. FoldsTo(w, n + 1, Sales, base, SaleSteps(more))
    <2>. HIDE DEF more
    <2>. QED
      BY <1>1, SaleFolds
  <1>. HIDE DEF more
  <1>4. Continues(SaleSteps(more), SaleSteps(lots), n)
    BY <1>1 DEF SaleSteps, Continues
  <1>5. v \in Sales
    <2>. HIDE DEF n, v
    <2>. QED
      BY <1>2, FoldsToType, Zenon
  <1>6. w = SaleSteps(more)[n + 1][v]
    <2>. HIDE DEF n, v, w
    <2>. QED
      BY <1>2, <1>3, <1>4, FoldsToMore
  <1>7. SaleSteps(more)[n + 1][v] = TakeFrom(v, x)
    <2>. HIDE DEF v
    <2>. QED
      BY <1>1, <1>5 DEF SaleSteps
  <1>. QED
    BY <1>5, <1>6, <1>7 DEF more

\* A sale over no lots takes nothing.
LEMMA SaleOfNothing ==
    ASSUME NEW base \in Sales
    PROVE  FoldLeft(TakeFrom, base, <<>>) = base
  <1>1. <<>> \in Seq(Lots) /\ Len(<<>>) = 0
    OBVIOUS
  <1>2. FoldsTo(FoldLeft(TakeFrom, base, <<>>), 0, Sales, base, SaleSteps(<<>>))
    BY <1>1, SaleFolds
  <1>. QED
    BY <1>2, FoldsToType

\* No cost is lost between a sale and one lot of it.
LEMMA TakeFromConserves ==
    ASSUME NEW sale \in Sales, NEW lot \in Lots, NEW after, after = TakeFrom(sale, lot)
    PROVE  CostOf(after.lots) + after.consumed = CostOf(sale.lots) + sale.consumed + lot.cost
  <1>1. sale.lots \in Seq(Lots) /\ sale.consumed \in Int /\ lot.cost \in Int /\ after.consumed \in Int
    BY TakeFromType DEF Sales, Lots
  <1>2. \A r \in Lots : r.cost \in Int
    BY DEF Lots
  <1> DEFINE before == CostOf(sale.lots)
  <1>3. before \in Int /\ \A r \in Lots : CostOf(Append(sale.lots, r)) = before + r.cost
    BY <1>1, CostAppend
  <1>. HIDE DEF before
  <1>4. CostOf(after.lots) + after.consumed = before + sale.consumed + lot.cost
    <2>1. CASE after.lots = Append(sale.lots, lot) /\ after.consumed = sale.consumed
      <3>1. CostOf(after.lots) = before + lot.cost
        BY <1>3, <2>1
      <3>. QED
        BY <1>1, <1>3, <2>1, <3>1
    <2>2. CASE after.lots = sale.lots /\ after.consumed = sale.consumed + lot.cost
      <3>1. CostOf(after.lots) = before
        BY <2>2 DEF before
      <3>. QED
        BY <1>1, <1>3, <2>2, <3>1
    <2>3. ASSUME NEW left \in Lots, after.lots = Append(sale.lots, left),
                 after.consumed + left.cost = sale.consumed + lot.cost
          PROVE  CostOf(after.lots) + after.consumed = before + sale.consumed + lot.cost
      <3>1. CostOf(after.lots) = before + left.cost /\ left.cost \in Int
        BY <1>2, <1>3, <2>3
      <3> DEFINE a == CostOf(after.lots)
                 b == left.cost
                 c == after.consumed
                 d == sale.consumed
                 e == lot.cost
      <3>2. a = before + b /\ c + b = d + e /\ b \in Int /\ c \in Int /\ d \in Int /\ e \in Int
        BY <1>1, <2>3, <3>1
      <3>. HIDE DEF a, b, c, d, e
      <3>3. a + c = before + d + e
        BY <1>3, <3>2
      <3>. QED
        BY <3>3 DEF a, c, d, e
    <2>4. TakenFrom(sale, lot, after)
      BY TakeFromCases
    <2>. QED
      BY <2>1, <2>2, <2>3, <2>4 DEF TakenFrom
  <1>. QED
    BY <1>4 DEF before

\* A sale of q shares before its first lot, and after some.
Owing(q) == [remaining |-> q, consumed |-> 0, lots |-> <<>>]

Sold(q, lots) == FoldLeft(TakeFrom, Owing(q), lots)

\* Nor in all its lots.
LEMMA SaleConserves ==
    ASSUME NEW q \in Nat
    PROVE  \A lots \in Seq(Lots) :
              /\ Sold(q, lots) \in Sales
              /\ CostOf(Sold(q, lots).lots) + Sold(q, lots).consumed = CostOf(lots)
  <1> DEFINE P == {s \in Seq(Lots) : /\ Sold(q, s) \in Sales
                                     /\ CostOf(Sold(q, s).lots) + Sold(q, s).consumed = CostOf(s)}
  <1>1. Owing(q) \in Sales /\ Owing(q).lots = <<>> /\ Owing(q).consumed = 0
    BY DEF Sales, Owing
  <1>2. <<>> \in P
    <2>1. Sold(q, <<>>) = Owing(q)
      BY <1>1, SaleOfNothing DEF Sold
    <2>2. <<>> \in Seq(Lots)
      OBVIOUS
    <2>. QED
      BY <1>1, <2>1, <2>2, CostOfNothing
  <1>3. ASSUME NEW s \in Seq(Lots), NEW lot \in Lots, s \in P
        PROVE  Append(s, lot) \in P
    <2> DEFINE sale == Sold(q, s)
               after == Sold(q, Append(s, lot))
    <2>1. after = TakeFrom(sale, lot)
      BY <1>1, SaleAppend DEF Sold
    <2>2. sale \in Sales /\ CostOf(sale.lots) + sale.consumed = CostOf(s)
      BY <1>3
    <2>3. Append(s, lot) \in Seq(Lots)
      OBVIOUS
    <2>4. CostOf(Append(s, lot)) = CostOf(s) + lot.cost
      BY CostAppend
    <2>. HIDE DEF sale, after
    <2>5. /\ after \in Sales
          /\ CostOf(after.lots) + after.consumed = CostOf(sale.lots) + sale.consumed + lot.cost
      BY <2>1, <2>2, TakeFromType, TakeFromConserves
    <2>6. after \in Sales /\ CostOf(after.lots) + after.consumed = CostOf(Append(s, lot))
      BY <2>2, <2>4, <2>5
    <2>. QED
      BY <2>3, <2>6 DEF after
  <1>4. \A s \in Seq(Lots) : s \in P
    <2>. HIDE DEF P
    <2>. QED
      BY <1>2, <1>3, AppendInduction
  <1>. QED
    BY <1>4

-----------------------------------------------------------------------------
(***************************************************************************)
(* The fills of a position, in their order.                                *)
(***************************************************************************)
\* A fill is recorded last.
LEMMA LastFilledIn ==
    ASSUME fill \in [Intents -> FillRows], NEW s \in SUBSET Intents, s # {}
    PROVE  LastFilled(s) \in s
  <1>0. IsFiniteSet(s) /\ \A i \in s : fill[i].session \in Nat /\ fill[i].at \in Nat
    <2>1. \A i \in s : fill[i] \in FillRows
      OBVIOUS
    <2>. QED
      BY <2>1, PaperAssumption, FS_Subset DEF FillRows
  <1> DEFINE sessions == {fill[i].session : i \in s}
  <1>1. PICK d \in sessions : \A e \in sessions : e <= d
    <2> DEFINE f == [i \in s |-> fill[i].session]
    <2>1. sessions = {f[i] : i \in s}
      OBVIOUS
    <2>2. IsFiniteSet(sessions)
      <3>. HIDE DEF f, sessions
      <3>. QED
        BY <1>0, <2>1, ImageIsFinite
    <2>3. sessions # {} /\ sessions \in SUBSET Int
      BY <1>0
    <2>. HIDE DEF sessions
    <2>4. \E d \in sessions : \A e \in sessions : e <= d
      BY <2>2, <2>3, LargestExists
    <2>. QED
      BY <2>4
  <1> DEFINE latest == {i \in s : fill[i].session = d}
             numbers == {fill[i].at : i \in latest}
  <1>2. PICK q \in numbers : \A p \in numbers : p <= q
    <2> DEFINE f == [i \in latest |-> fill[i].at]
    <2>1. IsFiniteSet(latest)
      BY <1>0, FS_Subset
    <2>2. numbers = {f[i] : i \in latest}
      OBVIOUS
    <2>3. IsFiniteSet(numbers)
      <3>. HIDE DEF f, numbers, latest
      <3>. QED
        BY <2>1, <2>2, ImageIsFinite
    <2>4. numbers # {} /\ numbers \in SUBSET Int
      BY <1>0, <1>1
    <2>. HIDE DEF numbers
    <2>5. \E q \in numbers : \A p \in numbers : p <= q
      BY <2>3, <2>4, LargestExists
    <2>. QED
      BY <2>5
  <1>3. PICK i \in s : fill[i].session = d /\ fill[i].at = q
    BY <1>2
  <1>4. \A j \in s : \/ fill[j].session < fill[i].session
                     \/ fill[j].session = fill[i].session /\ fill[j].at <= fill[i].at
    <2> SUFFICES ASSUME NEW j \in s
                 PROVE  \/ fill[j].session < fill[i].session
                        \/ fill[j].session = fill[i].session /\ fill[j].at <= fill[i].at
      OBVIOUS
    <2>1. fill[j].session \in sessions /\ fill[j].session <= d /\ fill[j].session \in Nat /\ d \in Nat
      BY <1>0, <1>1
    <2>2. fill[j].session = d => fill[j].at <= q
      BY <1>2
    <2>. QED
      BY <1>3, <2>1, <2>2
  <1>. QED
    BY <1>3, <1>4, Zenon DEF LastFilled

\* InFillOrder as a recursion over subsets of the fills.
LEMMA OrderIsChosen ==
    ASSUME NEW S
    PROVE  InFillOrder(S) =
             (CHOOSE it : it = [s \in SUBSET S |->
                 IF s = {} THEN <<>> ELSE Append(it[s \ {LastFilled(s)}], LastFilled(s))])[S]
  BY Zenon DEF InFillOrder, MapThenFoldSet

\* it is each subset of the fills in their order.
Ordering(it, S) ==
    \A s \in SUBSET S : it[s] = IF s = {} THEN <<>> ELSE Append(it[s \ {LastFilled(s)}], LastFilled(s))

\* The order comes to the fills of the set and to nothing else.
LEMMA OrderType ==
    ASSUME fill \in [Intents -> FillRows], NEW S \in SUBSET Intents
    PROVE  /\ InFillOrder(S) \in Seq(S)
           /\ \E it : Ordering(it, S) /\ InFillOrder(S) = it[S]
  <1> DEFINE Rec(f) == f = [s \in SUBSET S |->
                              IF s = {} THEN <<>> ELSE Append(f[s \ {LastFilled(s)}], LastFilled(s))]
             A == Seq(S)
             base == <<>>
             move == [i \in S |-> [a \in A |-> Append(a, i)]]
             next == [s \in SUBSET S |-> LastFilled(s)]
             it == CHOOSE f : Rec(f)
  <1>1. IsFiniteSet(S)
    BY PaperAssumption, FS_Subset
  <1>2. move \in [S -> [A -> A]] /\ base \in A
    OBVIOUS
  <1>3. \A s \in SUBSET S : s # {} => LastFilled(s) \in s
    BY LastFilledIn
  <1>4. Foldable(S, A, base, move, next)
    <2>. HIDE DEF A, base, move
    <2>. QED
      BY <1>1, <1>2, <1>3 DEF Foldable
  <1>5. PICK h : FoldOf(h, S, A, base, move, next)
    <2>. HIDE DEF A, base, move, next
    <2>. QED
      BY <1>4, FoldExists, Zenon
  <1>6. ASSUME NEW g, NEW s \in SUBSET S, s # {}, g[s \ {LastFilled(s)}] \in A
        PROVE  move[next[s]][g[s \ {next[s]}]] = Append(g[s \ {LastFilled(s)}], LastFilled(s))
    BY <1>3, <1>6
  <1>7. Rec(h)
    <2>1. ASSUME NEW s \in SUBSET S
          PROVE  h[s] = IF s = {} THEN <<>> ELSE Append(h[s \ {LastFilled(s)}], LastFilled(s))
      <3>1. h[s] = IF s = {} THEN base ELSE move[next[s]][h[s \ {next[s]}]]
        BY <1>5, Zenon DEF FoldOf
      <3>2. h[s \ {LastFilled(s)}] \in A
        BY <1>5 DEF FoldOf
      <3>. HIDE DEF move, next, A
      <3>. QED
        BY <1>6, <3>1, <3>2
    <2>2. h \in [SUBSET S -> A]
      BY <1>5 DEF FoldOf
    <2>. QED
      BY <2>1, <2>2
  <1>8. Rec(it)
    BY <1>7
  <1>. HIDE DEF it
  <1>9. it[{}] = base /\ \A s \in SUBSET S : s # {} => it[s] = Append(it[s \ {LastFilled(s)}], LastFilled(s))
    BY <1>8
  <1>10. it[S] \in A
    <2>. HIDE DEF A, move, next, base
    <2>1. ASSUME NEW s \in SUBSET S, s # {}, it[s \ {next[s]}] \in A
          PROVE  it[s] = move[next[s]][it[s \ {next[s]}]]
      <3>1. next[s] = LastFilled(s)
        BY DEF next
      <3>. QED
        BY <1>6, <1>9, <2>1, <3>1
    <2>2. Steps(it, S, A, base, move, next)
      BY <1>9, <2>1 DEF Steps
    <2>. QED
      BY <1>4, <2>2, FoldTyped, Zenon
  <1>11. Ordering(it, S)
    BY <1>9 DEF Ordering
  <1>12. InFillOrder(S) = it[S]
    BY OrderIsChosen, Zenon DEF it
  <1>13. InFillOrder(S) \in Seq(S)
    BY <1>10, <1>12, Zenon
  <1>. QED
    BY <1>11, <1>12, <1>13

\* The order of no fills; of some it ends with the one recorded last.
LEMMA OrderOfNothing ==
    ASSUME fill \in [Intents -> FillRows]
    PROVE  InFillOrder({}) = <<>>
  <1>1. PICK it : Ordering(it, {}) /\ InFillOrder({}) = it[{}]
    BY OrderType
  <1>. QED
    BY <1>1 DEF Ordering

LEMMA OrderAppend ==
    ASSUME fill \in [Intents -> FillRows], NEW S \in SUBSET Intents, S # {}
    PROVE  InFillOrder(S) = Append(InFillOrder(S \ {LastFilled(S)}), LastFilled(S))
  <1> DEFINE R == S \ {LastFilled(S)}
  <1>1. R \in SUBSET Intents /\ IsFiniteSet(R)
    BY PaperAssumption, FS_Subset
  <1>2. PICK jt : Ordering(jt, S) /\ InFillOrder(S) = jt[S]
    BY OrderType
  <1>3. PICK it : Ordering(it, R) /\ InFillOrder(R) = it[R]
    <2>. HIDE DEF R
    <2>. QED
      BY <1>1, OrderType
  <1> DEFINE P == {s \in SUBSET R : it[s] = jt[s]}
  <1>4. ASSUME NEW s \in SUBSET R, \A u \in SUBSET s : u # s => u \in P
        PROVE  s \in P
    <2>1. it[s] = IF s = {} THEN <<>> ELSE Append(it[s \ {LastFilled(s)}], LastFilled(s))
      BY <1>3 DEF Ordering
    <2>2. jt[s] = IF s = {} THEN <<>> ELSE Append(jt[s \ {LastFilled(s)}], LastFilled(s))
      BY <1>2 DEF Ordering
    <2>3. s # {} => LastFilled(s) \in s
      BY <1>1, LastFilledIn
    <2>4. s # {} => s \ {LastFilled(s)} \in P
      BY <1>4, <2>3
    <2>. QED
      BY <2>1, <2>2, <2>4
  <1>5. \A s \in SUBSET R : s \in P
    <2>. HIDE DEF P, R
    <2>. QED
      BY <1>1, <1>4, SubsetInduction
  <1>6. it[R] = jt[R]
    BY <1>5
  <1>7. jt[S] = Append(jt[R], LastFilled(S))
    BY <1>2 DEF Ordering
  <1>. QED
    BY <1>2, <1>3, <1>6, <1>7

-----------------------------------------------------------------------------
(***************************************************************************)
(* What a position comes to: however its fills are ordered and its lots    *)
(* divided, what was realised less what the lots cost is the sum of the    *)
(* cash effects.                                                           *)
(***************************************************************************)
\* What one fill does to a position: a lot more, or a sale of the lots.
LEMMA ApplyFillIs ==
    ASSUME NEW position \in Positions, NEW i \in Intents
    PROVE  /\ Wrote[i].direction = "buy" =>
                ApplyFill(position, i) =
                    [lots |-> Append(position.lots, [quantity |-> Wrote[i].quantity, cost |-> -fill[i].effect]),
                     realised |-> position.realised]
           /\ Wrote[i].direction # "buy" =>
                ApplyFill(position, i) =
                    [lots |-> Sold(Wrote[i].quantity, position.lots).lots,
                     realised |-> position.realised + fill[i].effect - Sold(Wrote[i].quantity, position.lots).consumed]
  BY DEF ApplyFill, Sold, Owing, Positions

Net(position) == position.realised - CostOf(position.lots)

\* A fill moves a position by its cash effect.
LEMMA ApplyFillMoves ==
    ASSUME fill \in [Intents -> FillRows], NEW position \in Positions, NEW i \in Intents
    PROVE  /\ ApplyFill(position, i) \in Positions
           /\ Net(position) \in Int
           /\ Net(ApplyFill(position, i)) = Net(position) + fill[i].effect
  <1> DEFINE effect == fill[i].effect
             lots == position.lots
             realised == position.realised
             after == ApplyFill(position, i)
             q == Wrote[i].quantity
  <1>1. lots \in Seq(Lots) /\ realised \in Int /\ position = [lots |-> lots, realised |-> realised]
    BY DEF Positions
  <1>2. effect \in Int
    <2>1. fill[i] \in FillRows
      OBVIOUS
    <2>. QED
      BY <2>1 DEF FillRows
  <1>3. q \in Nat \ {0}
    <2>1. Wrote[i] \in Contents
      BY PaperAssumption
    <2>. QED
      BY <2>1 DEF Contents
  <1> DEFINE cost == CostOf(lots)
  <1>4. cost \in Int /\ Net(position) = realised - cost
    <2>1. [quantity |-> 1, cost |-> 0] \in Lots
      BY DEF Lots
    <2>. HIDE DEF lots
    <2>2. cost \in Int
      BY <1>1, <2>1, CostAppend
    <2>. QED
      BY <2>2 DEF Net, lots
  <1>5. CASE Wrote[i].direction = "buy"
    <2> DEFINE lot == [quantity |-> q, cost |-> -effect]
               more == Append(lots, lot)
    <2>1. after = [lots |-> more, realised |-> realised]
      BY <1>5, ApplyFillIs
    <2>2. lot \in Lots /\ lot.cost = -effect
      BY <1>2, <1>3 DEF Lots
    <2>. HIDE DEF lot, effect, lots, realised, after
    <2>3. more \in Seq(Lots)
      BY <1>1, <2>2
    <2>4. CostOf(more) = cost - effect
      BY <1>1, <1>2, <1>4, <2>2, CostAppend
    <2>. HIDE DEF more, cost
    <2>5. after \in Positions
      BY <1>1, <2>1, <2>3 DEF Positions
    <2>6. Net(after) = realised - CostOf(more)
      BY <2>1 DEF Net
    <2>7. Net(after) = Net(position) + effect
      BY <1>1, <1>2, <1>4, <2>4, <2>6
    <2>. QED
      BY <1>1, <1>4, <2>5, <2>7 DEF after, effect
  <1>6. CASE Wrote[i].direction # "buy"
    <2> DEFINE sale == Sold(q, lots)
               left == sale.lots
               consumed == sale.consumed
               gained == realised + effect - consumed
    <2>1. after = [lots |-> left, realised |-> gained]
      BY <1>6, ApplyFillIs
    <2>2. sale \in Sales /\ CostOf(left) + consumed = cost
      <3>. HIDE DEF q, lots
      <3>. QED
        BY <1>1, <1>3, SaleConserves
    <2>3. left \in Seq(Lots) /\ consumed \in Int
      BY <2>2 DEF Sales
    <2>. HIDE DEF left, consumed, effect, lots, realised, after
    <2>4. CostOf(left) \in Int
      <3>1. [quantity |-> 1, cost |-> 0] \in Lots
        BY DEF Lots
      <3>. QED
        BY <2>3, <3>1, CostAppend
    <2>. HIDE DEF cost
    <2>5. after \in Positions
      BY <1>1, <1>2, <2>1, <2>3 DEF Positions
    <2>6. Net(after) = gained - CostOf(left)
      <3>. HIDE DEF gained
      <3>. QED
        BY <2>1 DEF Net
    <2>7. Net(after) = Net(position) + effect
      <3> DEFINE rest == CostOf(left)
      <3>1. rest \in Int /\ rest + consumed = cost /\ Net(after) = (realised + effect - consumed) - rest
        BY <2>2, <2>4, <2>6
      <3>. HIDE DEF rest
      <3>2. Net(after) = (realised - cost) + effect
        BY <1>1, <1>2, <1>4, <2>3, <3>1
      <3>. QED
        BY <1>4, <3>2
    <2>. QED
      BY <1>1, <1>4, <2>5, <2>7 DEF after, effect
  <1>. QED
    BY <1>5, <1>6

LEMMA ApplyFillType ==
    ASSUME fill \in [Intents -> FillRows], NEW position \in Positions, NEW i \in Intents
    PROVE  ApplyFill(position, i) \in Positions
  BY ApplyFillMoves

FillSteps(entries) == [k \in 1..Len(entries) |-> [a \in Positions |-> ApplyFill(a, entries[k])]]

LEMMA PositionIsChosen ==
    ASSUME NEW entries, NEW base
    PROVE  FoldLeft(ApplyFill, base, entries) =
             (CHOOSE it : it = [s \in SUBSET DOMAIN entries |->
                 IF s = {} THEN base ELSE ApplyFill(it[s \ {Max(s)}], entries[Max(s)])])[DOMAIN entries]
  BY Zenon DEF FoldLeft, MapThenFoldSet

\* A position is a fold of the fills.
LEMMA PositionFolds ==
    ASSUME fill \in [Intents -> FillRows], NEW entries \in Seq(Intents), NEW base \in Positions
    PROVE  FoldsTo(FoldLeft(ApplyFill, base, entries), Len(entries), Positions, base, FillSteps(entries))
  <1> DEFINE n == Len(entries)
             move == FillSteps(entries)
             next == Along(n)
             Rec(f) == f = [s \in SUBSET DOMAIN entries |->
                              IF s = {} THEN base ELSE ApplyFill(f[s \ {Max(s)}], entries[Max(s)])]
             it == CHOOSE f : Rec(f)
  <1>1. n \in Nat /\ DOMAIN entries = 1..n /\ \A k \in 1..n : entries[k] \in Intents
    OBVIOUS
  <1>2. move \in [1..n -> [Positions -> Positions]]
    BY <1>1, ApplyFillType DEF FillSteps
  <1>3. /\ \A s \in SUBSET (1..n) : s # {} => Max(s) \in s
        /\ Foldable(1..n, Positions, base, move, next)
    <2>. HIDE DEF n, move
    <2>. QED
      BY <1>1, <1>2, SequenceFoldable DEF next, Along
  <1>4. PICK h : FoldOf(h, 1..n, Positions, base, move, next)
    <2>. HIDE DEF n, move, next
    <2>. QED
      BY <1>3, FoldExists, Zenon
  <1>5. ASSUME NEW g, NEW s \in SUBSET (1..n), s # {}, g[s \ {Max(s)}] \in Positions
        PROVE  move[next[s]][g[s \ {next[s]}]] = ApplyFill(g[s \ {Max(s)}], entries[Max(s)])
    BY <1>3, <1>5 DEF FillSteps, Along
  <1>6. Rec(h)
    <2>1. ASSUME NEW s \in SUBSET (1..n)
          PROVE  h[s] = IF s = {} THEN base ELSE ApplyFill(h[s \ {Max(s)}], entries[Max(s)])
      <3>1. h[s] = IF s = {} THEN base ELSE move[next[s]][h[s \ {next[s]}]]
        BY <1>4, Zenon DEF FoldOf
      <3>2. h[s \ {Max(s)}] \in Positions
        BY <1>4 DEF FoldOf
      <3>. HIDE DEF move, next
      <3>. QED
        BY <1>5, <3>1, <3>2
    <2>2. h \in [SUBSET (1..n) -> Positions]
      BY <1>4 DEF FoldOf
    <2>. HIDE DEF n
    <2>. QED
      BY <1>1, <2>1, <2>2
  <1>7. Rec(it)
    BY <1>6
  <1>. HIDE DEF it
  <1>8. it[{}] = base /\ \A s \in SUBSET (1..n) : s # {} => it[s] = ApplyFill(it[s \ {Max(s)}], entries[Max(s)])
    BY <1>1, <1>7
  <1>9. Steps(it, 1..n, Positions, base, move, next)
    <2>. HIDE DEF n, move, next
    <2>1. ASSUME NEW s \in SUBSET (1..n), s # {}, it[s \ {next[s]}] \in Positions
          PROVE  it[s] = move[next[s]][it[s \ {next[s]}]]
      <3>1. next[s] = Max(s)
        BY DEF next, Along
      <3>. QED
        BY <1>5, <1>8, <2>1, <3>1
    <2>. QED
      BY <1>8, <2>1 DEF Steps
  <1>10. FoldLeft(ApplyFill, base, entries) = it[1..n]
    BY <1>1, PositionIsChosen, Zenon DEF it
  <1>. QED
    BY <1>1, <1>2, <1>9, <1>10 DEF FoldsTo

\* A position after one more fill.
LEMMA PositionAppend ==
    ASSUME fill \in [Intents -> FillRows], NEW entries \in Seq(Intents), NEW x \in Intents, NEW base \in Positions
    PROVE  /\ FoldLeft(ApplyFill, base, entries) \in Positions
           /\ FoldLeft(ApplyFill, base, Append(entries, x)) = ApplyFill(FoldLeft(ApplyFill, base, entries), x)
  <1> DEFINE n == Len(entries)
             more == Append(entries, x)
             v == FoldLeft(ApplyFill, base, entries)
             w == FoldLeft(ApplyFill, base, more)
  <1>1. /\ n \in Nat /\ more \in Seq(Intents) /\ Len(more) = n + 1
        /\ more[n + 1] = x /\ \A k \in 1..n : more[k] = entries[k]
    OBVIOUS
  <1>2. FoldsTo(v, n, Positions, base, FillSteps(entries))
    BY PositionFolds
  <1>3. FoldsTo(w, n + 1, Positions, base, FillSteps(more))
    <2>. HIDE DEF more
    <2>. QED
      BY <1>1, PositionFolds
  <1>. HIDE DEF more
  <1>4. Continues(FillSteps(more), FillSteps(entries), n)
    BY <1>1 DEF FillSteps, Continues
  <1>5. v \in Positions
    <2>. HIDE DEF n, v
    <2>. QED
      BY <1>2, FoldsToType, Zenon
  <1>6. w = FillSteps(more)[n + 1][v]
    <2>. HIDE DEF n, v, w
    <2>. QED
      BY <1>2, <1>3, <1>4, FoldsToMore
  <1>7. FillSteps(more)[n + 1][v] = ApplyFill(v, x)
    <2>. HIDE DEF v
    <2>. QED
      BY <1>1, <1>5 DEF FillSteps
  <1>. QED
    BY <1>5, <1>6, <1>7 DEF more

\* A position before the first fill.
LEMMA PositionOfNothing ==
    ASSUME fill \in [Intents -> FillRows], NEW base \in Positions
    PROVE  FoldLeft(ApplyFill, base, <<>>) = base
  <1>1. <<>> \in Seq(Intents) /\ Len(<<>>) = 0
    OBVIOUS
  <1>2. FoldsTo(FoldLeft(ApplyFill, base, <<>>), 0, Positions, base, FillSteps(<<>>))
    BY <1>1, PositionFolds
  <1>. QED
    BY <1>2, FoldsToType

\* The cash effects of the fills f, and whose they are.
Effects(f) == [i \in Intents |-> f[i].effect]

FilledBy(f, u) == {i \in Intents : f[i].session # 0 /\ Wrote[i].user = u}

\* Cash effects are numbers, and add up.
LEMMA EffectsAddUp ==
    ASSUME NEW f \in [Intents -> FillRows]
    PROVE  IsFiniteSet(Intents) /\ Numbers(Effects(f), Intents) /\ SumFacts(Effects(f), Intents)
  <1>1. IsFiniteSet(Intents)
    BY PaperAssumption
  <1>2. \A i \in Intents : f[i] \in FillRows
    OBVIOUS
  <1>3. Numbers(Effects(f), Intents)
    BY <1>2 DEF Numbers, Effects, FillRows
  <1>. QED
    BY <1>1, <1>3, TotalFacts

\* The position of a set of fills.
Untraded == [lots |-> <<>>, realised |-> 0]

Entered(S) == FoldLeft(ApplyFill, Untraded, InFillOrder(S))

Worth(S) == Entered(S) \in Positions /\ Net(Entered(S)) = Total(Effects(fill), S)

\* A position is worth the cash effects of its fills.
LEMMA PositionConserves ==
    ASSUME fill \in [Intents -> FillRows]
    PROVE  \A S \in SUBSET Intents : Worth(S)
  <1> DEFINE P == {S \in SUBSET Intents : Worth(S)}
             f == Effects(fill)
  <1>1. /\ IsFiniteSet(Intents) /\ Total(f, {}) = 0
        /\ \A s \in SUBSET Intents : Total(f, s) \in Int
        /\ \A s \in SUBSET Intents : \A x \in s : Total(f, s) = f[x] + Total(f, s \ {x})
    BY EffectsAddUp DEF SumFacts
  <1>2. Untraded \in Positions
    BY DEF Untraded, Positions
  <1>3. Worth({})
    <2>1. Entered({}) = Untraded
      BY <1>2, OrderOfNothing, PositionOfNothing DEF Entered
    <2>2. Net(Untraded) = 0
      BY CostOfNothing DEF Net, Untraded
    <2>. QED
      BY <1>1, <1>2, <2>1, <2>2 DEF Worth
  <1>4. ASSUME NEW S \in SUBSET Intents, \A u \in SUBSET S : u # S => u \in P
        PROVE  S \in P
    <2>1. CASE S = {}
      BY <1>3, <2>1
    <2>2. CASE S # {}
      <3> DEFINE i == LastFilled(S)
                 R == S \ {i}
                 before == Entered(R)
                 after == Entered(S)
      <3>1. i \in S /\ R \in SUBSET Intents
        BY <2>2, LastFilledIn
      <3>2. Worth(R)
        BY <1>4, <3>1
      <3>3. after = ApplyFill(before, i)
        <4> DEFINE entries == InFillOrder(R)
        <4>1. InFillOrder(S) = Append(entries, i)
          BY <2>2, OrderAppend
        <4>2. entries \in Seq(Intents)
          <5>. HIDE DEF R
          <5>1. InFillOrder(R) \in Seq(R)
            BY <3>1, OrderType
          <5>. QED
            BY <3>1, <5>1
        <4>3. i \in Intents
          BY <3>1
        <4>. HIDE DEF entries, i
        <4>4. FoldLeft(ApplyFill, Untraded, Append(entries, i))
                = ApplyFill(FoldLeft(ApplyFill, Untraded, entries), i)
          BY <1>2, <4>2, <4>3, PositionAppend
        <4>. QED
          BY <4>1, <4>4 DEF Entered, entries
      <3>4. before \in Positions /\ Net(before) = Total(f, R)
        BY <3>2 DEF Worth
      <3>5. f[i] = fill[i].effect /\ f[i] \in Int
        BY <3>1, EffectsAddUp DEF Effects, Numbers
      <3>6. i \in Intents
        BY <3>1
      <3>7. Total(f, S) = f[i] + Total(f, R) /\ Total(f, R) \in Int
        BY <1>1, <3>1
      <3>. HIDE DEF i, before, after
      <3>8. after \in Positions /\ Net(after) = Net(before) + fill[i].effect
        BY <3>3, <3>4, <3>6, ApplyFillMoves
      <3>. HIDE DEF f, R
      <3>9. Net(after) = Total(f, S)
        BY <3>4, <3>5, <3>7, <3>8
      <3>. QED
        BY <3>8, <3>9 DEF Worth, after, f
    <2>. QED
      BY <2>1, <2>2
  <1>5. \A S \in SUBSET Intents : S \in P
    <2>. HIDE DEF P
    <2>. QED
      BY <1>1, <1>4, SubsetInduction
  <1>. QED
    BY <1>5

\* What is shown of a position comes to the cash effects behind it.
Shown(u, k) == Position(u, k).realised - Position(u, k).cost

LEMMA ShownIs ==
    ASSUME fill \in [Intents -> FillRows], NEW u, NEW k
    PROVE  Shown(u, k) = Total(Effects(fill), FilledIn(u, k)) /\ Shown(u, k) \in Int
  <1> DEFINE S == FilledIn(u, k)
             folded == Entered(S)
  <1>1. S \in SUBSET Intents
    BY DEF FilledIn
  <1>2. Worth(S)
    <2>. HIDE DEF S
    <2>. QED
      BY <1>1, PositionConserves
  <1>3. Position(u, k).realised = folded.realised /\ Position(u, k).cost = CostOf(folded.lots)
    <2> DEFINE holding == FoldLeft(LAMBDA sum, lot : sum + lot.quantity, 0, folded.lots)
    <2>1. Position(u, k) = [quantity |-> holding, cost |-> CostOf(folded.lots), realised |-> folded.realised]
      BY Zenon DEF Position, FoldFills, Fills, Entered, Untraded, CostOf
    <2>. HIDE DEF holding
    <2>. QED
      BY <2>1
  <1>4. Total(Effects(fill), S) \in Int
    <2>. HIDE DEF S
    <2>. QED
      BY <1>1, EffectsAddUp DEF SumFacts
  <1>5. Shown(u, k) = Net(folded)
    BY <1>3 DEF Shown, Net
  <1>. QED
    BY <1>2, <1>4, <1>5 DEF Worth

\* The sum a person is shown, over the instruments.
ShownBy(u) == [k \in Instruments |-> Shown(u, k)]

LEMMA ShownIsChosen ==
    ASSUME NEW u
    PROVE  MapThenSumSet(LAMBDA k : Shown(u, k), Instruments) =
             (CHOOSE it : it = [s \in SUBSET Instruments |->
                 IF s = {} THEN 0 ELSE Shown(u, Pick(s)) + it[s \ {Pick(s)}]])[Instruments]
  BY Zenon DEF MapThenSumSet, MapThenFoldSet, Pick

LEMMA ShownAddsUp ==
    ASSUME fill \in [Intents -> FillRows], NEW u
    PROVE  /\ IsFiniteSet(Instruments) /\ Numbers(ShownBy(u), Instruments)
           /\ MapThenSumSet(LAMBDA k : Shown(u, k), Instruments) = Total(ShownBy(u), Instruments)
  <1> DEFINE f == ShownBy(u)
             K == Instruments
             Rec(h) == h = [s \in SUBSET K |-> IF s = {} THEN 0 ELSE Shown(u, Pick(s)) + h[s \ {Pick(s)}]]
             it == CHOOSE h : Rec(h)
  <1>1. IsFiniteSet(K) /\ Numbers(f, K)
    BY PaperAssumption, ShownIs DEF Numbers, ShownBy
  <1>2. PICK h : Summing(h, f, K) /\ OnSubsets(h, K)
    <2>. HIDE DEF f, K
    <2>. QED
      BY <1>1, SummingExists, Zenon
  <1>3. \A s \in SUBSET K : s # {} => f[Pick(s)] = Shown(u, Pick(s))
    BY DEF Pick, ShownBy
  <1>4. Rec(h)
    <2>. HIDE DEF f, K
    <2>1. \A s \in SUBSET K : h[s] = IF s = {} THEN 0 ELSE Shown(u, Pick(s)) + h[s \ {Pick(s)}]
      BY <1>2, <1>3 DEF Summing
    <2>. QED
      BY <1>2, <2>1 DEF OnSubsets
  <1>5. Rec(it)
    BY <1>4
  <1>6. MapThenSumSet(LAMBDA k : Shown(u, k), Instruments) = it[K]
    BY ShownIsChosen, Zenon
  <1>. HIDE DEF it, f, K
  <1>7. \A s \in SUBSET K : it[s] = IF s = {} THEN 0 ELSE Shown(u, Pick(s)) + it[s \ {Pick(s)}]
    BY <1>5
  <1>8. Summing(it, f, K)
    BY <1>3, <1>7 DEF Summing
  <1>9. Total(f, K) = it[K]
    BY <1>1, <1>8, TotalIs
  <1>10. MapThenSumSet(LAMBDA k : Shown(u, k), Instruments) = Total(f, K)
    BY <1>6, <1>9, Zenon
  <1>. QED
    BY <1>1, <1>10 DEF f, K

\* The fills of a person in some instruments.
Among(u, K) == {i \in Intents : fill[i].session # 0 /\ Wrote[i].user = u /\ Wrote[i].instrument \in K}

Grouped(u, K) == Total(ShownBy(u), K) = Total(Effects(fill), Among(u, K))

\* What is shown instrument by instrument comes to all the cash effects.
LEMMA ShownIsEarned ==
    ASSUME fill \in [Intents -> FillRows], NEW u
    PROVE  Total(ShownBy(u), Instruments) = Total(Effects(fill), FilledBy(fill, u))
  <1> DEFINE P == {K \in SUBSET Instruments : Grouped(u, K)}
             f == ShownBy(u)
             g == Effects(fill)
  <1>1. IsFiniteSet(Instruments) /\ SumFacts(f, Instruments)
    BY ShownAddsUp, TotalFacts
  <1>2. IsFiniteSet(Intents) /\ Numbers(g, Intents) /\ SumFacts(g, Intents)
    BY EffectsAddUp
  <1>3. ASSUME NEW K \in SUBSET Instruments, \A L \in SUBSET K : L # K => L \in P
        PROVE  K \in P
    <2>1. CASE K = {}
      <3>1. Among(u, {}) = {} /\ Total(f, {}) = 0 /\ Total(g, {}) = 0
        BY <1>1, <1>2 DEF Among, SumFacts
      <3>2. Grouped(u, {})
        BY <3>1 DEF Grouped
      <3>. QED
        BY <2>1, <3>2
    <2>2. CASE K # {}
      <3>1. PICK k \in K : TRUE
        BY <2>2
      <3> DEFINE L == K \ {k}
                 A == FilledIn(u, k)
                 B == Among(u, L)
      <3>2. Grouped(u, L) /\ L \in SUBSET Instruments /\ k \in Instruments
        BY <1>3, <3>1
      <3>3. A \in SUBSET Intents /\ B \in SUBSET Intents /\ A \cap B = {} /\ A \cup B = Among(u, K)
        BY <3>1 DEF FilledIn, Among
      <3>4. Total(f, K) = f[k] + Total(f, L)
        BY <1>1, <3>1 DEF SumFacts
      <3>5. f[k] = Total(g, A)
        BY <3>2, ShownIs DEF ShownBy
      <3>. HIDE DEF A, B, f, g
      <3>6. Total(g, A \cup B) = Total(g, A) + Total(g, B)
        BY <1>2, <3>3, TotalOfUnion
      <3>7. Total(f, L) = Total(g, B)
        BY <3>2 DEF Grouped, f, g, B
      <3>8. Total(f, K) = Total(g, Among(u, K))
        BY <3>3, <3>4, <3>5, <3>6, <3>7
      <3>. QED
        BY <3>8 DEF Grouped, f, g
    <2>. QED
      BY <2>1, <2>2
  <1>4. \A K \in SUBSET Instruments : K \in P
    <2>. HIDE DEF P
    <2>. QED
      BY <1>1, <1>3, SubsetInduction
  <1>5. Among(u, Instruments) = FilledBy(fill, u)
    <2>1. \A i \in Intents : Wrote[i].instrument \in Instruments
      <3>1. \A i \in Intents : Wrote[i] \in Contents
        BY PaperAssumption
      <3>. QED
        BY <3>1 DEF Contents
    <2>. QED
      BY <2>1 DEF Among, FilledBy
  <1>. QED
    BY <1>4, <1>5 DEF Grouped

-----------------------------------------------------------------------------
(***************************************************************************)
(* The standing is the starting cash and the cash effects recorded since.  *)
(***************************************************************************)
Earned(f, u) == Total(Effects(f), FilledBy(f, u))

CashHolds == \A u \in Users : cash[u] = account[u].starting + Earned(fill, u)

\* The fills g are the fills f and that of i.
Adds(f, g, i) ==
    /\ f \in [Intents -> FillRows] /\ g \in [Intents -> FillRows] /\ i \in Intents
    /\ f[i].session = 0 /\ g[i].session # 0
    /\ \A j \in Intents : j # i => g[j] = f[j]

\* It moves its owner's sum by its effect, and no other.
Moves(f, g, i, u) ==
    /\ Earned(f, u) \in Int
    /\ Earned(g, u) = Earned(f, u) + (IF Wrote[i].user = u THEN g[i].effect ELSE 0)

\* One more fill does that.
LEMMA OneFillMore == \A f, g, i, u : Adds(f, g, i) => Moves(f, g, i, u)
  <1> SUFFICES ASSUME NEW f, NEW g, NEW i, NEW u, Adds(f, g, i) PROVE Moves(f, g, i, u)
    OBVIOUS
  <1>0. /\ f \in [Intents -> FillRows] /\ g \in [Intents -> FillRows] /\ i \in Intents
        /\ f[i].session = 0 /\ g[i].session # 0
        /\ \A j \in Intents : j # i => g[j] = f[j]
    BY DEF Adds
  <1>. USE <1>0
  <1> DEFINE F == FilledBy(f, u)
             e == Effects(f)
             h == Effects(g)
  <1>1. F \in SUBSET Intents /\ i \notin F /\ IsFiniteSet(F)
    BY EffectsAddUp, FS_Subset DEF FilledBy
  <1>2. /\ Numbers(e, F) /\ Total(e, F) \in Int
        /\ \A s \in SUBSET Intents : \A x \in s : Total(h, s) = h[x] + Total(h, s \ {x})
        /\ h[i] = g[i].effect /\ h[i] \in Int
    BY <1>1, EffectsAddUp DEF Numbers, SumFacts, Effects
  <1>3. \A x \in F : e[x] = h[x]
    BY <1>1 DEF Effects
  <1>. HIDE DEF e, h, F
  <1>4. Total(e, F) = Total(h, F)
    BY <1>1, <1>2, <1>3, TotalsAgree
  <1>5. CASE Wrote[i].user = u
    <2> DEFINE G == FilledBy(g, u)
    <2>1. G \in SUBSET Intents /\ i \in G /\ G \ {i} = F
      BY <1>5 DEF FilledBy, F
    <2>2. Total(h, G) = h[i] + Total(h, F)
      BY <1>2, <2>1
    <2>3. Total(h, G) = Total(e, F) + h[i]
      BY <1>2, <1>4, <2>2
    <2>. QED
      BY <1>2, <1>5, <2>3 DEF e, h, F, Earned, Moves
  <1>6. CASE Wrote[i].user # u
    <2>1. FilledBy(g, u) = F
      BY <1>6 DEF FilledBy, F
    <2>. QED
      BY <1>2, <1>4, <1>6, <2>1 DEF e, h, F, Earned, Moves
  <1>. QED
    BY <1>5, <1>6

\* Nothing but the opening of an account and the recording of a fill moves cash.
LEMMA CashInit == Init => CashHolds
  <1> SUFFICES ASSUME Init PROVE CashHolds
    OBVIOUS
  <1>0. TypeOK
    BY TypeInit
  <1>1. fill \in [Intents -> FillRows]
    BY <1>0 DEF TypeOK
  <1>2. ASSUME NEW u \in Users
        PROVE  cash[u] = account[u].starting + Earned(fill, u)
    <2>1. FilledBy(fill, u) = {}
      BY DEF Init, FilledBy, NoFill
    <2>2. Total(Effects(fill), {}) = 0
      BY <1>1, EffectsAddUp DEF SumFacts
    <2>3. cash[u] = 0 /\ account[u].starting = 0
      BY DEF Init, NoAccount
    <2>. QED
      BY <2>1, <2>2, <2>3 DEF Earned
  <1>. QED
    BY <1>2 DEF CashHolds

LEMMA CashStep == IInv /\ CashHolds /\ [Next]_vars => CashHolds'
  <1> SUFFICES ASSUME IInv, CashHolds, [Next]_vars PROVE CashHolds'
    OBVIOUS
  <1>0. TypeOK /\ TypeOK' /\ SnapshotHolds /\ OrdersComeFromActedIntents /\ FilledOrdersHaveFills
    <2>1. IInv'
      BY InvStep
    <2>. QED
      BY <2>1 DEF IInv
  <1>1. fill \in [Intents -> FillRows] /\ fill' \in [Intents -> FillRows]
    BY <1>0 DEF TypeOK
  <1>2. CASE cash' = cash /\ account' = account /\ fill' = fill
    BY <1>2 DEF CashHolds
  <1>3. ASSUME NEW v \in Users, NEW amount \in StartingCash, NEW c \in Currencies, Open(v, amount, c)
        PROVE  CashHolds'
    <2>1. \A i \in Intents : fill[i].session # 0 => Wrote[i].user # v
      BY <1>0, <1>3 DEF Open, OrdersComeFromActedIntents, FilledOrdersHaveFills
    <2>2. FilledBy(fill, v) = {}
      BY <2>1 DEF FilledBy
    <2>3. Total(Effects(fill), {}) = 0
      BY <1>1, EffectsAddUp DEF SumFacts
    <2>4. fill' = fill
      BY <1>3 DEF Open
    <2>5. cash'[v] = amount /\ account'[v].starting = amount /\ amount \in Nat
      BY <1>0, <1>3, PaperAssumption DEF Open, TypeOK
    <2>6. \A u \in Users : u # v => cash'[u] = cash[u] /\ account'[u] = account[u]
      BY <1>0, <1>3 DEF Open, TypeOK
    <2>7. ASSUME NEW u \in Users
          PROVE  cash'[u] = account'[u].starting + Earned(fill, u)
      <3>1. CASE u = v
        BY <2>2, <2>3, <2>5, <3>1 DEF Earned
      <3>2. CASE u # v
        BY <2>6, <3>2 DEF CashHolds
      <3>. QED
        BY <3>1, <3>2
    <2>. QED
      BY <2>4, <2>7 DEF CashHolds
  <1>4. ASSUME RecordFill, ~UNCHANGED <<fill, cash>> PROVE CashHolds'
    <2> DEFINE i == Head(queue)
               row == [session |-> read.session, open |-> read.open, effect |-> read.effect,
                       observed |-> read.observed, at |-> FillsRecorded]
               owner == Wrote[i].user
    <2>1. step = "settle" /\ i \in Intents /\ owner \in Users
      BY <1>0, <1>4, HeadOfQueue, WroteType DEF RecordFill
    <2>2. /\ fill[i].session = 0 /\ read.session > order[i].placed
          /\ fill' = [fill EXCEPT ![i] = row]
          /\ cash' = [cash EXCEPT ![owner] = @ + read.effect]
          /\ account' = account
      BY <1>4 DEF RecordFill
    <2>3. read.session \in Nat /\ read.effect \in Int /\ order[i].placed \in Nat
      <3>1. read \in Readings /\ order[i] \in OrderRows
        BY <1>0, <2>1 DEF TypeOK
      <3>. HIDE DEF i
      <3>. QED
        BY <3>1, PaperAssumption DEF Readings, OrderRows
    <2>4. read.session # 0
      BY <2>2, <2>3
    <2>5. /\ fill'[i].session # 0 /\ fill'[i].effect = read.effect
          /\ \A j \in Intents : j # i => fill'[j] = fill[j]
      BY <1>1, <2>1, <2>2, <2>4
    <2>6. \A u \in Users : cash[u] \in Int /\ account[u].starting \in Nat
      <3>1. \A u \in Users : cash[u] \in Int /\ account[u] \in AccountRows
        BY <1>0 DEF TypeOK
      <3>2. \A a \in AccountRows : a.starting \in StartingCash \cup {0}
        BY DEF AccountRows, NoAccount
      <3>3. \A s \in StartingCash \cup {0} : s \in Nat
        BY PaperAssumption
      <3>. QED
        BY <3>1, <3>2, <3>3
    <2>7. /\ cash'[owner] = cash[owner] + read.effect
          /\ \A u \in Users : u # owner => cash'[u] = cash[u]
      BY <1>0, <2>1, <2>2 DEF TypeOK
    <2>. HIDE DEF i, row
    <2>9. Adds(fill, fill', i)
      BY <1>1, <2>1, <2>2, <2>5 DEF Adds
    <2>8. ASSUME NEW u \in Users
          PROVE  cash'[u] = account'[u].starting + Earned(fill', u)
      <3> DEFINE before == Earned(fill, u)
                 after  == Earned(fill', u)
                 starting == account[u].starting
                 moved == IF owner = u THEN read.effect ELSE 0
      <3>0. Moves(fill, fill', i, u)
        BY <2>9, OneFillMore, Zenon
      <3>1. before \in Int /\ after = before + moved
        BY <2>5, <3>0 DEF Moves
      <3>2. cash[u] = starting + before /\ starting \in Nat /\ account'[u].starting = starting
        BY <2>2, <2>6 DEF CashHolds
      <3>. HIDE DEF before, after, starting
      <3>3. cash'[u] = cash[u] + moved /\ moved \in Int
        BY <2>3, <2>6, <2>7
      <3>. HIDE DEF moved
      <3>4. cash'[u] = starting + after
        BY <3>1, <3>2, <3>3
      <3>. QED
        BY <3>2, <3>4 DEF after
    <2>. QED
      BY <2>8 DEF CashHolds
  <1>5. CASE UNCHANGED vars
    BY <1>2, <1>5 DEF vars
  <1>6. CASE Person
    BY <1>2, <1>3, <1>6
    DEF Person, Record, Cancel, BeginPromote, BeginSettle, CommitPromote, CommitSettle, tables
  <1>7. CASE Market \/ StartPass \/ Restart
    BY <1>2, <1>7 DEF Market, ObserveBar, StoreRate, Tick, StartPass, Restart, tables
  <1>8. CASE ReadBar \/ ReadRate \/ ReadStanding
    <2>1. UNCHANGED tables
      BY <1>8, Zenon DEF ReadBar, ReadRate, ReadStanding
    <2>. QED
      BY <1>2, <2>1 DEF tables
  <1>9. CASE MarkUnfillable
    BY <1>2, <1>9 DEF MarkUnfillable
  <1>10. CASE RecordFill /\ UNCHANGED <<fill, cash>>
    BY <1>2, <1>10 DEF RecordFill
  <1>. QED
    BY <1>4, <1>5, <1>6, <1>7, <1>8, <1>9, <1>10 DEF Next, FillStep

\* With it the figures shown come to the cash.
LEMMA StandingReconciles == TypeOK /\ CashHolds => AccountReconciles
  <1> SUFFICES ASSUME TypeOK, CashHolds, NEW u \in Users
               PROVE  cash[u] = account[u].starting + MapThenSumSet(LAMBDA k : Shown(u, k), Instruments)
    BY Zenon DEF AccountReconciles, Shown
  <1>1. fill \in [Intents -> FillRows]
    BY DEF TypeOK
  <1> DEFINE sum == MapThenSumSet(LAMBDA k : Shown(u, k), Instruments)
  <1>2. sum = Earned(fill, u)
    <2>1. sum = Total(ShownBy(u), Instruments)
      BY <1>1, ShownAddsUp, Zenon
    <2>. HIDE DEF sum
    <2>. QED
      BY <1>1, <2>1, ShownIsEarned DEF Earned
  <1>. HIDE DEF sum
  <1>3. cash[u] = account[u].starting + sum
    BY <1>2 DEF CashHolds
  <1>. QED
    BY <1>3, Zenon DEF sum

\* View reconciles to the last unit with the cash the pass decides by, however
\* the fills' sessions are ordered, however a sale's rounded share splits a lot,
\* and even when a late bar puts a sale before its purchase.
THEOREM FiguresReconcile == Spec => []AccountReconciles
  <1>1. Init => IInv /\ CashHolds
    BY InvInit, CashInit
  <1>2. (IInv /\ CashHolds) /\ [Next]_vars => (IInv /\ CashHolds)'
    BY InvStep, CashStep
  <1>3. IInv /\ CashHolds => AccountReconciles
    BY StandingReconciles DEF IInv
  <1>. QED
    BY <1>1, <1>2, <1>3, PTL DEF Spec
=============================================================================
