---------------------------- MODULE MCBacktests ----------------------------
(***************************************************************************)
(* Two instruments, one listed in the accounting currency and one in       *)
(* another, over five sessions of two months. The second instrument's      *)
(* exchange may be closed on any session, longer than the window too; the  *)
(* first one's bars may be missing or, on session 2, the fallback          *)
(* provider's. Beside the runs, from a state in which one would be         *)
(* refused, the arithmetic they price their trades with is applied to      *)
(* every bounded input of MCCosts.                                         *)
(***************************************************************************)
EXTENDS Backtests, MCCosts

TwoCurrencies == (1 :> "EUR") @@ (2 :> "SEK")

Periods == [daily |-> <<1, 2, 3, 4, 5>>, monthly |-> <<1, 1, 1, 2, 2>>]

Costly == FromBasisPoints(100 * Scale, 200 * Scale, 100 * Scale, 2 * Scale)

Opens == << <<1000, 900, 1200, 700, 1100>>, <<3000, 3300, 2700, 3600, 2400>> >>

Closes == << <<1100, 1000, 800, 900, 1000>>, <<3200, 2900, 3100, 2500, 3000>> >>

BarOf(i, s, provider) ==
    IF provider = "none" THEN NoBar
    ELSE [provider |-> provider, open |-> Opens[i][s], close |-> Closes[i][s], observed |-> 1]

\* A strategy computes a signal for a session an instrument has a bar of.
SignalOf(provider, score) ==
    IF provider = "none" THEN NoSignal
    ELSE [score |-> IF score > 0 THEN score ELSE 0, scored |-> score > 0, present |-> TRUE, computed |-> 1]

First ==
    {p \in [Sessions -> {"none", "primary", "fallback"}] :
        /\ p[1] = "primary" /\ p[5] = "primary"
        /\ p[3] # "fallback" /\ p[4] # "fallback"}

\* The second instrument's exchange may stay closed longer than the window, so
\* that a holding has no price any more.
Second ==
    {p \in [Sessions -> {"none", "primary"}] :
        /\ p[2] = "primary" \/ p[4] = "primary"
        /\ p[5] = "none" => p[3] = "none" /\ p[4] = "none"}

MarketOf(a, b, early, late, missing, benchmark, rebalance, sizing) ==
    [bars |-> << [s \in Sessions |-> BarOf(1, s, a[s])], [s \in Sessions |-> BarOf(2, s, b[s])] >>,
     signals |-> << [s \in Sessions |-> SignalOf(a[s], IF s < 4 THEN early[1] ELSE late[1])],
                    [s \in Sessions |-> SignalOf(b[s], IF s < 4 THEN early[2] ELSE late[2])] >>,
     rates |-> [s \in Sessions |-> IF s = missing THEN NoRate ELSE 300],
     benchmark |-> benchmark,
     configuration |-> [sizing |-> sizing, capital |-> 10000, rebalance |-> rebalance]]

Through(provider) == [s \in Sessions |-> provider]

TwoHeldDaily ==
    {MarketOf(a, b, <<2, 1>>, late, missing, {2, 4}, "daily", 2) :
        a \in First, b \in Second, late \in {<<2, 1>>, <<0, 1>>}, missing \in {0, 3}}

Refused == [sizing |-> 0, capital |-> 0, rebalance |-> "daily"]

StoredMarkets ==
    {MarketOf(a, b, early, late, missing, {2, 4}, rebalance, 1) :
        a \in First, b \in Second, early \in {<<2, 1>>, <<1, 2>>},
        late \in {<<2, 1>>, <<0, 1>>}, missing \in {0, 3}, rebalance \in {"daily", "monthly"}}
    \cup TwoHeldDaily
    \cup {MarketOf(Through("fallback"), Through("none"), <<1, 2>>, <<1, 2>>, 0, {}, "monthly", 1)}
    \cup {[MarketOf(Through("primary"), Through("primary"), <<1, 2>>, <<1, 2>>, 0, {}, "daily", 1)
              EXCEPT !.configuration = c] :
             c \in [sizing: {0, 1, 2}, capital: {0, 500, 10000}, rebalance: {"daily", "monthly"}]}

\* A fallback's session that may be replaced, and a signal of a rebalance.
Touched == {<<1, 2>>, <<2, 1>>}

Half(price) == price \div 2

-----------------------------------------------------------------------------
MCInit == Init /\ InputInit

Running == input = Start /\ UNCHANGED input

CheckArithmetic ==
    /\ phase = "requested" /\ market.configuration = Refused /\ changes = 0
    /\ InputNext
    /\ UNCHANGED vars

\* Next, action by action, or the arithmetic.
MCNext ==
    \/ Running /\ ReadConfiguration
    \/ Running /\ LoadBars
    \/ Running /\ StampBars
    \/ Running /\ LoadSignals
    \/ Running /\ LoadRest
    \/ Running /\ Simulate
    \/ Running /\ Write
    \/ Running /\ Fail
    \/ Running /\ \E c \in Changing : Correct(c[1], c[2])
    \/ Running /\ \E c \in Changing : Recompute(c[1], c[2])
    \/ CheckArithmetic

MCSpec == MCInit /\ [][MCNext]_<<vars, input>>
=============================================================================
