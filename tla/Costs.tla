------------------------------- MODULE Costs -------------------------------
(***************************************************************************)
(* What one execution costs and what it does to cash: the exact decimal    *)
(* arithmetic of internal/decimal and the cost model of internal/costs.    *)
(*                                                                         *)
(* A decimal is an integer scaled by Scale (10^12 in the code).  Every     *)
(* product and quotient is rounded half to even as soon as it is formed.   *)
(***************************************************************************)
EXTENDS Integers

CONSTANT Scale

ASSUME ScaleAssumption == Scale \in Nat \ {0}

Magnitude(n) == IF n < 0 THEN -n ELSE n

Larger(a, b) == IF a >= b THEN a ELSE b

\* Fault: ties go up.
RoundHalfUp(n, d) == IF 2 * (n % d) >= d THEN (n \div d) + 1 ELSE n \div d

(***************************************************************************)
(* Round the magnitude of the quotient to the nearest integer, a tie to    *)
(* the even one, then put the sign back.                                   *)
(***************************************************************************)
RoundHalfEven(n, d) ==
    LET q     == n \div d
        twice == 2 * (n % d)
    IN  IF twice > d \/ (twice = d /\ q % 2 = 1) THEN q + 1 ELSE q

DivideHalfEven(n, d) ==
    LET q == RoundHalfEven(Magnitude(n), Magnitude(d))
    IN  IF (n < 0) # (d < 0) THEN -q ELSE q

Mul(a, b) == DivideHalfEven(a * b, Scale)

Div(a, b) == DivideHalfEven(a * Scale, b)

(***************************************************************************)
(* A cost model: slippage, spread and brokerage are factors, the brokerage *)
(* minimum is money.                                                       *)
(***************************************************************************)
FromBasisPoints(slippageBps, spreadBps, brokerageBps, minimum) ==
    [slippage |-> Div(slippageBps, 10000 * Scale),
     spread   |-> Div(spreadBps, 10000 * Scale),
     rate     |-> Div(brokerageBps, 10000 * Scale),
     minimum  |-> minimum]

\* Fault: the rate is applied the other way round.
ToAccountingMultiplied(amount, rate, converted) ==
    IF converted THEN Mul(amount, rate) ELSE amount

ToAccounting(amount, rate, converted) ==
    IF converted THEN Div(amount, rate) ELSE amount

(***************************************************************************)
(* Price one execution.  A spread is charged only when a currency was      *)
(* crossed, on the consideration with the slippage added (buy) or taken    *)
(* off (sell).                                                             *)
(***************************************************************************)
Price(model, direction, quantity, price, rate, converted) ==
    LET listed    == Mul(price, quantity)
        gross     == ToAccounting(listed, rate, converted)
        slippage  == ToAccounting(Mul(listed, model.slippage), rate, converted)
        base      == IF direction = "sell" THEN gross - slippage ELSE gross + slippage
        spread    == IF converted THEN Mul(base, model.spread) ELSE 0
        brokerage == Larger(Mul(gross, model.rate), model.minimum)
    IN  [gross      |-> gross,
         costs      |-> slippage + spread + brokerage,
         cashEffect |-> IF direction = "buy"
                        THEN -(gross + slippage + spread + brokerage)
                        ELSE gross - slippage - spread - brokerage]
=============================================================================
