------------------------------ MODULE MCCosts ------------------------------
(***************************************************************************)
(* The arithmetic of Costs against reference definitions, over bounded     *)
(* inputs: one state per input.                                            *)
(***************************************************************************)
EXTENDS Costs

CONSTANTS
    MaxOperand,   \* bound on the numerator and the denominator of a quotient
    MaxQuantity, MaxPrice,
    Rates         \* conversion rates, scaled

VARIABLE input

Start == [op |-> "start"]

Quotients == [op: {"divide"}, n: -MaxOperand..MaxOperand,
              d: (-MaxOperand..MaxOperand) \ {0}]

\* Costs stated in basis points, and a minimum that binds for small trades only.
Models == {FromBasisPoints(300 * Scale, 700 * Scale, 200 * Scale, 2),
           FromBasisPoints(1000 * Scale, 0, 500 * Scale, 30)}

Executions == [op: {"price"}, model: Models, direction: {"buy", "sell"},
               quantity: 1..MaxQuantity, price: 1..MaxPrice,
               rate: Rates, converted: BOOLEAN]

InputInit == input = Start

DivideAny == input = Start /\ input' \in Quotients

PriceAny == input = Start /\ input' \in {x \in Executions : x.converted \/ x.rate = Scale}

InputNext == DivideAny \/ PriceAny

InputSpec == InputInit /\ [][InputNext]_input

-----------------------------------------------------------------------------
\* divideHalfEven returns the nearest integer to the exact quotient, and of two
\* equally near ones the even one, whatever the operands' signs.
HalfEvenIsNearest ==
    input.op = "divide" =>
        LET q == DivideHalfEven(input.n, input.d)
            error == 2 * Magnitude(input.n - q * input.d)
        IN  \/ error < Magnitude(input.d)
            \/ error = Magnitude(input.d) /\ q % 2 = 0

Priced == Price(input.model, input.direction, input.quantity, input.price,
                input.rate, input.converted)

\* The exact, unrounded cash effect of an execution, in units of
\* 1 / (rate * Scale^2): consideration, slippage, spread and brokerage.
ExactEffect ==
    LET x         == input
        rate      == IF x.converted THEN x.rate ELSE Scale
        whole     == x.price * x.quantity
        gross     == whole * Scale * Scale
        slippage  == whole * x.model.slippage * Scale
        sign      == IF x.direction = "buy" THEN 1 ELSE -1
        spread    == IF x.converted
                     THEN (whole * Scale + sign * whole * x.model.slippage) * x.model.spread ELSE 0
        brokerage == Larger(whole * x.model.rate * Scale, x.model.minimum * rate * Scale * Scale)
    IN  -sign * gross - slippage - spread - brokerage

\* Six roundings along the way move the cash effect of an execution by less than
\* three units of the last place from the exact figure: no cost is forgotten,
\* charged twice or put on the wrong side of the consideration.
PricingIsAccurate ==
    input.op = "price" =>
        LET unit == (IF input.converted THEN input.rate ELSE Scale) * Scale * Scale
        IN  Magnitude(Priced.cashEffect * unit - ExactEffect) < 3 * unit
=============================================================================
