---------------------------- MODULE PaperOrders -----------------------------
(***************************************************************************)
(* Orders and simulated fills of services/paper-execution: what a risk     *)
(* decision lets the code construct, and what the position book is given.  *)
(* Sizes are integer units of equity.  Prices are integers in units of     *)
(* 1 / BpsScale of a tick, so a cost in basis points divides exactly.      *)
(***************************************************************************)
EXTENDS Integers

BpsScale == 10000

\* create_order_from_decision raises unless the decision is one of these.
Actionable(d) == d.decision \in {"APPROVE", "REDUCE"}

\* Mutant of OrderSizes: the sizing adjustment is not applied.
OrderSizesAsRequested(c, d, rounding) == {c.size}

\* What the order may carry; read under Actionable.  A REDUCE multiplies the
\* request by the fraction sizing / requested, both rounded: the product is
\* positive and no more than the request, since the fraction is in (0, 1], but
\* it may miss sizing on either side.
OrderSizes(c, d, rounding) ==
    IF d.decision = "REDUCE"
    THEN {size \in 1..c.size : size - d.sizing \in -rounding..rounding}
    ELSE {c.size}

\* FillSimulator.simulate_fill: a buy pays the cost, anything else is paid less it.
FillPrice(direction, marketPrice, costBps) ==
    marketPrice * (BpsScale + (IF direction = "LONG" THEN costBps ELSE -costBps))

\* PositionBook.apply_fill: whatever is not LONG is booked as a sale.
SignedSize(direction, size) == IF direction = "LONG" THEN size ELSE -size

=============================================================================
