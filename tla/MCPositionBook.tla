--------------------------- MODULE MCPositionBook ---------------------------
(***************************************************************************)
(* Instances of PositionBook: exact sums, where the accounting itself is   *)
(* checked, and sums rounded to a short significand, where zero is not.    *)
(***************************************************************************)
EXTENDS PositionBook

CONSTANTS btc, eth

Order(s, direction, size, market) ==
    [symbol |-> s, direction |-> direction, size |-> size, market |-> market]

\* Every kind of fill in one symbol, beside a purchase that only tells
\* whether the books of two symbols are kept apart.
MCOrders ==
    { Order(btc, d, n, p) : d \in {"LONG", "SHORT"}, n \in {1, 2}, p \in {2, 3} }
        \cup { Order(eth, "LONG", 1, 2) }

\* The pipeline's one requested size, 0.02, cut to three significant bits.
MCSameSize == { Order(btc, d, 5, 1) : d \in {"LONG", "SHORT"} }

Exact(x) == x

\* Round to nearest, ties to even, with a significand of `bits' bits.
RoundedTo(bits, x) ==
    LET n     == Magnitude(x)
        ulp   == CHOOSE u \in {2^k : k \in 0..10} :
                    n < u * 2^bits /\ (u = 1 \/ n >= (u \div 2) * 2^bits)
        below == (n \div ulp) * ulp
        above == below + ulp
        near  == IF 2 * (n - below) < ulp \/ (2 * (n - below) = ulp
                                              /\ (below \div ulp) % 2 = 0)
                 THEN below ELSE above
    IN  IF x < 0 THEN -near ELSE near

ThreeBits(x) == RoundedTo(3, x)

=============================================================================
