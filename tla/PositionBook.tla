---------------------------- MODULE PositionBook ----------------------------
(***************************************************************************)
(* PositionBook of services/paper-execution: weighted-average-entry        *)
(* positions built from a stream of fills, the ledger the fills are        *)
(* recorded in, its replay, and the reconciliation of the two.             *)
(*                                                                         *)
(* Sizes and prices are integers, entries, returns and PnL are fractions   *)
(* of them; Rounded is what the float addition of two sizes returns, the   *)
(* identity where the accounting itself is checked.                        *)
(***************************************************************************)
EXTENDS PaperOrders, Fractions, SequencesExt

CONSTANTS
    Symbols,            \* traded symbols
    Orders,             \* the orders that may be filled
    Prices,             \* market prices, of the orders and for marking
    CostBps,            \* half the spread plus the slippage of the simulator
    Rounded(_),         \* the float nearest to the exact sum of two sizes
    MaxFills,           \* bound on the fills of one behaviour
    MaxTime,            \* bound on the bar timestamps
    MaxFaults           \* bound on fills missed or applied twice

Positive == Nat \ {0}

ASSUME PositionBookAssumption ==
    /\ IsFiniteSet(Symbols)
    /\ Prices \subseteq Positive
    /\ Orders \subseteq [symbol : Symbols, direction : {"LONG", "SHORT"},
                        size : Positive, market : Prices]
    /\ CostBps \in 0..(BpsScale - 1)
    /\ {MaxFills, MaxTime, MaxFaults} \subseteq Nat

VARIABLES
    ledger,     \* the fills table, in insertion order
    live,       \* the incrementally maintained PositionBook
    deliveries  \* for each fill of the ledger, how often `live' was given it

vars == <<ledger, live, deliveries>>

\* simulate_fill: the Fill of an order at its market price, on a given bar.
SimulateFill(o, time) ==
    [symbol |-> o.symbol, direction |-> o.direction, size |-> o.size, time |-> time,
     price |-> FillPrice(o.direction, o.market, CostBps)]

Fills == {SimulateFill(o, time) : o \in Orders, time \in 0..MaxTime}

\* Position, and the absence of a key in the positions dict.
Closed == [net |-> 0, entry |-> Whole(0), realized |-> Whole(0)]
Opened(signed, price) == [net |-> signed, entry |-> Whole(price), realized |-> Whole(0)]

EmptyBook ==
    [positions |-> [s \in Symbols |-> Closed], realized |-> Whole(0), returns |-> << >>]

HasPosition(book, s) == book.positions[s].net # 0

-----------------------------------------------------------------------------
(* apply_fill                                                              *)

SameDirection(x, y) == (x > 0 /\ y > 0) \/ (x < 0 /\ y < 0)

\* Mutant of Averaged: the plain mean of the entry and the fill price.
AveragedUnweighted(p, signed, price) ==
    [p EXCEPT !.net = Rounded(p.net + signed),
              !.entry = Share(Plus(p.entry, Whole(price)), 2)]

\* A fill in the direction of the position averages into its entry price.
Averaged(p, signed, price) ==
    LET size == Rounded(p.net + signed)
        paid == Plus(Times(Magnitude(p.net), p.entry), Whole(price * Magnitude(signed)))
    IN  [p EXCEPT !.net = size, !.entry = Share(paid, Magnitude(size))]

PositionSign(p) == IF p.net > 0 THEN 1 ELSE -1

\* The PnL of the portion a fill in the other direction closes.
RealizedBy(p, signed, price) ==
    LET closing == IF Magnitude(signed) < Magnitude(p.net)
                   THEN Magnitude(signed) ELSE Magnitude(p.net)
    IN  Times(closing * PositionSign(p), Minus(Whole(price), p.entry))

TradeReturn(p, price) ==
    Times(PositionSign(p), Over(Minus(Whole(price), p.entry), p.entry))

\* Mutant of Reduced: a flipped position keeps the entry of the side it left.
ReducedKeepingEntry(p, signed, price) ==
    LET size == Rounded(p.net + signed)
    IN  IF size = 0 THEN Closed
        ELSE [net |-> size, entry |-> p.entry,
              realized |-> Plus(p.realized, RealizedBy(p, signed, price))]

\* What is left of a position after a fill in the other direction: a larger
\* fill flips it at the fill price, and an exact zero deletes it.
Reduced(p, signed, price) ==
    LET size == Rounded(p.net + signed)
        flip == Magnitude(signed) > Magnitude(p.net)
    IN  IF size = 0 THEN Closed
        ELSE [net |-> size,
              entry |-> IF flip THEN Whole(price) ELSE p.entry,
              realized |-> Plus(p.realized, RealizedBy(p, signed, price))]

ApplyFill(book, f) ==
    LET p      == book.positions[f.symbol]
        signed == SignedSize(f.direction, f.size)
    IN  IF ~HasPosition(book, f.symbol)
        THEN [book EXCEPT !.positions[f.symbol] = Opened(signed, f.price)]
        ELSE IF SameDirection(p.net, signed)
        THEN [book EXCEPT !.positions[f.symbol] = Averaged(p, signed, f.price)]
        ELSE [positions |-> [book.positions EXCEPT ![f.symbol] = Reduced(p, signed, f.price)],
              realized  |-> Plus(book.realized, RealizedBy(p, signed, f.price)),
              returns   |-> Append(book.returns, TradeReturn(p, f.price))]

\* total_unrealized_pnl at one price per symbol.
UnrealizedPnl(book, mark) ==
    Total([s \in {t \in Symbols : HasPosition(book, t)} |->
              Times(book.positions[s].net, Minus(Whole(mark[s]), book.positions[s].entry))])

\* replay_positions
Replay(fills) == FoldLeft(ApplyFill, EmptyBook, fills)

\* Mutant of Reconcile: looks only at the symbols the live book holds.
ReconcileHeld(book, fills) ==
    {s \in Symbols : HasPosition(book, s)
                        /\ book.positions[s].net # Replay(fills).positions[s].net}

\* reconcile: the symbols whose net size in `book' is not the replayed one.
Reconcile(book, fills) ==
    LET replayed == Replay(fills)
    IN  {s \in Symbols : book.positions[s].net # replayed.positions[s].net}

-----------------------------------------------------------------------------

Init ==
    /\ ledger = << >>
    /\ live = EmptyBook
    /\ deliveries = << >>

\* The ledger is written once per fill.  A fill's timestamp is the last bar's,
\* so it repeats until a new bar has closed.
Record(f) ==
    /\ Len(ledger) < MaxFills
    /\ ledger # << >> => f.time - Last(ledger).time \in {0, 1}
    /\ ledger' = Append(ledger, f)

\* A fill is recorded and applied to the live book.
BookFill(f) ==
    /\ Record(f)
    /\ live' = ApplyFill(live, f)
    /\ deliveries' = Append(deliveries, 1)

\* The drift reconcile() is written for, bounded by MaxFaults: a fill that is
\* recorded and never applied, and a fill that is applied again.
Faults == {i \in DOMAIN deliveries : deliveries[i] # 1}

MissFill(f) ==
    /\ Cardinality(Faults) < MaxFaults
    /\ Record(f)
    /\ deliveries' = Append(deliveries, 0)
    /\ UNCHANGED live

RepeatFill ==
    /\ ledger # << >> /\ Last(deliveries) = 1
    /\ Cardinality(Faults) < MaxFaults
    /\ live' = ApplyFill(live, Last(ledger))
    /\ deliveries' = [deliveries EXCEPT ![Len(ledger)] = 2]
    /\ UNCHANGED ledger

Next ==
    \/ \E f \in Fills : BookFill(f) \/ MissFill(f)
    \/ RepeatFill

Spec == Init /\ [][Next]_vars

-----------------------------------------------------------------------------
(* Properties                                                              *)

\* The book is a cash account in disguise: its net sizes, and its realized
\* PnL less what its open positions cost, move as if every fill simply bought
\* or sold at its price.  Averaging, partial closes, flips and the deletion
\* of a closed position never create or lose a unit of either.
NetSizes(book) == [s \in Symbols |-> book.positions[s].net]

CashOf(book) ==
    Minus(book.realized,
          Total([s \in Symbols |-> Times(book.positions[s].net, book.positions[s].entry)]))

Account == INSTANCE CashAccount WITH net <- NetSizes(live), cash <- CashOf(live)

BookIsACashAccount == Account!Spec

\* A position's entry is an average of what its own side was filled at: it
\* never leaves the range of the fills in the position's direction, and a
\* closed position leaves nothing behind.
EntryWithinPricesPaid ==
    \A s \in Symbols :
        LET p    == live.positions[s]
            side == {f \in ToSet(ledger) :
                        f.symbol = s /\ SameDirection(SignedSize(f.direction, f.size), p.net)}
        IN  IF ~HasPosition(live, s) THEN p = Closed
            ELSE /\ \E f \in side : AtMost(Whole(f.price), p.entry)
                 /\ \E f \in side : AtMost(p.entry, Whole(f.price))

\* The statistics agree with the money: a book that realized a profit closed
\* some trade at a gain, and one that realized a loss closed one at a loss.
ReturnsExplainRealized ==
    /\ live.realized.n > 0 => \E i \in DOMAIN live.returns : live.returns[i].n > 0
    /\ live.realized.n < 0 => \E i \in DOMAIN live.returns : live.returns[i].n < 0

\* The simulator's costs are always paid: whatever was bought, sold or
\* flipped while each market stood at one price, the book marked at it is
\* down by exactly the cost of every fill.
CostsArePaid ==
    \A market \in [Symbols -> Prices] :
        (\A i \in DOMAIN ledger :
            ledger[i].price = FillPrice(ledger[i].direction, market[ledger[i].symbol], CostBps))
        => LET paid == [i \in DOMAIN ledger |->
                    deliveries[i] * ledger[i].size * market[ledger[i].symbol] * CostBps]
           IN  Plus(live.realized,
                    UnrealizedPnl(live, [s \in Symbols |-> market[s] * BpsScale]))
                   = Whole(-SumFunction(paid))

\* The book can be told from its fills, part by part, whatever sequence of
\* opening, adding, partly closing, flipping and closing fills made it.
BookFollowsItsFills == EntryWithinPricesPaid /\ ReturnsExplainRealized /\ CostsArePaid

\* The orders fetch_all_fills may return the ledger in: ascending timestamps,
\* and any order among fills of the same bar.
ReplayOrders ==
    LET rows == DOMAIN ledger
    IN  { [i \in rows |-> ledger[p[i]]] : p \in
            { q \in [rows -> rows] : \A i, j \in rows :
                i < j => q[i] # q[j] /\ ledger[q[i]].time <= ledger[q[j]].time } }

\* reconcile() does what it is for, in whatever order the ledger comes back:
\* without a fault it reports nothing, and one missed or repeated application
\* is reported, for its symbol and only that one, however many fills came
\* before and after it.
ReconcileFindsTheFault ==
    Cardinality(Faults) <= 1 =>
        \A fills \in ReplayOrders :
            Reconcile(live, fills) = {ledger[i].symbol : i \in Faults}

-----------------------------------------------------------------------------
(* A claim of a test the code does not meet                                *)

\* test_positions.py:63 "fully closing a position removes it from the book":
\* once as much was sold as was bought, the book holds no position.  The
\* code compares a float sum with zero.
FullyClosedIsRemoved ==
    \A s \in Symbols :
        LET signed == [i \in DOMAIN ledger |->
                        IF ledger[i].symbol = s
                        THEN SignedSize(ledger[i].direction, ledger[i].size) ELSE 0]
        IN  SumFunction(signed) = 0 => ~HasPosition(live, s)

=============================================================================
