---------------------------- MODULE CashAccount -----------------------------
(***************************************************************************)
(* What a position book promises: an account that holds a signed quantity  *)
(* of each symbol and pays for it, with no notion of entry prices, closed  *)
(* portions or flips.  Cash may be negative; marked to market, cash plus   *)
(* holdings is the total PnL.                                              *)
(***************************************************************************)
EXTENDS Fractions

CONSTANTS Symbols, Orders, CostBps

VARIABLES
    net,        \* quantity held of each symbol
    cash        \* what the account has received less what it has paid

INSTANCE PaperOrders

accountVars == <<net, cash>>

Init ==
    /\ net = [s \in Symbols |-> 0]
    /\ cash = Whole(0)

\* Buy or sell the size of an order at the simulator's price.
Exchange(o) ==
    LET signed == SignedSize(o.direction, o.size)
    IN  /\ net' = [net EXCEPT ![o.symbol] = @ + signed]
        /\ cash' = Whole(cash.n - signed * FillPrice(o.direction, o.market, CostBps))

Next == \E o \in Orders : Exchange(o)

Spec == Init /\ [][Next]_accountVars

=============================================================================
