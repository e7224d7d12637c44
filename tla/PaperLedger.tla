---------------------------- MODULE PaperLedger -----------------------------
(***************************************************************************)
(* What the paper-trading tables promise their readers: a ledger of fills  *)
(* that only ever grows by whole batches, at most one fill per symbol and  *)
(* none larger than the requested size, each batch with the one snapshot   *)
(* that accounts for it on top of a ledger as it stood at some time.       *)
(***************************************************************************)
EXTENDS PaperOrders, Sequences, Functions

CONSTANTS
    Symbols,
    Requested       \* REQUESTED_SIZE_PCT

VARIABLES
    fills,          \* the fills table
    snapshots       \* the positions of the portfolio_snapshots, as committed

\* Net size by symbol of a set of fills: what replay_positions reconstructs.
NetOf(F) ==
    [s \in Symbols |->
        SumFunction([f \in {g \in F : g.symbol = s} |-> SignedSize(f.direction, f.size)])]

Init ==
    /\ fills = {}
    /\ snapshots = << >>

Publish ==
    LET batch == fills' \ fills
    IN  /\ fills \subseteq fills'
        /\ \A f \in batch : f.size \in 1..Requested
        /\ \A f, g \in batch : f.symbol = g.symbol => f = g
        /\ \E base \in SUBSET fills : snapshots' = Append(snapshots, NetOf(base \cup batch))

Spec == Init /\ [][Publish]_<<fills, snapshots>>

=============================================================================
