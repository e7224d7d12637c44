--------------------------- MODULE PaperPipeline ----------------------------
(***************************************************************************)
(* services/ai-council/run_pipeline.py against its database: each run is   *)
(* one process with one transaction that replays the fills ledger, takes   *)
(* every symbol through regime, strategies, risk gate and paper order, and *)
(* commits its rows with one portfolio snapshot, or nothing at all.  The   *)
(* transaction reads committed rows, a statement at a time, so runs that   *)
(* overlap see each other's fills or not by when they started.             *)
(***************************************************************************)
EXTENDS RiskGate, PaperOrders, Sequences, Functions

CONSTANTS
    Runs,           \* invocations of the script
    SymbolOrder,    \* SYMBOLS: a sequence
    Requested,      \* REQUESTED_SIZE_PCT in units
    Signals,        \* what regime and strategies may make of enough bars
    MinBars,        \* bars classify_regime needs
    MaxBars,        \* bound on the bars of a symbol
    NoSignal        \* no strategy produced a candidate

Symbols == {SymbolOrder[i] : i \in DOMAIN SymbolOrder}

\* A candidate's direction and stop distance; a stop at the entry price gives
\* the distance 0, which CandidateRequest refuses.
ASSUME PaperPipelineAssumption ==
    /\ SymbolOrder \in Seq(Symbols)
    /\ \A i, j \in DOMAIN SymbolOrder : SymbolOrder[i] = SymbolOrder[j] => i = j
    /\ Requested \in Positive
    /\ Signals \subseteq [direction : {"LONG", "SHORT"}, stop : Nat] \cup {NoSignal}
    /\ NoSignal \notin [direction : {"LONG", "SHORT"}, stop : Nat]
    /\ MinBars \in Positive /\ MaxBars \in Nat

\* The constants of run_pipeline.py and the RiskLimits defaults: one request
\* fits an empty account, the placeholder market is in order, and no stop is so
\* far that the risk budget allows less than a unit.
ASSUME PlaceholderAssumption ==
    /\ Requested <= Limits.maxPosition /\ Requested <= Limits.maxAssetExposure
    /\ Requested <= Limits.maxGross /\ Requested <= Limits.maxLeverage
    /\ Requested <= Limits.maxNet
    /\ 1 <= Limits.maxDataAge /\ 5 <= Limits.maxSpread
    /\ \A signal \in Signals \ {NoSignal} : signal.stop <= Limits.maxRiskPerTrade * Scale

VARIABLES
    bars,           \* closed bars stored for each symbol
    db,             \* the committed rows of each table
    snapshots,      \* the committed portfolio_snapshots, in commit order
    clock,          \* orders the snapshots' timestamps
    pc,             \* where each run is
    at,             \* index of the symbol a run takes next
    seen,           \* the ledger a run replayed when it started
    work,           \* the rows a run has inserted and not committed
    priced,         \* the keys of a run's current_prices
    draft           \* the snapshot a run has inserted and not committed

vars == <<bars, db, snapshots, clock, pc, at, seen, work, priced, draft>>

Tables == {"signals", "risk_decisions", "council_narratives", "paper_orders", "fills"}
NoRows == [t \in Tables |-> {}]
NoDraft == [time |-> 0, net |-> [s \in Symbols |-> 0], seen |-> {}]

Ledger == INSTANCE PaperLedger WITH
    fills <- db["fills"], snapshots <- [i \in DOMAIN snapshots |-> snapshots[i].net]

NetOf(F) == Ledger!NetOf(F)

-----------------------------------------------------------------------------

Init ==
    /\ bars = [s \in Symbols |-> 0]
    /\ db = NoRows
    /\ snapshots = << >>
    /\ clock = 0
    /\ pc = [r \in Runs |-> "idle"]
    /\ at = [r \in Runs |-> 1]
    /\ seen = [r \in Runs |-> {}]
    /\ work = [r \in Runs |-> NoRows]
    /\ priced = [r \in Runs |-> {}]
    /\ draft = [r \in Runs |-> NoDraft]

\* market-data stores another closed bar.
NewBar(s) ==
    /\ bars[s] < MaxBars
    /\ bars' = [bars EXCEPT ![s] = @ + 1]
    /\ UNCHANGED <<db, snapshots, clock, pc, at, seen, work, priced, draft>>

\* The first statement: replay_positions(fetch_all_fills(cursor)).
Start(r) ==
    /\ pc[r] = "idle"
    /\ pc' = [pc EXCEPT ![r] = "symbol"]
    /\ seen' = [seen EXCEPT ![r] = db["fills"]]
    /\ UNCHANGED <<bars, db, snapshots, clock, at, work, priced, draft>>

\* The process is gone, with its book and whatever it has not committed.
End(r, outcome) ==
    /\ pc' = [pc EXCEPT ![r] = outcome]
    /\ at' = [at EXCEPT ![r] = 1]
    /\ seen' = [seen EXCEPT ![r] = {}]
    /\ work' = [work EXCEPT ![r] = NoRows]
    /\ priced' = [priced EXCEPT ![r] = {}]
    /\ draft' = [draft EXCEPT ![r] = NoDraft]

\* Mutant of RollBack: autocommit, the rows inserted so far survive.
EndWithoutRollBack(r) ==
    /\ End(r, "rolled_back")
    /\ db' = [t \in Tables |-> db[t] \cup work[r][t]]
    /\ UNCHANGED <<bars, snapshots, clock>>

RollBack(r) ==
    /\ End(r, "rolled_back")
    /\ UNCHANGED <<bars, db, snapshots, clock>>

-----------------------------------------------------------------------------
(* One symbol of the loop                                                  *)

AtSymbol(r) == pc[r] = "symbol" /\ at[r] <= Len(SymbolOrder)

NextSymbol(r) == at' = [at EXCEPT ![r] = @ + 1]

Price(r, s) == priced' = [priced EXCEPT ![r] = @ \cup {s}]

\* "no bars yet ... skipping"
SkipSymbol(r) ==
    /\ AtSymbol(r)
    /\ bars[SymbolOrder[at[r]]] = 0
    /\ NextSymbol(r)
    /\ UNCHANGED <<bars, db, snapshots, clock, pc, seen, work, priced, draft>>

\* classify_regime raises on a short history, CandidateRequest on a stop at
\* the entry price; neither is caught, so the connection rolls back.
Raises(s, signal) ==
    /\ bars[s] > 0
    /\ bars[s] < MinBars \/ (signal # NoSignal /\ signal.stop = 0)

\* Mutant of AbortOnSymbol: a short history is waited for.
AbortOnStopOnly(r) ==
    /\ AtSymbol(r)
    /\ bars[SymbolOrder[at[r]]] >= MinBars
    /\ \E signal \in Signals : Raises(SymbolOrder[at[r]], signal)
    /\ RollBack(r)

AbortOnSymbol(r) ==
    /\ AtSymbol(r)
    /\ \E signal \in Signals : Raises(SymbolOrder[at[r]], signal)
    /\ RollBack(r)

\* PORTFOLIO, MARKET: the placeholder account and market every run is judged in.
NoExposure == [position |-> 0, gross |-> 0, net |-> 0]
PlaceholderHealth == [dailyPnl |-> 0, weeklyPnl |-> 0, drawdown |-> 0, var |-> Unset]
PlaceholderMarket ==
    [killSwitch |-> FALSE, circuitBreaker |-> FALSE, dataAge |-> 1, spread |-> 5]

Request(s, signal) ==
    [symbol |-> s, direction |-> signal.direction, size |-> Requested, stop |-> signal.stop]

Decide(s, signal) ==
    Evaluate(Request(s, signal), NoExposure, PlaceholderHealth, PlaceholderMarket)

Order(r, s, signal, size) ==
    [id |-> <<r, s>>, symbol |-> s, direction |-> signal.direction, size |-> size,
     code |-> Decide(s, signal).decision]

FillOf(order, bar) ==
    [id |-> order.id, symbol |-> order.symbol, direction |-> order.direction,
     size |-> order.size, bar |-> bar]

\* The rows of a symbol with a candidate, in every table they go to.
RowsOf(r, s, signal, size) ==
    LET d     == Decide(s, signal)
        order == Order(r, s, signal, size)
    IN  [t \in Tables |->
            CASE t = "signals" -> {[run |-> r, symbol |-> s, direction |-> signal.direction]}
              [] t = "risk_decisions" ->
                    {[run |-> r, symbol |-> s, decision |-> d.decision, sizing |-> d.sizing,
                      reasons |-> d.reasons]}
              [] t = "council_narratives" ->
                    {[run |-> r, symbol |-> s, decision |-> d.decision]}
              [] t = "paper_orders" -> IF Actionable(d) THEN {order} ELSE {}
              [] OTHER -> IF Actionable(d) THEN {FillOf(order, bars[s])} ELSE {}]

NarrativeOnly(r, s) ==
    [NoRows EXCEPT !["council_narratives"] =
        {[run |-> r, symbol |-> s, decision |-> "none"]}]

Insert(r, rows) == work' = [work EXCEPT ![r] = [t \in Tables |-> @[t] \cup rows[t]]]

ProcessSymbol(r) ==
    /\ AtSymbol(r)
    /\ LET s == SymbolOrder[at[r]]
       IN  /\ bars[s] > 0
           /\ \/ /\ NoSignal \in Signals /\ ~Raises(s, NoSignal)
                 /\ Insert(r, NarrativeOnly(r, s))
              \/ \E signal \in Signals \ {NoSignal} :
                    /\ ~Raises(s, signal)
                    /\ \E size \in OrderSizes(Request(s, signal), Decide(s, signal), Rounding) :
                        Insert(r, RowsOf(r, s, signal, size))
           /\ Price(r, s)
    /\ NextSymbol(r)
    /\ UNCHANGED <<bars, db, snapshots, clock, pc, seen, draft>>

-----------------------------------------------------------------------------

\* Mutant of Book: the replayed ledger only.
ReplayedBook(r) == NetOf(seen[r])

\* The book of a run: the replayed ledger and the fills it applied itself.
Book(r) == NetOf(seen[r] \cup work[r]["fills"])

Unpriced(r) == {s \in Symbols : Book(r)[s] # 0} \ priced[r]

AtSnapshot(r) == pc[r] = "symbol" /\ at[r] > Len(SymbolOrder)

\* insert_portfolio_snapshot, stamped with the time of the call.  It raises
\* when an open position has no current price, and then nothing else happens.
Snapshot(r) ==
    /\ AtSnapshot(r)
    /\ Unpriced(r) = {}
    /\ clock' = clock + 1
    /\ draft' = [draft EXCEPT ![r] = [time |-> clock', net |-> Book(r), seen |-> seen[r]]]
    /\ pc' = [pc EXCEPT ![r] = "commit"]
    /\ UNCHANGED <<bars, db, snapshots, at, seen, work, priced>>

\* Mutant of Commit: the run writes back its whole view of the ledger.
CommitView(r) ==
    /\ pc[r] = "commit"
    /\ db' = [t \in Tables |->
                IF t = "fills" THEN seen[r] \cup work[r][t] ELSE db[t] \cup work[r][t]]
    /\ snapshots' = Append(snapshots,
            [run |-> r, time |-> draft[r].time, net |-> draft[r].net, seen |-> draft[r].seen])
    /\ End(r, "committed")
    /\ UNCHANGED <<bars, clock>>

Commit(r) ==
    /\ pc[r] = "commit"
    /\ db' = [t \in Tables |-> db[t] \cup work[r][t]]
    /\ snapshots' = Append(snapshots,
            [run |-> r, time |-> draft[r].time, net |-> draft[r].net, seen |-> draft[r].seen])
    /\ End(r, "committed")
    /\ UNCHANGED <<bars, clock>>

\* The process dies, or its connection does, before the commit.
Crash(r) ==
    /\ pc[r] \in {"symbol", "commit"}
    /\ RollBack(r)

Advance(r) ==
    \/ SkipSymbol(r) \/ ProcessSymbol(r) \/ AbortOnSymbol(r)
    \/ Snapshot(r) \/ Commit(r)

Next ==
    \/ \E s \in Symbols : NewBar(s)
    \/ \E r \in Runs : Start(r) \/ Advance(r) \/ Crash(r)

\* A run that was started is a process that keeps executing.
Fairness == \A r \in Runs : WF_vars(Advance(r))

Spec == Init /\ [][Next]_vars /\ Fairness

-----------------------------------------------------------------------------
(* Properties                                                              *)

TypeOK ==
    /\ bars \in [Symbols -> 0..MaxBars]
    /\ DOMAIN db = Tables
    /\ clock \in Nat
    /\ pc \in [Runs -> {"idle", "symbol", "commit", "committed", "rolled_back"}]
    /\ at \in [Runs -> 1..(Len(SymbolOrder) + 1)]
    /\ seen \in [Runs -> SUBSET db["fills"]]
    /\ priced \in [Runs -> SUBSET Symbols]

\* A size that is the decision's, up to the rounding of a product.
SizedBy(d, size) ==
    IF d.decision = "REDUCE"
    THEN size <= Requested /\ Abs(size - d.sizing) <= Rounding
    ELSE size = Requested

\* The audit trail is complete, in both directions: behind every fill there
\* are the order it filled, the actionable decision that sized it, the signal
\* with its direction and the narrative that tells the same decision; and no
\* actionable decision is on record without its fill.
FillsFollowDecisions ==
    /\ \A f \in db["fills"] :
        /\ \E o \in db["paper_orders"] :
            /\ o.id = f.id /\ o.symbol = f.symbol
            /\ o.direction = f.direction /\ o.size = f.size
        /\ \E d \in db["risk_decisions"] :
            /\ d.run = f.id[1] /\ d.symbol = f.symbol /\ Actionable(d)
            /\ SizedBy(d, f.size)
            /\ \E n \in db["council_narratives"] :
                n.run = d.run /\ n.symbol = d.symbol /\ n.decision = d.decision
        /\ \E g \in db["signals"] :
            g.run = f.id[1] /\ g.symbol = f.symbol /\ g.direction = f.direction
    /\ \A d \in db["risk_decisions"] :
        Actionable(d) => \E f \in db["fills"] : f.id = <<d.run, d.symbol>>

\* A crash between any two statements loses a run entirely or not at all: no
\* row of a run is visible without its snapshot, and none is snapshot twice.
RowsComeWithTheirSnapshot ==
    /\ \A n \in db["council_narratives"] :
        \E i \in DOMAIN snapshots : snapshots[i].run = n.run
    /\ \A f \in db["fills"] : \E i \in DOMAIN snapshots : snapshots[i].run = f.id[1]
    /\ \A i, j \in DOMAIN snapshots : snapshots[i].run = snapshots[j].run => i = j

FillsOfRuns(R) == {f \in db["fills"] : f.id[1] \in R}

\* A snapshot is right as long as runs take turns: one whose run started
\* after every earlier snapshot was committed shows the positions of the whole
\* ledger up to itself.
SerialSnapshotIsTheLedger ==
    \A i \in DOMAIN snapshots :
        snapshots[i].seen = FillsOfRuns({snapshots[j].run : j \in 1..(i - 1)}) =>
            snapshots[i].net = NetOf(FillsOfRuns({snapshots[j].run : j \in 1..i}))

\* total_unrealized_pnl never raises here: a position in the replayed book had
\* bars when it was opened, so the run that replays it has priced its symbol,
\* whichever symbols it skipped and whoever committed in between.
NoPositionIsUnpriced == \A r \in Runs : AtSnapshot(r) => Unpriced(r) = {}

\* The gate the pipeline calls is the gate of the placeholder account: it
\* never rejects, and reduces only over the distance of the stop.
OnlyTheStopReduces ==
    \A d \in db["risk_decisions"] :
        \/ d.decision = "APPROVE"
        \/ d.decision = "REDUCE" /\ d.reasons = {"RISK_PER_TRADE_LIMIT"}

\* The tables show readers what PaperLedger promises, whatever the runs do.
PipelineKeepsALedger == Ledger!Spec

\* No run hangs: once started it commits or is rolled back.
EveryRunEnds ==
    \A r \in Runs : pc[r] = "symbol" ~> pc[r] \in {"committed", "rolled_back"}

=============================================================================
