---------------------------- MODULE DecisionChain ----------------------------
(***************************************************************************)
(* services/ai-council, run_pipeline.run for one symbol: from the bars to  *)
(* a regime, candidates, the one picked by its backtest, the gate's        *)
(* decision on it, the council's thesis, the note and the order.  The      *)
(* backtests are read with one query per candidate, outside of any common  *)
(* snapshot, while research_runner may commit new ones.  RiskGate says     *)
(* what the gate decides and PaperPipeline what becomes of order and rows. *)
(***************************************************************************)
EXTENDS Narrator

CONSTANTS
    Series,             \* the series of bars there may be
    TrackRecords,       \* the newest Sharpe ratio of each strategy, or None
    RiskDecisions,      \* [decision, sizingAdjustment, reasons]
    MaxResearchRuns,    \* bound on research runs that commit meanwhile
    None

\* What evaluate() may give as a reason.
ReasonCodes ==
    {"OK", "KILL_SWITCH_ENGAGED", "CIRCUIT_BREAKER_ENGAGED", "STALE_DATA",
     "LIQUIDITY_SPREAD_LIMIT", "MAX_DAILY_LOSS", "MAX_WEEKLY_LOSS", "MAX_PORTFOLIO_DRAWDOWN",
     "MAX_PORTFOLIO_VAR", "MAX_POSITION", "MAX_ASSET_EXPOSURE", "MAX_GROSS_EXPOSURE",
     "MAX_LEVERAGE", "MAX_NET_EXPOSURE", "RISK_PER_TRADE_LIMIT"}

ASSUME DecisionChainAssumption ==
    /\ \A s \in Strategy : Window(s) <= MinBars
    /\ \A bars \in Series : bars \in Seq(ClosedBars)
    /\ \A record \in TrackRecords : record \in [Strategy -> Int \cup {None}]
    /\ \A d \in RiskDecisions :
        /\ d.decision \in {"APPROVE", "REDUCE", "REJECT"}
        /\ d.reasons \in Seq(ReasonCodes) \ {<< >>}
        /\ IsFraction(d.sizingAdjustment)
        /\ ~Below(d.sizingAdjustment, Whole(0)) /\ AtMost(d.sizingAdjustment, Whole(1))
        /\ \A s \in Strategy : None # [strategyId |-> s, share |-> d.sizingAdjustment]
    /\ MaxResearchRuns \in Nat

VARIABLES
    bars,           \* what fetch_recent_ohlcv returned
    backtests,      \* the newest committed Sharpe ratio of each strategy
    committed,      \* research runs committed since the start
    step,
    regime, candidates,
    scored,         \* the Sharpe ratio read for each candidate so far
    seen,           \* the track records those reads were made from
    picked,         \* the candidate picked, or NoCandidate
    proven,         \* backtested_sharpe is not None
    decision, opinions, thesis, narrative, order

market == <<bars, backtests, committed>>
reading == <<regime, candidates>>
pick == <<scored, seen, picked, proven>>
outcome == <<decision, opinions, thesis, narrative, order>>
vars == <<market, step, reading, pick, outcome>>

Init ==
    /\ bars \in Series
    /\ backtests \in TrackRecords
    /\ committed = 0
    /\ step = "classify"
    /\ regime = None /\ candidates = << >>
    /\ scored = << >> /\ seen = {} /\ picked = NoCandidate /\ proven = FALSE
    /\ decision = None /\ opinions = << >> /\ thesis = None /\ narrative = << >> /\ order = None

\* Too few bars raise, which ends the run.
ClassifyBars ==
    /\ step = "classify"
    /\ IF Len(bars) < MinBars
       THEN step' = "aborted" /\ UNCHANGED reading
       ELSE /\ regime' = ClassifyRegime(bars)
            /\ candidates' = RunStrategies(bars, regime')
            /\ step' = "score"
    /\ UNCHANGED <<market, pick, outcome>>

\* fetch_latest_backtest_metrics for the next candidate.
FetchBacktest ==
    /\ step = "score" /\ Len(scored) < Len(candidates)
    /\ scored' = Append(scored, backtests[candidates[Len(scored) + 1].strategyId])
    /\ seen' = seen \cup {backtests}
    /\ UNCHANGED <<market, step, reading, picked, proven, outcome>>

Backtested(sharpe) == sharpe # None /\ sharpe > 0

\* The names in alphabetical order, by which ties are broken.
Rank(s) == CHOOSE i \in 1..3 : <<Breakout, MeanReversion, TrendFollowing>>[i] = s

\* Mutant of Outranks: the edge a strategy reports of itself comes first.
OutranksByEdge(c, sharpe, other, otherSharpe) ==
    Below(other.expectedEdge, c.expectedEdge)

\* sort_key: a positive Sharpe ratio before none, the higher number, the name.
Outranks(c, sharpe, other, otherSharpe) ==
    IF Backtested(sharpe) # Backtested(otherSharpe) THEN Backtested(sharpe)
    ELSE IF Backtested(sharpe) /\ sharpe # otherSharpe THEN sharpe > otherSharpe
    ELSE IF ~Backtested(sharpe) /\ c.expectedEdge # other.expectedEdge
         THEN Below(other.expectedEdge, c.expectedEdge)
    ELSE Rank(c.strategyId) < Rank(other.strategyId)

\* _pick_candidate; without a candidate the note says so and the symbol is done.
PickCandidate ==
    /\ step = "score" /\ Len(scored) = Len(candidates)
    /\ IF candidates = << >>
       THEN /\ step' = "done"
            /\ narrative' = GenerateNoCandidate(regime)
            /\ UNCHANGED <<picked, proven>>
       ELSE \E i \in DOMAIN candidates :
            /\ \A j \in DOMAIN candidates \ {i} :
                Outranks(candidates[i], scored[i], candidates[j], scored[j])
            /\ picked' = candidates[i]
            /\ proven' = Backtested(scored[i])
            /\ step' = "judge"
            /\ UNCHANGED narrative
    /\ UNCHANGED <<market, reading, scored, seen, decision, opinions, thesis, order>>

\* candidate_to_risk_request raises on a stop at the entry price; evaluate
\* decides on any other.
Judge ==
    /\ step = "judge"
    /\ IF picked.stop = picked.entry
       THEN step' = "aborted" /\ UNCHANGED decision
       ELSE /\ decision' \in RiskDecisions
            /\ step' = "deliberate"
    /\ UNCHANGED <<market, reading, pick, opinions, thesis, narrative, order>>

\* The council, its thesis and the note.
Deliberate ==
    /\ step = "deliberate"
    /\ opinions' = RunCouncil(picked, regime, decision)
    /\ thesis' = Synthesize(opinions')
    /\ narrative' = GenerateNarrative(picked, regime, decision, opinions', thesis',
                                      Len(candidates), proven)
    /\ step' = "trade"
    /\ UNCHANGED <<market, reading, pick, decision, order>>

\* Mutant of Trade: the thesis decides.
TradeOnSupport ==
    /\ step = "trade"
    /\ order' = IF thesis.final_stance = "SUPPORT"
                THEN [strategyId |-> picked.strategyId, share |-> decision.sizingAdjustment]
                ELSE None
    /\ step' = "done"
    /\ UNCHANGED <<market, reading, pick, decision, opinions, thesis, narrative>>

\* The order for the share of the requested size that was let through.
Trade ==
    /\ step = "trade"
    /\ order' = IF decision.decision \in {"APPROVE", "REDUCE"}
                THEN [strategyId |-> picked.strategyId, share |-> decision.sizingAdjustment]
                ELSE None
    /\ step' = "done"
    /\ UNCHANGED <<market, reading, pick, decision, opinions, thesis, narrative>>

\* research_runner commits a new backtest of every strategy.
ResearchCommits ==
    /\ committed < MaxResearchRuns
    /\ committed' = committed + 1
    /\ backtests' \in TrackRecords
    /\ UNCHANGED <<bars, step, reading, pick, outcome>>

Next ==
    \/ ClassifyBars \/ FetchBacktest \/ PickCandidate
    \/ Judge \/ Deliberate \/ Trade
    \/ ResearchCommits

Spec == Init /\ [][Next]_vars

-----------------------------------------------------------------------------

\* AgentOpinion refuses a confidence outside of [0, 1].
TypeOK ==
    /\ bars \in Series /\ backtests \in TrackRecords /\ committed \in 0..MaxResearchRuns
    /\ step \in {"classify", "score", "judge", "deliberate", "trade", "done", "aborted"}
    /\ regime # None => regime.label \in Labels /\ UnitInterval(regime.confidence)
    /\ \A i \in DOMAIN candidates : UnitInterval(candidates[i].signalStrength)
    /\ \A i \in DOMAIN opinions : UnitInterval(opinions[i].confidence)
    /\ seen \subseteq TrackRecords

Told(kind) == \E i \in DOMAIN narrative : narrative[i].kind = kind

\* The decision of the gate, the thesis, the note and the order are derived one
\* from another by code that trusts the step before it.  They tell one story:
\* a rejection is a veto, a refusal in the note and no order, and an order that
\* the council does not support is one the note owns up to.
NoteThesisAndOrderAgree ==
    step = "done" /\ picked # NoCandidate =>
        /\ (decision.decision = "REJECT") = (thesis.final_stance = "VETO")
        /\ (decision.decision = "REJECT") = Told("reject")
        /\ (decision.decision = "REJECT") = (order = None)
        /\ order # None /\ thesis.final_stance # "SUPPORT" =>
            Told("reduce") \/ Told("disagreement")
        /\ Told("selection") = (Len(candidates) > 1)
        /\ order # None => Told("opening") /\ order.strategyId = picked.strategyId

\* A candidate whose stop or target is on the wrong side of its entry is a
\* price that went past the band by half its width or more, which the stop of
\* the reversion does not follow, or a break of a channel without width.
OnlyOvershootsAreMisordered ==
    \A i \in DOMAIN candidates :
        LET c == candidates[i]
        IN  ~Ordered(c) =
                \/ c.strategyId = MeanReversion /\ AtMost(Half, c.signalStrength)
                \/ c.strategyId = Breakout /\ c.target = c.entry

\* Every test of a mean reversion says its stop lies behind the entry.
StopsLieBehindTheEntry ==
    \A i \in DOMAIN candidates :
        LET c == candidates[i]
        IN  c.strategyId = MeanReversion =>
                IF c.direction = "LONG" THEN Below(c.stop, c.entry) ELSE Below(c.entry, c.stop)

\* Two agents watch the regime, its confidence and whether the candidate was
\* made for it.  In this pipeline neither can ever object: a label in whose
\* regime a strategy is allowed is past its threshold, and the candidates are
\* those of the very same classification.
CouncilNeverDoubtsTheRegime ==
    \A i \in DOMAIN opinions :
        ToSet(opinions[i].findings) \cap {"LOW_REGIME_CONFIDENCE", "REGIME_MISMATCH"} = {}

\* The weights leave the agents no majority against the gate: whatever they
\* find, a candidate approved in full is at worst met with a neutral thesis.
ApprovalsAreNeverOpposed ==
    thesis # None /\ decision.decision = "APPROVE" => thesis.final_stance # "OPPOSE"

\* The best of the candidates by one track record: the highest positive Sharpe
\* ratio, or without one the highest expected edge.
BestBy(record, c) ==
    LET pool   == ToSet(candidates)
        tested == {other \in pool : Backtested(record[other.strategyId])}
    IN  IF tested # {}
        THEN /\ c \in tested
             /\ \A other \in tested : record[other.strategyId] <= record[c.strategyId]
        ELSE \A other \in pool : AtMost(other.expectedEdge, c.expectedEdge)

\* The pick is the best on record, unless a research run committed between the
\* queries: then it may be the best of neither the old record nor the new.
PickIsTheBestOnRecord ==
    picked # NoCandidate /\ Cardinality(seen) = 1 => \E record \in seen : BestBy(record, picked)

=============================================================================
