------------------------------ MODULE Council -------------------------------
(***************************************************************************)
(* services/ai-council: the four agents' opinions on a candidate and the   *)
(* thesis synthesized from them.  run_pipeline hands the agents neither a  *)
(* backtest nor a simulation summary.  Findings are their codes.           *)
(***************************************************************************)
EXTENDS Strategies

\* Thresholds of the agents and of the council.
SupportRatio == Whole(2)
NeutralRatio == Whole(1)
ThinRatio    == Frac(3, 2)
LowConfidence == Half
WeakStrength  == Frac(3, 10)
SupportThreshold == Frac(3, 10)
OpposeThreshold  == Frac(-3, 10)

Opinion(agent, stance, confidence, findings) ==
    [agent |-> agent, stance |-> stance, confidence |-> confidence, findings |-> findings]

\* A sequence of one finding, or of none.
Finding(raised, code) == IF raised THEN <<code>> ELSE << >>

EdgeToCost(candidate) == Over(candidate.expectedEdge, EstimatedCosts)

QuantAgent(candidate) ==
    LET ratio   == EdgeToCost(candidate)
        covered == AtMost(NeutralRatio, ratio)
    IN  Opinion("quant_agent",
                IF AtMost(SupportRatio, ratio) THEN "SUPPORT"
                ELSE IF covered THEN "NEUTRAL" ELSE "OPPOSE",
                Capped(Over(ratio, Times(2, SupportRatio))),
                <<"EDGE_TO_COST_RATIO">> \o Finding(~covered, "EDGE_DOES_NOT_COVER_COSTS"))

\* Mutant of RiskOfficer: an approval is no vote either.
RiskOfficerAbstains(decision) ==
    IF decision.decision = "REJECT" THEN Opinion("risk_officer", "VETO", Whole(1), decision.reasons)
    ELSE Opinion("risk_officer", "NEUTRAL",
                 Minus(Whole(1), decision.sizingAdjustment), decision.reasons)

\* The decision of the risk gate, translated.
RiskOfficer(decision) ==
    CASE decision.decision = "REJECT" ->
            Opinion("risk_officer", "VETO", Whole(1), decision.reasons)
      [] decision.decision = "REDUCE" ->
            Opinion("risk_officer", "NEUTRAL",
                    Minus(Whole(1), decision.sizingAdjustment), decision.reasons)
      [] decision.decision = "APPROVE" ->
            Opinion("risk_officer", "SUPPORT", Whole(1), decision.reasons)

\* Three doubts, each a third of certainty.
DevilsAdvocate(candidate, regime) ==
    LET findings ==
            Finding(Below(regime.confidence, LowConfidence), "LOW_REGIME_CONFIDENCE")
            \o Finding(Below(candidate.signalStrength, WeakStrength), "WEAK_SIGNAL_STRENGTH")
            \o Finding(Below(EdgeToCost(candidate), ThinRatio), "THIN_EDGE_MARGIN")
    IN  Opinion("devils_advocate", IF findings = << >> THEN "NEUTRAL" ELSE "OPPOSE",
                Frac(Len(findings), 3), findings)

\* Stop and target on their sides of the entry.
Ordered(candidate) ==
    IF candidate.direction = "LONG"
    THEN Below(candidate.stop, candidate.entry) /\ Below(candidate.entry, candidate.target)
    ELSE Below(candidate.target, candidate.entry) /\ Below(candidate.entry, candidate.stop)

\* Every strategy names itself and gives all three prices: three checks.
Auditor(candidate, regime) ==
    LET findings ==
            Finding(candidate.regime # regime.label, "REGIME_MISMATCH")
            \o Finding(~Ordered(candidate), "INCONSISTENT_STOP_TARGET_ORDERING")
    IN  Opinion("auditor_agent", IF findings = << >> THEN "SUPPORT" ELSE "OPPOSE",
                IF findings = << >> THEN Whole(1) ELSE Frac(Len(findings), 3), findings)

\* run_council over AGENTS.
RunCouncil(candidate, regime, decision) ==
    <<QuantAgent(candidate), RiskOfficer(decision),
      DevilsAdvocate(candidate, regime), Auditor(candidate, regime)>>

Score(opinion) ==
    CASE opinion.stance = "SUPPORT" -> opinion.confidence
      [] opinion.stance = "NEUTRAL" -> Whole(0)
      [] opinion.stance = "OPPOSE"  -> Times(-1, opinion.confidence)

WeightedScore(opinions) ==
    LET weight == Total([i \in DOMAIN opinions |-> opinions[i].confidence])
    IN  IF weight = Whole(0) THEN Whole(0)
        ELSE Over(Total([i \in DOMAIN opinions |-> Score(opinions[i])]), weight)

\* synthesize: a veto overrides, otherwise the average decides.
Synthesize(opinions) ==
    IF \E i \in DOMAIN opinions : opinions[i].stance = "VETO"
    THEN [final_stance |-> "VETO", weighted_score |-> Whole(-1)]
    ELSE LET score == WeightedScore(opinions)
         IN  [final_stance |-> IF AtMost(SupportThreshold, score) THEN "SUPPORT"
                               ELSE IF AtMost(score, OpposeThreshold) THEN "OPPOSE" ELSE "NEUTRAL",
              weighted_score |-> score]

=============================================================================
