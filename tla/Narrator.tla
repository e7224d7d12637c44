------------------------------ MODULE Narrator ------------------------------
(***************************************************************************)
(* services/ai-council, narrator.py: which paragraphs the note has and     *)
(* which facts each one states.  The English and the Spanish note come     *)
(* from the same inputs and have the same paragraphs; wording is left out. *)
(***************************************************************************)
EXTENDS Council

Paragraph(kind, says) == <<[kind |-> kind, says |-> says]>>

Disclaimer == Paragraph("disclaimer", << >>)

NoCandidateParagraph(regime) == Paragraph("no_candidate", <<regime.label>>)

\* Which of the candidates the note is about, and by which number it was picked.
MultiCandidateParagraph(candidate, proven) ==
    Paragraph("selection", <<candidate.strategyId, IF proven THEN "sharpe" ELSE "edge">>)

OpeningParagraph(candidate, regime) ==
    Paragraph("opening", <<regime.label, candidate.strategyId, candidate.direction>>)

\* Entry, stop and target, edge and costs.
PlanParagraph(candidate) ==
    Paragraph("plan", <<candidate.entry, candidate.stop, candidate.target,
                        candidate.expectedEdge, EstimatedCosts>>)

\* All reasons of a rejection, the first one of a reduction, and of an approval
\* the first unless it is OK.
RejectParagraph(decision)  == Paragraph("reject", decision.reasons)
ReduceParagraph(decision)  ==
    Paragraph("reduce", <<Head(decision.reasons), decision.sizingAdjustment>>)
ApproveParagraph(decision) ==
    Paragraph("approve", IF Head(decision.reasons) = "OK" THEN << >> ELSE <<Head(decision.reasons)>>)

Voices(opinions, stance) == Len(SelectSeq(opinions, LAMBDA o : o.stance = stance))

CouncilSummary(thesis, opinions) ==
    Paragraph("council", <<Voices(opinions, "SUPPORT"), Voices(opinions, "OPPOSE"),
                           Voices(opinions, "NEUTRAL"), thesis.final_stance>>)

\* The first two findings of those who oppose.
Dissenting(opinions) ==
    LET findings == FlattenSeq([i \in DOMAIN opinions |->
                        IF opinions[i].stance = "OPPOSE" THEN opinions[i].findings ELSE << >>])
    IN  SubSeq(findings, 1, IF Len(findings) < 2 THEN Len(findings) ELSE 2)

DisagreementParagraph(thesis, opinions) ==
    Paragraph("disagreement", <<thesis.final_stance, thesis.weighted_score>> \o Dissenting(opinions))

\* What the note says of the decision.
DecisionParagraphs(decision, opinions, thesis) ==
    CASE decision.decision = "REJECT" -> RejectParagraph(decision)
      [] decision.decision = "REDUCE" ->
            ReduceParagraph(decision) \o CouncilSummary(thesis, opinions)
      [] decision.decision = "APPROVE" ->
            ApproveParagraph(decision)
            \o (IF thesis.final_stance = "SUPPORT" THEN CouncilSummary(thesis, opinions)
                ELSE DisagreementParagraph(thesis, opinions))

\* generate_narrative with a candidate, and without one.
GenerateNarrative(candidate, regime, decision, opinions, thesis, poolSize, proven) ==
    (IF poolSize > 1 THEN MultiCandidateParagraph(candidate, proven) ELSE << >>)
    \o OpeningParagraph(candidate, regime) \o PlanParagraph(candidate)
    \o DecisionParagraphs(decision, opinions, thesis) \o Disclaimer

GenerateNoCandidate(regime) == NoCandidateParagraph(regime) \o Disclaimer

=============================================================================
