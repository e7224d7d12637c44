----------------------------- MODULE GateProofs ------------------------------
(***************************************************************************)
(* The risk gate and the two ways it is used: what evaluate() guarantees   *)
(* of any request in any exposure; what that guarantees of a book whose    *)
(* every trade passes it; and what the pipeline's tables show for any      *)
(* number of runs, however they overlap, fail and are rolled back.  All of *)
(* it for every limit and every set of symbols.                            *)
(***************************************************************************)
EXTENDS GatedBook, PaperPipeline, DataLemmas, SequenceTheorems

-----------------------------------------------------------------------------
(* The gate                                                                *)

\* Least returns that element.
LEMMA LeastIsLeast ==
    ASSUME NEW S \in SUBSET Nat, S # {}
    PROVE  Least(S) \in S /\ \A y \in S : Least(S) <= y
BY LeastNatural, Zenon DEF Least

\* Every cap of _sizing_caps allows a natural number of units.
LEMMA CapsAllowNaturals ==
    ASSUME NEW Syms, NEW c \in CandidateRequest(Syms), NEW e \in Exposure,
           NEW cap \in SizingCaps(c, e)
    PROVE  cap.allowed \in Nat
<1> USE LimitsAssumption DEF RiskLimits, Positive
<1>1. ASSUME NEW code, NEW current \in Int, NEW projected \in Int,
             NEW limit \in Nat, cap \in AddCap(code, current, projected, limit)
      PROVE  cap.allowed \in Nat
  <2>1. cap.allowed = AtLeastZero(limit - Abs(current))
    BY <1>1 DEF AddCap
  <2> QED
    BY <2>1 DEF AtLeastZero, Abs
<1>2. ASSUME cap \in RiskPerTradeCap(c)
      PROVE  cap.allowed \in Nat
  <2>1. c.stop \in Nat \ {0}
    BY <1>2 DEF RiskPerTradeCap, CandidateRequest, Unset
  <2>2. Limits.maxRiskPerTrade * Scale \in Nat
    OBVIOUS
  <2>3. \A a \in Nat, b \in Nat \ {0} : a \div b \in Nat
    OBVIOUS
  <2>4. FixedFractionalSize(c.stop) \in Nat
    BY <2>1, <2>2, <2>3 DEF FixedFractionalSize
  <2> QED
    BY <1>2, <2>4 DEF RiskPerTradeCap
<1> DEFINE signed == Sign[c.direction] * c.size
<1>3. signed \in Int /\ c.size \in Nat
  BY DEF CandidateRequest, Sign, Directions
<1>4. /\ e.position \in Int /\ e.position + signed \in Int
      /\ e.gross \in Int /\ e.gross + c.size \in Int
      /\ e.net \in Int /\ e.net + signed \in Int
  BY <1>3 DEF Exposure
<1>5. \/ cap \in AddCap("MAX_POSITION", e.position, e.position + signed, Limits.maxPosition)
      \/ cap \in AddCap("MAX_ASSET_EXPOSURE", e.position, e.position + signed,
                        Limits.maxAssetExposure)
      \/ cap \in AddCap("MAX_GROSS_EXPOSURE", e.gross, e.gross + c.size, Limits.maxGross)
      \/ cap \in AddCap("MAX_LEVERAGE", e.gross, e.gross + c.size, Limits.maxLeverage)
      \/ cap \in AddCap("MAX_NET_EXPOSURE", e.net, e.net + signed, Limits.maxNet)
      \/ cap \in RiskPerTradeCap(c)
  BY Zenon DEF SizingCaps
<1>6. /\ Limits.maxPosition \in Nat /\ Limits.maxAssetExposure \in Nat
      /\ Limits.maxGross \in Nat /\ Limits.maxLeverage \in Nat /\ Limits.maxNet \in Nat
  OBVIOUS
<1> HIDE DEF signed
<1> QED
  BY <1>1, <1>2, <1>4, <1>5, <1>6, Zenon

\* A REDUCE grants what the tightest cap allows, and that is at least a unit.
LEMMA SizingIsLeast ==
    ASSUME NEW Syms, NEW c \in CandidateRequest(Syms), NEW e \in Exposure,
           NEW h, NEW m, Evaluate(c, e, h, m).decision = "REDUCE"
    PROVE  LET k == Evaluate(c, e, h, m).sizing
           IN  /\ k \in Nat /\ 0 < k
               /\ \A cap \in SizingCaps(c, e) : k <= cap.allowed
<1> DEFINE caps == SizingCaps(c, e)
           allowed == {cap.allowed : cap \in caps}
<1>1. allowed \in SUBSET Nat
  BY CapsAllowNaturals
<1>2. /\ allowed # {}
      /\ Evaluate(c, e, h, m).sizing = Least(allowed)
      /\ ~(Least(allowed) <= 0)
  BY DEF Evaluate, Decision
<1>3. Least(allowed) \in allowed /\ \A y \in allowed : Least(allowed) <= y
  <2> HIDE DEF allowed
  <2> QED
    BY <1>1, <1>2, LeastIsLeast
<1>4. Least(allowed) \in Nat
  BY <1>1, <1>3
<1>5. \A cap \in caps : Least(allowed) <= cap.allowed
  BY <1>3
<1> HIDE DEF allowed, caps
<1>6. 0 < Least(allowed)
  BY <1>2, <1>4
<1> QED
  BY <1>2, <1>4, <1>5, <1>6 DEF caps

\* An actionable decision orders at least one unit and no more than was asked
\* for; where there are caps the tightest one wins, every one of them allows
\* something, and the order overshoots none by more than the rounding.
LEMMA OrderRespectsEveryCap ==
    ASSUME NEW Syms, NEW c \in CandidateRequest(Syms), NEW e \in Exposure,
           NEW h, NEW m, Actionable(Evaluate(c, e, h, m)),
           NEW k \in OrderSizes(c, Evaluate(c, e, h, m), Rounding)
    PROVE  /\ k \in 1..c.size
           /\ \A cap \in SizingCaps(c, e) :
                0 < cap.allowed /\ k <= cap.allowed + Rounding
<1> DEFINE d == Evaluate(c, e, h, m)
           caps == SizingCaps(c, e)
<1>1. c.size \in Nat \ {0} /\ Rounding \in Nat
  BY LimitsAssumption DEF CandidateRequest, Positive
<1>2. CASE d.decision = "APPROVE"
  <2>1. OrderSizes(c, d, Rounding) = {c.size} /\ caps = {}
    BY <1>2 DEF OrderSizes, Evaluate, Decision
  <2> QED
    BY <1>1, <2>1
<1>3. CASE d.decision = "REDUCE"
  <2>1. /\ d.sizing \in Nat /\ 0 < d.sizing
        /\ \A cap \in caps : d.sizing <= cap.allowed /\ cap.allowed \in Nat
    BY <1>3, SizingIsLeast, CapsAllowNaturals
  <2>2. k \in 1..c.size /\ k - d.sizing \in (-Rounding)..Rounding
    BY <1>3 DEF OrderSizes
  <2> HIDE DEF d, caps
  <2>3. \A cap \in caps : 0 < cap.allowed /\ k <= cap.allowed + Rounding
    BY <1>1, <2>1, <2>2
  <2> QED
    BY <2>2, <2>3 DEF caps
<1> QED
  BY <1>2, <1>3 DEF Actionable

\* A part of a signed size: in the same direction and no larger.
PartOf(part, whole) ==
    \/ 0 < part /\ part <= whole
    \/ whole <= part /\ part < 0

\* One limit, one order: moving `current' by part of the requested size stays
\* within the limit up to the rounding, if the caps leave room for the part up
\* to the rounding and `current' was within the limit up to the rounding.
LEMMA WithinAfterOrder ==
    ASSUME NEW code, NEW limit \in Nat, NEW current \in Int,
           Abs(current) <= limit + Rounding,
           NEW whole \in Int, NEW part \in Int, PartOf(part, whole),
           \A cap \in AddCap(code, current, current + whole, limit) :
                0 < cap.allowed /\ Abs(part) <= cap.allowed + Rounding
    PROVE  Abs(current + part) <= limit + Rounding
<1>1. Rounding \in Nat
  BY LimitsAssumption
<1>2. CASE Abs(current + whole) <= limit
  BY <1>1, <1>2 DEF Abs, PartOf
<1>3. CASE ~(Abs(current + whole) <= limit)
  <2>1. /\ 0 < AtLeastZero(limit - Abs(current))
        /\ Abs(part) <= AtLeastZero(limit - Abs(current)) + Rounding
    BY <1>3 DEF AddCap
  <2> QED
    BY <1>1, <2>1 DEF AtLeastZero, Abs
<1> QED
  BY <1>2, <1>3

\* Asked again for part of the size, a limit adds the cap it added before, or
\* it is one the current exposure is past and the whole size led back within.
LEMMA CapOfAPart ==
    ASSUME NEW code, NEW limit \in Nat, NEW current \in Int,
           NEW whole \in Int, NEW part \in Int, PartOf(part, whole),
           NEW least \in Nat,
           \A cap \in AddCap(code, current, current + whole, limit) : least <= cap.allowed,
           NEW again \in AddCap(code, current, current + part, limit)
    PROVE  \/ again.allowed >= least
           \/ /\ again.allowed = 0
              /\ Abs(current) > limit /\ Abs(current + whole) <= limit
<1>1. /\ ~(Abs(current + part) <= limit)
      /\ again.allowed = AtLeastZero(limit - Abs(current))
  BY DEF AddCap
<1>2. CASE Abs(current + whole) <= limit
  <2>1. Abs(current) > limit
    BY <1>1, <1>2 DEF Abs, PartOf
  <2> QED
    BY <1>1, <1>2, <2>1 DEF AtLeastZero, Abs
<1>3. CASE ~(Abs(current + whole) <= limit)
  <2>1. least <= AtLeastZero(limit - Abs(current))
    BY <1>3 DEF AddCap
  <2>2. AtLeastZero(limit - Abs(current)) \in Int
    BY DEF AtLeastZero, Abs
  <2> QED
    BY <1>1, <2>1, <2>2
<1> QED
  BY <1>2, <1>3

-----------------------------------------------------------------------------

\* The exposure an order leaves behind.  Whatever the candidate, its order
\* keeps the position, the net exposure and the gross projection within every
\* limit they were within before it, up to the rounding of one order before
\* it and after it.
THEOREM GateBoundsExposure ==
    ASSUME NEW Syms, NEW c \in CandidateRequest(Syms), c.direction # "NEUTRAL",
           NEW e \in Exposure, NEW h, NEW m,
           Actionable(Evaluate(c, e, h, m)),
           NEW k \in OrderSizes(c, Evaluate(c, e, h, m), Rounding),
           Abs(e.position) <= Limits.maxPosition + Rounding,
           Abs(e.position) <= Limits.maxAssetExposure + Rounding,
           e.gross <= Limits.maxGross + Rounding,
           e.gross <= Limits.maxLeverage + Rounding,
           Abs(e.net) <= Limits.maxNet + Rounding
    PROVE  LET signed == SignedSize(c.direction, k)
           IN  /\ signed \in Int
               /\ Abs(e.position + signed) <= Limits.maxPosition + Rounding
               /\ Abs(e.position + signed) <= Limits.maxAssetExposure + Rounding
               /\ e.gross + k <= Limits.maxGross + Rounding
               /\ e.gross + k <= Limits.maxLeverage + Rounding
               /\ Abs(e.net + signed) <= Limits.maxNet + Rounding
<1> DEFINE whole == Sign[c.direction] * c.size
           part  == SignedSize(c.direction, k)
           caps  == SizingCaps(c, e)
<1>1. k \in 1..c.size /\ \A cap \in caps : 0 < cap.allowed /\ k <= cap.allowed + Rounding
  BY OrderRespectsEveryCap
<1>2. c.size \in Nat /\ Rounding \in Nat
  BY LimitsAssumption DEF CandidateRequest, Positive
<1>3. e.position \in Int /\ e.gross \in Nat /\ e.net \in Int
  BY DEF Exposure
<1>4. /\ Limits.maxPosition \in Nat /\ Limits.maxAssetExposure \in Nat
      /\ Limits.maxGross \in Nat /\ Limits.maxLeverage \in Nat /\ Limits.maxNet \in Nat
  BY LimitsAssumption DEF RiskLimits, Positive
<1>5. k \in Nat /\ 0 < k /\ k <= c.size /\ c.size \in Int
  BY <1>1, <1>2
<1>6. /\ whole \in Int /\ part \in Int /\ PartOf(part, whole) /\ Abs(part) = k
      /\ PartOf(k, c.size) /\ Abs(k) = k
  <2>1. c.direction = "LONG" \/ c.direction = "SHORT"
    BY DEF CandidateRequest, Directions
  <2> QED
    BY <1>5, <2>1 DEF SignedSize, Sign, PartOf, Abs
<1>7. \A cap \in UNION {
            AddCap("MAX_POSITION", e.position, e.position + whole, Limits.maxPosition),
            AddCap("MAX_ASSET_EXPOSURE", e.position, e.position + whole,
                   Limits.maxAssetExposure),
            AddCap("MAX_GROSS_EXPOSURE", e.gross, e.gross + c.size, Limits.maxGross),
            AddCap("MAX_LEVERAGE", e.gross, e.gross + c.size, Limits.maxLeverage),
            AddCap("MAX_NET_EXPOSURE", e.net, e.net + whole, Limits.maxNet)} :
            0 < cap.allowed /\ k <= cap.allowed + Rounding
  BY <1>1, Zenon DEF SizingCaps
<1> HIDE DEF whole, part, caps
<1>8. \A cap \in AddCap("MAX_POSITION", e.position, e.position + whole,
                        Limits.maxPosition) : 0 < cap.allowed /\ k <= cap.allowed + Rounding
  BY <1>7, Zenon
<1>9. \A cap \in AddCap("MAX_ASSET_EXPOSURE", e.position, e.position + whole,
                        Limits.maxAssetExposure) :
            0 < cap.allowed /\ k <= cap.allowed + Rounding
  BY <1>7, Zenon
<1>10. \A cap \in AddCap("MAX_NET_EXPOSURE", e.net, e.net + whole,
                         Limits.maxNet) : 0 < cap.allowed /\ k <= cap.allowed + Rounding
  BY <1>7, Zenon
<1>11. \A cap \in AddCap("MAX_GROSS_EXPOSURE", e.gross, e.gross + c.size,
                         Limits.maxGross) : 0 < cap.allowed /\ k <= cap.allowed + Rounding
  BY <1>7, Zenon
<1>12. \A cap \in AddCap("MAX_LEVERAGE", e.gross, e.gross + c.size,
                         Limits.maxLeverage) : 0 < cap.allowed /\ k <= cap.allowed + Rounding
  BY <1>7, Zenon
<1>13. /\ Abs(e.position + part) <= Limits.maxPosition + Rounding
       /\ Abs(e.position + part) <= Limits.maxAssetExposure + Rounding
       /\ Abs(e.net + part) <= Limits.maxNet + Rounding
  BY <1>3, <1>4, <1>6, <1>8, <1>9, <1>10, WithinAfterOrder
<1>14. Abs(e.gross) = e.gross /\ Abs(e.gross + k) = e.gross + k /\ e.gross \in Int
  BY <1>3, <1>5 DEF Abs
<1>15. ASSUME NEW code, NEW limit \in Nat, e.gross <= limit + Rounding,
              \A cap \in AddCap(code, e.gross, e.gross + c.size, limit) :
                    0 < cap.allowed /\ k <= cap.allowed + Rounding
       PROVE  e.gross + k <= limit + Rounding
  <2>1. \A cap \in AddCap(code, e.gross, e.gross + c.size, limit) :
            0 < cap.allowed /\ Abs(k) <= cap.allowed + Rounding
    BY <1>6, <1>15, Zenon
  <2>2. Abs(e.gross) <= limit + Rounding /\ k \in Int
    BY <1>5, <1>14, <1>15
  <2>3. Abs(e.gross + k) <= limit + Rounding
    BY ONLY <1>5, <1>6, <1>14, <1>15, <2>1, <2>2, WithinAfterOrder
  <2> QED
    BY <1>14, <2>3
<1>16. /\ e.gross + k <= Limits.maxGross + Rounding
       /\ e.gross + k <= Limits.maxLeverage + Rounding
  BY <1>4, <1>11, <1>12, <1>15
<1> QED
  BY <1>6, <1>13, <1>16 DEF part

\* What any of the six caps may allow when a candidate that was reduced asks
\* again for a size its order may carry: at least what was granted, or nothing,
\* at a limit the exposure is already past.
LEMMA CapsOfTheReduced ==
    ASSUME NEW Syms, NEW c \in CandidateRequest(Syms), c.direction # "NEUTRAL",
           NEW e \in Exposure, NEW h, NEW m,
           Evaluate(c, e, h, m).decision = "REDUCE",
           NEW k \in OrderSizes(c, Evaluate(c, e, h, m), Rounding),
           NEW again \in SizingCaps([c EXCEPT !.size = k], e)
    PROVE  \/ again.allowed >= Evaluate(c, e, h, m).sizing
           \/ /\ again.allowed = 0
              /\ \/ Abs(e.position) > Limits.maxPosition
                 \/ Abs(e.position) > Limits.maxAssetExposure
                 \/ Abs(e.net) > Limits.maxNet
<1> DEFINE d       == Evaluate(c, e, h, m)
           least   == d.sizing
           caps    == SizingCaps(c, e)
           reduced == [c EXCEPT !.size = k]
           whole   == Sign[c.direction] * c.size
           part    == Sign[c.direction] * k
<1>1. Actionable(d)
  BY DEF Actionable
<1>2. k \in 1..c.size
  BY <1>1, OrderRespectsEveryCap
<1>3. c.size \in Nat /\ k \in Nat /\ 0 < k /\ k <= c.size
  BY <1>2 DEF CandidateRequest, Positive
<1>4. e.position \in Int /\ e.gross \in Nat /\ e.net \in Int
  BY DEF Exposure
<1>5. /\ Limits.maxPosition \in Nat /\ Limits.maxAssetExposure \in Nat
      /\ Limits.maxGross \in Nat /\ Limits.maxLeverage \in Nat /\ Limits.maxNet \in Nat
  BY LimitsAssumption DEF RiskLimits, Positive
<1>6. least \in Nat /\ \A cap \in caps : least <= cap.allowed
  BY SizingIsLeast
<1>7. reduced.size = k /\ reduced.direction = c.direction /\ reduced.stop = c.stop
  BY DEF CandidateRequest
<1>8. /\ whole \in Int /\ part \in Int /\ PartOf(part, whole) /\ PartOf(k, c.size)
  <2>1. Sign[c.direction] = 1 \/ Sign[c.direction] = -1
    BY DEF CandidateRequest, Directions, Sign
  <2> QED
    BY <1>3, <2>1 DEF PartOf
<1>9. /\ \/ again \in AddCap("MAX_POSITION", e.position, e.position + part,
                             Limits.maxPosition)
         \/ again \in AddCap("MAX_ASSET_EXPOSURE", e.position, e.position + part,
                             Limits.maxAssetExposure)
         \/ again \in AddCap("MAX_GROSS_EXPOSURE", e.gross, e.gross + k, Limits.maxGross)
         \/ again \in AddCap("MAX_LEVERAGE", e.gross, e.gross + k, Limits.maxLeverage)
         \/ again \in AddCap("MAX_NET_EXPOSURE", e.net, e.net + part, Limits.maxNet)
         \/ again \in RiskPerTradeCap(reduced)
  <2>1. again \in SizingCaps(reduced, e)
    OBVIOUS
  <2> HIDE DEF reduced
  <2> QED
    BY <1>7, <2>1, Zenon DEF SizingCaps
<1>10. \A cap \in UNION {
            AddCap("MAX_POSITION", e.position, e.position + whole, Limits.maxPosition),
            AddCap("MAX_ASSET_EXPOSURE", e.position, e.position + whole,
                   Limits.maxAssetExposure),
            AddCap("MAX_GROSS_EXPOSURE", e.gross, e.gross + c.size, Limits.maxGross),
            AddCap("MAX_LEVERAGE", e.gross, e.gross + c.size, Limits.maxLeverage),
            AddCap("MAX_NET_EXPOSURE", e.net, e.net + whole, Limits.maxNet),
            RiskPerTradeCap(c)} : least <= cap.allowed
  BY <1>6, Zenon DEF SizingCaps
<1> HIDE DEF d, least, caps, whole, part
<1>11. ASSUME NEW code, NEW limit \in Nat, NEW current \in Int,
              \A cap \in AddCap(code, current, current + whole, limit) : least <= cap.allowed,
              again \in AddCap(code, current, current + part, limit)
       PROVE  again.allowed >= least \/ (again.allowed = 0 /\ Abs(current) > limit)
  <2>1. \/ again.allowed >= least
        \/ /\ again.allowed = 0
           /\ Abs(current) > limit /\ Abs(current + whole) <= limit
    BY ONLY <1>6, <1>8, <1>11, CapOfAPart
  <2> QED
    BY <2>1
<1>12. ASSUME NEW code, NEW limit \in Nat,
              \A cap \in AddCap(code, e.gross, e.gross + c.size, limit) : least <= cap.allowed,
              again \in AddCap(code, e.gross, e.gross + k, limit)
       PROVE  again.allowed >= least
  <2>1. \/ again.allowed >= least
        \/ Abs(e.gross) > limit /\ Abs(e.gross + c.size) <= limit
    <3>1. e.gross \in Int /\ c.size \in Int /\ k \in Int
      BY <1>3, <1>4
    <3> QED
      BY ONLY <1>6, <1>8, <1>12, <3>1, CapOfAPart
  <2> QED
    BY <1>3, <1>4, <2>1 DEF Abs
<1>13. ASSUME again \in RiskPerTradeCap(reduced)
       PROVE  again.allowed >= least
  <2>1. /\ c.stop # Unset /\ k > FixedFractionalSize(c.stop)
        /\ again.allowed = FixedFractionalSize(c.stop)
    BY <1>7, <1>13 DEF RiskPerTradeCap
  <2>2. FixedFractionalSize(c.stop) \in Nat
    <3>1. c.stop \in Nat \ {0} /\ Limits.maxRiskPerTrade * Scale \in Nat
      BY <2>1, LimitsAssumption DEF CandidateRequest, Positive, RiskLimits
    <3> HIDE DEF reduced
    <3>2. \A a \in Nat, b \in Nat \ {0} : a \div b \in Nat
      OBVIOUS
    <3> QED
      BY <3>1, <3>2 DEF FixedFractionalSize
  <2>3. c.size > FixedFractionalSize(c.stop)
    BY <1>3, <2>1, <2>2
  <2>4. [code |-> "RISK_PER_TRADE_LIMIT", allowed |-> FixedFractionalSize(c.stop)]
            \in RiskPerTradeCap(c)
    BY <2>1, <2>3 DEF RiskPerTradeCap
  <2>5. least <= FixedFractionalSize(c.stop)
    BY <1>10, <2>4
  <2> QED
    BY <1>6, <2>1, <2>2, <2>5
<1>14. CASE again \in RiskPerTradeCap(reduced)
  BY <1>13, <1>14 DEF least, d
<1>15. CASE \/ again \in AddCap("MAX_GROSS_EXPOSURE", e.gross, e.gross + k, Limits.maxGross)
            \/ again \in AddCap("MAX_LEVERAGE", e.gross, e.gross + k, Limits.maxLeverage)
  <2>1. /\ \A cap \in AddCap("MAX_GROSS_EXPOSURE", e.gross, e.gross + c.size,
                             Limits.maxGross) : least <= cap.allowed
        /\ \A cap \in AddCap("MAX_LEVERAGE", e.gross, e.gross + c.size,
                             Limits.maxLeverage) : least <= cap.allowed
    BY <1>10, Zenon
  <2> QED
    BY <1>5, <1>12, <1>15, <2>1 DEF least, d
<1>16. CASE again \in AddCap("MAX_POSITION", e.position, e.position + part,
                             Limits.maxPosition)
  <2>1. \A cap \in AddCap("MAX_POSITION", e.position, e.position + whole,
                          Limits.maxPosition) : least <= cap.allowed
    BY <1>10, Zenon
  <2> QED
    BY <1>4, <1>5, <1>11, <1>16, <2>1 DEF least, d
<1>17. CASE again \in AddCap("MAX_ASSET_EXPOSURE", e.position, e.position + part,
                             Limits.maxAssetExposure)
  <2>1. \A cap \in AddCap("MAX_ASSET_EXPOSURE", e.position, e.position + whole,
                          Limits.maxAssetExposure) : least <= cap.allowed
    BY <1>10, Zenon
  <2> QED
    BY <1>4, <1>5, <1>11, <1>17, <2>1 DEF least, d
<1>18. CASE again \in AddCap("MAX_NET_EXPOSURE", e.net, e.net + part, Limits.maxNet)
  <2>1. \A cap \in AddCap("MAX_NET_EXPOSURE", e.net, e.net + whole,
                          Limits.maxNet) : least <= cap.allowed
    BY <1>10, Zenon
  <2> QED
    BY <1>4, <1>5, <1>11, <1>18, <2>1 DEF least, d
<1> QED
  BY <1>9, <1>14, <1>15, <1>16, <1>17, <1>18

\* Some trigger firing is enough for a hard reject: the list is read in order,
\* and the first one that fires is reported.
LEMMA SomeTriggerRejects ==
    ASSUME NEW h, NEW m,
           NEW i \in 1..8, HardRejectChecks(h, m)[i].fires
    PROVE  HardReject(h, m) # {}
<1> DEFINE checks == HardRejectChecks(h, m)
           firing == {j \in 1..8 : checks[j].fires}
<1>1. firing # {} /\ firing \in SUBSET Nat
  OBVIOUS
<1>2. PICK j \in firing : \A k \in firing : j <= k
  <2> HIDE DEF firing
  <2> QED
    BY <1>1, LeastNatural
<1>3. \A k \in 1..(j - 1) : ~checks[k].fires
  <2> SUFFICES ASSUME NEW k \in 1..(j - 1), checks[k].fires PROVE FALSE
    OBVIOUS
  <2>1. j \in 1..8
    BY <1>2
  <2>2. k \in 1..8 /\ k < j
    BY <2>1
  <2>3. k \in firing
    BY <2>2
  <2> QED
    BY <1>2, <2>1, <2>2, <2>3
<1>4. checks[j].code \in HardReject(h, m)
  <2> HIDE DEF checks
  <2>1. HardReject(h, m) = { checks[n].code : n \in { l \in 1..8 :
            checks[l].fires /\ \A k \in 1..(l - 1) : ~checks[k].fires } }
    BY DEF HardReject, checks
  <2> QED
    BY <1>2, <1>3, <2>1
<1> QED
  BY <1>4

-----------------------------------------------------------------------------
(* A book whose every trade passes the gate                                *)

\* A candidate of the specification is one CandidateRequest accepts.
LEMMA CandidatesAreRequests ==
    \A c \in Candidates : c \in CandidateRequest(Traded) /\ c.direction # "NEUTRAL"
BY GatedBookAssumption DEF Candidates, CandidateRequest, Directions

\* The exposure figures of a typed book are typed.
LEMMA ExposureTyped ==
    ASSUME NEW book \in [Traded -> Int], NEW s \in Traded
    PROVE  ExposureOf(book, s) \in Exposure
<1>1. Net(book) \in Int
  BY GatedBookAssumption, SumInt DEF Net
<1>2. Gross(book) \in Nat
  <2> DEFINE sizes == [x \in DOMAIN book |-> Abs(book[x])]
  <2>1. sizes \in [Traded -> Nat]
    BY DEF Abs
  <2> HIDE DEF sizes
  <2>2. SumFunction(sizes) \in Nat
    BY <2>1, GatedBookAssumption, SumNat
  <2> QED
    BY <2>2 DEF Gross, sizes
<1> QED
  BY <1>1, <1>2 DEF ExposureOf, Exposure

\* Booking a signed size moves the net exposure by it, and the gross exposure
\* by the change of that one position's absolute size.
LEMMA ExposureMoves ==
    ASSUME NEW book \in [Traded -> Int], NEW s \in Traded, NEW x \in Int
    PROVE  LET moved == [book EXCEPT ![s] = @ + x]
           IN  /\ moved \in [Traded -> Int]
               /\ Net(moved) = Net(book) + x
               /\ Gross(moved) = Gross(book) + (Abs(book[s] + x) - Abs(book[s]))
<1> DEFINE moved == [book EXCEPT ![s] = @ + x]
           before == [y \in DOMAIN book |-> Abs(book[y])]
           after == [y \in DOMAIN moved |-> Abs(moved[y])]
<1>1. /\ moved \in [Traded -> Int] /\ moved[s] = book[s] + x
      /\ \A y \in Traded \ {s} : moved[y] = book[y]
  OBVIOUS
<1>2. book[s] \in Int
  OBVIOUS
<1> HIDE DEF moved
<1>3. Net(moved) = Net(book) + (moved[s] - book[s])
  BY <1>1, GatedBookAssumption, SumUpdate DEF Net
<1>4. Net(book) \in Int
  BY GatedBookAssumption, SumInt DEF Net
<1>5. Net(moved) = Net(book) + x
  BY <1>1, <1>2, <1>3, <1>4
<1>6. /\ before \in [Traded -> Int] /\ after \in [Traded -> Int]
      /\ before[s] = Abs(book[s]) /\ after[s] = Abs(book[s] + x)
      /\ \A y \in Traded \ {s} : after[y] = before[y]
  BY <1>1, <1>2 DEF Abs
<1>7. Gross(book) = SumFunction(before) /\ Gross(moved) = SumFunction(after)
  BY DEF Gross
<1> HIDE DEF before, after
<1>8. SumFunction(after) = SumFunction(before) + (after[s] - before[s])
  BY <1>6, GatedBookAssumption, SumUpdate
<1>9. Gross(moved) = Gross(book) + (Abs(book[s] + x) - Abs(book[s]))
  BY <1>6, <1>7, <1>8
<1> QED
  BY <1>1, <1>5, <1>9 DEF moved

-----------------------------------------------------------------------------

\* The inductive invariant.  Neither limit invariant is inductive alone: the
\* gate judges the position by limits the position must already be within,
\* and reads the gross and net figures only of a typed book.
LimitsInv == BookTypeOK /\ PositionWithinLimits /\ ExposureWithinLimits

\* Booking one actionable candidate keeps every limit.
LEMMA TradeKeepsLimits ==
    ASSUME LimitsInv, NEW c \in Candidates, Trade(c)
    PROVE  LimitsInv'
<1> DEFINE s == c.symbol
           e == ExposureOf(positions, s)
<1>1. c \in CandidateRequest(Traded) /\ c.direction # "NEUTRAL" /\ s \in Traded
  BY CandidatesAreRequests DEF CandidateRequest
<1>2. positions \in [Traded -> Int]
  BY DEF LimitsInv, BookTypeOK
<1>3. e \in Exposure
  BY <1>1, <1>2, ExposureTyped
<1>4. /\ e.position = positions[s] /\ e.gross = Gross(positions) /\ e.net = Net(positions)
  BY DEF ExposureOf
<1>5. /\ Actionable(Evaluate(c, e, health, market))
      /\ UNCHANGED <<market, health>>
  BY DEF Trade, Judge
<1> PICK k \in OrderSizes(c, Evaluate(c, e, health, market), Rounding) :
        positions' = [positions EXCEPT ![s] = @ + SignedSize(c.direction, k)]
  BY DEF Trade, Judge
<1> DEFINE x == SignedSize(c.direction, k)
<1>6. /\ Abs(positions[s]) <= Limits.maxPosition + Rounding
      /\ Abs(positions[s]) <= Limits.maxAssetExposure + Rounding
      /\ Gross(positions) <= Limits.maxGross + Rounding
      /\ Gross(positions) <= Limits.maxLeverage + Rounding
      /\ Abs(Net(positions)) <= Limits.maxNet + Rounding
  BY <1>1 DEF LimitsInv, PositionWithinLimits, ExposureWithinLimits
<1>7. /\ x \in Int
      /\ Abs(positions[s] + x) <= Limits.maxPosition + Rounding
      /\ Abs(positions[s] + x) <= Limits.maxAssetExposure + Rounding
      /\ Gross(positions) + k <= Limits.maxGross + Rounding
      /\ Gross(positions) + k <= Limits.maxLeverage + Rounding
      /\ Abs(Net(positions) + x) <= Limits.maxNet + Rounding
  BY <1>1, <1>3, <1>4, <1>5, <1>6, GateBoundsExposure
<1>8. k \in Nat /\ (x = k \/ x = -k)
  <2>1. k \in 1..c.size /\ c.size \in Nat
    BY <1>1, <1>3, <1>5, OrderRespectsEveryCap DEF CandidateRequest, Positive
  <2> QED
    BY <2>1 DEF SignedSize
<1>13. positions' = [positions EXCEPT ![s] = @ + x]
  OBVIOUS
<1> HIDE DEF x, e
<1>9. /\ positions' \in [Traded -> Int]
      /\ Net(positions') = Net(positions) + x
      /\ Gross(positions') = Gross(positions) + (Abs(positions[s] + x) - Abs(positions[s]))
  <2> HIDE DEF s
  <2>1. \A y \in Int :
          LET moved == [positions EXCEPT ![s] = @ + y]
          IN  /\ moved \in [Traded -> Int]
              /\ Net(moved) = Net(positions) + y
              /\ Gross(moved) = Gross(positions)
                                  + (Abs(positions[s] + y) - Abs(positions[s]))
    BY <1>1, <1>2, ExposureMoves
  <2>2. x \in Int
    BY <1>7
  <2>3. positions' = [positions EXCEPT ![s] = @ + x]
    BY <1>13 DEF s
  <2> QED
    BY <2>1, <2>2, <2>3
<1> HIDE DEF s
<1>10. BookTypeOK'
  BY <1>5, <1>9 DEF LimitsInv, BookTypeOK
<1>11. PositionWithinLimits'
  <2> SUFFICES ASSUME NEW y \in Traded
               PROVE  /\ Abs(positions'[y]) <= Limits.maxPosition + Rounding
                      /\ Abs(positions'[y]) <= Limits.maxAssetExposure + Rounding
    BY DEF PositionWithinLimits
  <2>1. CASE y = s
    BY <1>1, <1>2, <1>7, <1>13, <2>1
  <2>2. CASE y # s
    BY <1>1, <1>2, <1>13, <2>2 DEF LimitsInv, PositionWithinLimits
  <2> QED
    BY <2>1, <2>2
<1>12. ExposureWithinLimits'
  <2>1. positions[s] \in Int /\ Gross(positions) \in Nat
    BY <1>1, <1>2, <1>3, <1>4 DEF Exposure
  <2>2. Abs(positions[s] + x) - Abs(positions[s]) <= k
    BY <1>8, <2>1 DEF Abs
  <2>3. Abs(positions[s] + x) - Abs(positions[s]) \in Int
    BY <1>7, <2>1 DEF Abs
  <2>4. /\ Limits.maxGross \in Int /\ Limits.maxLeverage \in Int /\ Rounding \in Int
    BY LimitsAssumption DEF RiskLimits, Positive
  <2>5. /\ Gross(positions') <= Limits.maxGross + Rounding
        /\ Gross(positions') <= Limits.maxLeverage + Rounding
    BY <1>7, <1>8, <1>9, <2>1, <2>2, <2>3, <2>4
  <2> QED
    BY <1>7, <1>9, <2>5 DEF ExposureWithinLimits
<1> QED
  BY <1>10, <1>11, <1>12 DEF LimitsInv

\* An empty book is within every limit.
LEMMA InitWithinLimits == BookInit => LimitsInv
<1> SUFFICES ASSUME BookInit PROVE LimitsInv
  OBVIOUS
<1>1. positions \in [Traded -> Int] /\ \A s \in Traded : positions[s] = 0
  BY DEF BookInit
<1>2. BookTypeOK
  BY <1>1 DEF BookInit, BookTypeOK
<1>3. /\ Limits.maxPosition \in Nat /\ Limits.maxAssetExposure \in Nat
      /\ Limits.maxGross \in Nat /\ Limits.maxLeverage \in Nat /\ Limits.maxNet \in Nat
      /\ Rounding \in Nat
  BY LimitsAssumption DEF RiskLimits, Positive
<1>4. PositionWithinLimits
  BY <1>1, <1>3 DEF PositionWithinLimits, Abs
<1>5. Net(positions) = 0
  BY <1>1, GatedBookAssumption, SumZero DEF Net
<1>6. Gross(positions) = 0
  <2> DEFINE sizes == [x \in DOMAIN positions |-> Abs(positions[x])]
  <2>1. sizes \in [Traded -> Int] /\ \A s \in Traded : sizes[s] = 0
    BY <1>1 DEF Abs
  <2> HIDE DEF sizes
  <2>2. SumFunction(sizes) = 0
    BY <2>1, GatedBookAssumption, SumZero
  <2> QED
    BY <2>2 DEF Gross, sizes
<1> QED
  BY <1>2, <1>3, <1>4, <1>5, <1>6 DEF LimitsInv, ExposureWithinLimits, Abs

\* Every step of the system keeps every limit.
LEMMA NextKeepsLimits == LimitsInv /\ [BookNext]_bookVars => LimitsInv'
<1> SUFFICES ASSUME LimitsInv, [BookNext]_bookVars PROVE LimitsInv'
  OBVIOUS
<1>1. ASSUME NEW c \in Candidates, Trade(c)
      PROVE  LimitsInv'
  BY <1>1, TradeKeepsLimits
<1>2. ASSUME NEW c \in Candidates, Refuse(c)
      PROVE  LimitsInv'
  BY <1>2 DEF Refuse, bookVars, LimitsInv, BookTypeOK, PositionWithinLimits, ExposureWithinLimits
<1>3. CASE MarketMoves
  BY <1>3 DEF MarketMoves, LimitsInv, BookTypeOK, PositionWithinLimits, ExposureWithinLimits
<1>4. CASE HealthMoves
  BY <1>4 DEF HealthMoves, LimitsInv, BookTypeOK, PositionWithinLimits, ExposureWithinLimits
<1>5. CASE UNCHANGED bookVars
  BY <1>5 DEF bookVars, LimitsInv, BookTypeOK, PositionWithinLimits, ExposureWithinLimits
<1> QED
  BY <1>1, <1>2, <1>3, <1>4, <1>5 DEF BookNext

\* The hard limits hold of every reachable book, for every finite set of
\* symbols, every limit and every size: the position and asset limits of each
\* symbol, and the gross, leverage and net limits of the whole book.
THEOREM LimitsHold == BookSpec => [](BookTypeOK /\ PositionWithinLimits /\ ExposureWithinLimits)
<1>1. BookSpec => []LimitsInv
  BY InitWithinLimits, NextKeepsLimits, PTL DEF BookSpec
<1> QED
  BY <1>1, PTL DEF LimitsInv

\* Of the whole book: several symbols together stay within the gross, leverage
\* and net limits that evaluate() checks candidate by candidate.
THEOREM ExposureLimitsHold == BookSpec => []ExposureWithinLimits
BY LimitsHold, PTL

-----------------------------------------------------------------------------

\* In a typed book, a size that a REDUCE lets through stands when asked again.
LEMMA TypedBooksReduceOnce == BookTypeOK => ReducedSizeStands
<1> SUFFICES ASSUME BookTypeOK, NEW c \in Candidates, Judge(c).decision = "REDUCE",
                    NEW size \in OrderSizes(c, Judge(c), Rounding)
             PROVE  LET again == Judge([c EXCEPT !.size = size])
                    IN  \/ again.decision = "APPROVE"
                        \/ again.decision = "REDUCE" /\ again.sizing >= Judge(c).sizing
                        \/ again.decision = "REJECT" /\ Overshot(c.symbol)
  BY DEF ReducedSizeStands
<1> DEFINE e       == ExposureOf(positions, c.symbol)
           d       == Evaluate(c, e, health, market)
           reduced == [c EXCEPT !.size = size]
           caps    == SizingCaps(reduced, e)
           allowed == {cap.allowed : cap \in caps}
           again   == Evaluate(reduced, e, health, market)
<1>1. c \in CandidateRequest(Traded) /\ c.direction # "NEUTRAL" /\ c.symbol \in Traded
  BY CandidatesAreRequests DEF CandidateRequest
<1>2. e \in Exposure
  BY <1>1, ExposureTyped DEF BookTypeOK
<1>3. /\ e.position = positions[c.symbol] /\ e.net = Net(positions)
  BY DEF ExposureOf
<1>4. /\ Judge(c) = d /\ d.decision = "REDUCE" /\ size \in OrderSizes(c, d, Rounding)
      /\ Judge(reduced) = again
  BY <1>1 DEF Judge, CandidateRequest
<1>5. d.sizing \in Nat /\ 0 < d.sizing /\ HardReject(health, market) = {}
  <2>1. d.sizing \in Nat /\ 0 < d.sizing
    BY <1>1, <1>2, <1>4, SizingIsLeast
  <2> QED
    BY <1>4, <2>1 DEF Evaluate, Decision
<1>6. reduced \in CandidateRequest(Traded)
  <2>1. size \in 1..c.size /\ c.size \in Nat
    BY <1>1, <1>2, <1>4, OrderRespectsEveryCap DEF Actionable, CandidateRequest, Positive
  <2> QED
    BY <1>1, <2>1 DEF CandidateRequest, Positive
<1>7. \A cap \in caps : cap.allowed >= d.sizing \/ (cap.allowed = 0 /\ Overshot(c.symbol))
  BY <1>1, <1>2, <1>3, <1>4, CapsOfTheReduced DEF Overshot
<1>8. allowed \in SUBSET Nat
  BY <1>2, <1>6, CapsAllowNaturals
<1>9. /\ caps = {} => again.decision = "APPROVE"
      /\ caps # {} /\ Least(allowed) <= 0 => again.decision = "REJECT"
      /\ caps # {} /\ ~(Least(allowed) <= 0) =>
            again.decision = "REDUCE" /\ again.sizing = Least(allowed)
  <2>1. HardReject(health, market) = {}
    BY <1>5
  <2> HIDE DEF e, reduced
  <2> QED
    BY <2>1 DEF Evaluate, Decision
<1>10. ASSUME caps # {}
       PROVE  \/ Least(allowed) \in Nat /\ Least(allowed) >= d.sizing
              \/ Least(allowed) = 0 /\ Overshot(c.symbol)
  <2>1. Least(allowed) \in allowed
    <3>1. allowed # {}
      BY <1>10
    <3> HIDE DEF allowed
    <3> QED
      BY <1>8, <3>1, LeastIsLeast
  <2>2. \A y \in allowed : y >= d.sizing \/ (y = 0 /\ Overshot(c.symbol))
    BY <1>7
  <2> HIDE DEF allowed
  <2> QED
    BY <1>8, <2>1, <2>2
<1> HIDE DEF caps, again, d, allowed
<1>11. \/ again.decision = "APPROVE"
       \/ again.decision = "REDUCE" /\ again.sizing >= d.sizing
       \/ again.decision = "REJECT" /\ Overshot(c.symbol)
  <2>1. CASE caps # {} /\ Least(allowed) \in Nat /\ Least(allowed) >= d.sizing
    <3>1. ~(Least(allowed) <= 0)
      BY <1>5, <2>1
    <3> QED
      BY <1>9, <2>1, <3>1
  <2>2. CASE caps # {} /\ Least(allowed) = 0 /\ Overshot(c.symbol)
    BY <1>9, <2>2
  <2> QED
    BY <1>9, <1>10, <2>1, <2>2
<1> QED
  BY <1>4, <1>11 DEF reduced

\* In every book the gate can build, for every limit, size, stop and rounding,
\* a size that a REDUCE lets through is approved when it is asked for again,
\* cut to no less than was granted, or refused at a limit overshot before.
THEOREM ReducesStand == BookSpec => []ReducedSizeStands
BY LimitsHold, TypedBooksReduceOnce, PTL

-----------------------------------------------------------------------------

\* While any trigger holds, evaluate() is not actionable for any candidate,
\* and no step of the system moves the book: the kill switch, the breaker,
\* stale data, a wide spread and the account triggers all halt trading.
THEOREM TriggersHaltTrading == BookSpec => HaltStopsTrading
<1> DEFINE Halted ==
             \/ market.killSwitch
             \/ market.circuitBreaker
             \/ market.dataAge > Limits.maxDataAge
             \/ market.spread > Limits.maxSpread
             \/ health.dailyPnl <= -Limits.maxDailyLoss
             \/ health.weeklyPnl <= -Limits.maxWeeklyLoss
             \/ health.drawdown >= Limits.maxDrawdown
             \/ health.var > Limits.maxVar
<1>1. ASSUME BookTypeOK, Halted
      PROVE  HardReject(health, market) # {}
  <2> DEFINE checks == HardRejectChecks(health, market)
  <2>1. health.var > Limits.maxVar => health.var # Unset
    <3>1. health.var \in Int
      BY <1>1, GatedBookAssumption DEF BookTypeOK, PortfolioHealth
    <3>2. Limits.maxVar \in Nat
      BY LimitsAssumption DEF RiskLimits, Positive
    <3> QED
      BY <3>1, <3>2 DEF Unset
  <2>2. /\ checks[1].fires = market.killSwitch
        /\ checks[2].fires = market.circuitBreaker
        /\ checks[3].fires = (market.dataAge > Limits.maxDataAge)
        /\ checks[4].fires = (market.spread > Limits.maxSpread)
        /\ checks[5].fires = (health.dailyPnl <= -Limits.maxDailyLoss)
        /\ checks[6].fires = (health.weeklyPnl <= -Limits.maxWeeklyLoss)
        /\ checks[7].fires = (health.drawdown >= Limits.maxDrawdown)
        /\ checks[8].fires = (health.var # Unset /\ health.var > Limits.maxVar)
    BY DEF HardRejectChecks
  <2> HIDE DEF checks
  <2>3. \/ checks[1].fires \/ checks[2].fires \/ checks[3].fires \/ checks[4].fires
        \/ checks[5].fires \/ checks[6].fires \/ checks[7].fires \/ checks[8].fires
    BY <1>1, <2>1, <2>2, Zenon
  <2>4. \A i \in 1..8 : checks[i].fires => HardReject(health, market) # {}
    BY SomeTriggerRejects DEF checks
  <2>5. /\ 1 \in 1..8 /\ 2 \in 1..8 /\ 3 \in 1..8 /\ 4 \in 1..8
        /\ 5 \in 1..8 /\ 6 \in 1..8 /\ 7 \in 1..8 /\ 8 \in 1..8
    OBVIOUS
  <2> QED
    BY <2>3, <2>4, <2>5, Zenon
<1>2. ASSUME BookTypeOK, [BookNext]_bookVars, Halted
      PROVE  UNCHANGED positions
  <2>1. ASSUME NEW c \in Candidates, Trade(c)
        PROVE  FALSE
    <3>1. Judge(c).decision = "REJECT"
      BY <1>1, <1>2 DEF Judge, Evaluate, Decision
    <3> QED
      BY <2>1, <3>1 DEF Trade, Actionable
  <2> HIDE DEF Halted
  <2> QED
    BY <1>2, <2>1 DEF BookNext, Refuse, MarketMoves, HealthMoves, bookVars
<1>3. BookTypeOK /\ [BookNext]_bookVars => [Halted => UNCHANGED positions]_bookVars
  BY <1>2
<1>4. BookSpec => []BookTypeOK
  BY LimitsHold, PTL
<1> QED
  BY <1>3, <1>4, PTL DEF BookSpec, HaltStopsTrading

-----------------------------------------------------------------------------
(* The gate as the pipeline calls it                                       *)

\* A candidate the pipeline has judged.
Judged(s, signal) ==
    /\ s \in Symbols
    /\ signal \in Signals \ {NoSignal}
    /\ signal.stop # 0

LEMMA SignalTyped ==
    ASSUME NEW s, NEW signal, Judged(s, signal)
    PROVE  /\ signal.direction \in {"LONG", "SHORT"}
           /\ signal.stop \in Positive
           /\ signal.stop <= Limits.maxRiskPerTrade * Scale
           /\ Request(s, signal) \in CandidateRequest(Symbols)
<1>1. signal \in [direction : {"LONG", "SHORT"}, stop : Nat]
  BY PaperPipelineAssumption DEF Judged
<1>2. signal.direction \in {"LONG", "SHORT"} /\ signal.stop \in Positive
  BY <1>1 DEF Judged, Positive
<1>3. signal.stop <= Limits.maxRiskPerTrade * Scale
  BY PlaceholderAssumption DEF Judged
<1>4. Request(s, signal) \in CandidateRequest(Symbols)
  BY <1>2, PaperPipelineAssumption DEF Request, CandidateRequest, Directions, Judged
<1> QED
  BY <1>2, <1>3, <1>4

\* No hard reject fires on the placeholder account and market.
LEMMA PlaceholdersPass == HardReject(PlaceholderHealth, PlaceholderMarket) = {}
<1> DEFINE checks == HardRejectChecks(PlaceholderHealth, PlaceholderMarket)
<1>1. /\ Limits.maxDailyLoss \in Positive /\ Limits.maxWeeklyLoss \in Positive
      /\ Limits.maxDrawdown \in Positive
      /\ Limits.maxDataAge \in Nat /\ Limits.maxSpread \in Nat
  BY LimitsAssumption DEF RiskLimits, Positive
<1>2. /\ checks[1].fires = FALSE
      /\ checks[2].fires = FALSE
      /\ checks[3].fires = (1 > Limits.maxDataAge)
      /\ checks[4].fires = (5 > Limits.maxSpread)
      /\ checks[5].fires = (0 <= -Limits.maxDailyLoss)
      /\ checks[6].fires = (0 <= -Limits.maxWeeklyLoss)
      /\ checks[7].fires = (0 >= Limits.maxDrawdown)
      /\ checks[8].fires = (Unset # Unset /\ Unset > Limits.maxVar)
  BY DEF HardRejectChecks, PlaceholderHealth, PlaceholderMarket
<1>3. /\ ~(1 > Limits.maxDataAge) /\ ~(5 > Limits.maxSpread)
      /\ ~(0 <= -Limits.maxDailyLoss) /\ ~(0 <= -Limits.maxWeeklyLoss)
      /\ ~(0 >= Limits.maxDrawdown)
  BY <1>1, PlaceholderAssumption DEF Positive
<1> HIDE DEF checks
<1>4. /\ ~checks[1].fires /\ ~checks[2].fires /\ ~checks[3].fires /\ ~checks[4].fires
      /\ ~checks[5].fires /\ ~checks[6].fires /\ ~checks[7].fires /\ ~checks[8].fires
  BY <1>2, <1>3, Zenon
<1>5. \A i \in 1..8 : i = 1 \/ i = 2 \/ i = 3 \/ i = 4 \/ i = 5 \/ i = 6 \/ i = 7 \/ i = 8
  OBVIOUS
<1>6. \A i \in 1..8 : ~checks[i].fires
  BY <1>4, <1>5, Zenon
<1> QED
  BY <1>6, Zenon DEF HardReject, checks

\* Of the six caps only the distance of the stop can bind.
LEMMA OnlyTheStopCaps ==
    ASSUME NEW s, NEW signal, Judged(s, signal)
    PROVE  SizingCaps(Request(s, signal), NoExposure) = RiskPerTradeCap(Request(s, signal))
<1> DEFINE c == Request(s, signal)
           signed == Sign[c.direction] * c.size
<1>1. c.size = Requested /\ c.direction \in {"LONG", "SHORT"} /\ Requested \in Nat
  BY SignalTyped, PaperPipelineAssumption DEF Request, Positive
<1>2. signed \in Int /\ Abs(signed) = Requested /\ Abs(Requested) = Requested
  <2>1. Sign[c.direction] = 1 \/ Sign[c.direction] = -1
    BY <1>1 DEF Sign
  <2> HIDE DEF c
  <2> QED
    BY <1>1, <2>1 DEF Abs
<1>3. NoExposure.position = 0 /\ NoExposure.gross = 0 /\ NoExposure.net = 0
  BY DEF NoExposure
<1> HIDE DEF c, signed
<1>4. ASSUME NEW code, NEW limit, Requested <= limit
      PROVE  AddCap(code, 0, 0 + signed, limit) = {} /\ AddCap(code, 0, 0 + c.size, limit) = {}
  BY <1>1, <1>2, <1>4 DEF AddCap
<1>5. SizingCaps(c, NoExposure) = UNION {{}, RiskPerTradeCap(c)}
  <2>1. /\ AddCap("MAX_POSITION", 0, 0 + signed, Limits.maxPosition) = {}
        /\ AddCap("MAX_ASSET_EXPOSURE", 0, 0 + signed, Limits.maxAssetExposure) = {}
        /\ AddCap("MAX_GROSS_EXPOSURE", 0, 0 + c.size, Limits.maxGross) = {}
        /\ AddCap("MAX_LEVERAGE", 0, 0 + c.size, Limits.maxLeverage) = {}
        /\ AddCap("MAX_NET_EXPOSURE", 0, 0 + signed, Limits.maxNet) = {}
    BY <1>4, PlaceholderAssumption
  <2>2. SizingCaps(c, NoExposure) = UNION {
            AddCap("MAX_POSITION", 0, 0 + signed, Limits.maxPosition),
            AddCap("MAX_ASSET_EXPOSURE", 0, 0 + signed, Limits.maxAssetExposure),
            AddCap("MAX_GROSS_EXPOSURE", 0, 0 + c.size, Limits.maxGross),
            AddCap("MAX_LEVERAGE", 0, 0 + c.size, Limits.maxLeverage),
            AddCap("MAX_NET_EXPOSURE", 0, 0 + signed, Limits.maxNet),
            RiskPerTradeCap(c)}
    BY <1>3, Zenon DEF SizingCaps, signed
  <2> QED
    BY <2>1, <2>2
<1> QED
  BY <1>5 DEF c

\* So the decision is an approval, or a reduction to what the stop allows.
LEMMA DecideCases ==
    ASSUME NEW s, NEW signal, Judged(s, signal)
    PROVE  LET d == Decide(s, signal)
           IN  /\ \/ d.decision = "APPROVE"
                  \/ d.decision = "REDUCE" /\ d.reasons = {"RISK_PER_TRADE_LIMIT"}
               /\ Actionable(d)
               /\ \A size \in OrderSizes(Request(s, signal), d, Rounding) :
                    size \in 1..Requested /\ SizedBy(d, size)
<1> DEFINE c == Request(s, signal)
           F == FixedFractionalSize(c.stop)
           cap == [code |-> "RISK_PER_TRADE_LIMIT", allowed |-> F]
           d == Decide(s, signal)
<1>1. F \in Nat /\ F > 0
  <2>1. \A a \in Nat, b \in Nat \ {0} : b <= a => a \div b \in Nat /\ a \div b > 0
    OBVIOUS
  <2>2. Limits.maxRiskPerTrade * Scale \in Nat
    BY LimitsAssumption DEF RiskLimits, Positive
  <2>3. c.stop \in Nat \ {0} /\ c.stop <= Limits.maxRiskPerTrade * Scale
    BY SignalTyped DEF Request, Positive
  <2> QED
    BY <2>1, <2>2, <2>3 DEF FixedFractionalSize
<1>2. SizingCaps(c, NoExposure) \in {{}, {cap}}
  BY OnlyTheStopCaps DEF RiskPerTradeCap
<1>3. ASSUME SizingCaps(c, NoExposure) = {}
      PROVE  d.decision = "APPROVE"
  BY <1>3, PlaceholdersPass DEF Decide, Evaluate, Decision
<1>4. ASSUME SizingCaps(c, NoExposure) = {cap}
      PROVE  d.decision = "REDUCE" /\ d.reasons = {"RISK_PER_TRADE_LIMIT"}
  <2> DEFINE caps == SizingCaps(c, NoExposure)
  <2>1. /\ {x.allowed : x \in caps} = {F} /\ caps # {}
        /\ {x.code : x \in caps} = {"RISK_PER_TRADE_LIMIT"}
    BY <1>4
  <2>2. Least({F}) = F
    BY <1>1, LeastIsLeast
  <2> HIDE DEF F
  <2>3. ~(F <= 0)
    BY <1>1
  <2>4. d = Decision("REDUCE", {"RISK_PER_TRADE_LIMIT"}, F)
    BY <2>1, <2>2, <2>3, PlaceholdersPass, Zenon DEF Decide, Evaluate
  <2> QED
    BY <2>4 DEF Decision
<1>5. Actionable(d)
  BY <1>2, <1>3, <1>4 DEF Actionable
<1>6. \A k \in OrderSizes(c, d, Rounding) : k \in 1..Requested
  <2>1. NoExposure \in Exposure
    BY DEF NoExposure, Exposure
  <2>2. c \in CandidateRequest(Symbols) /\ c.direction # "NEUTRAL" /\ c.size = Requested
    BY SignalTyped DEF Request
  <2>3. \A k \in OrderSizes(c, d, Rounding) : k \in 1..c.size
    BY <1>5, <2>1, <2>2, OrderRespectsEveryCap DEF Decide
  <2> QED
    BY <2>2, <2>3
<1>7. ASSUME NEW k \in OrderSizes(c, d, Rounding)
      PROVE  SizedBy(d, k)
  <2>1. c.size = Requested /\ k \in 1..Requested /\ Requested \in Nat /\ Rounding \in Nat
    BY <1>6, <1>7, PaperPipelineAssumption, LimitsAssumption DEF Request, Positive
  <2>2. CASE d.decision = "REDUCE"
    <3>1. d.sizing \in Nat
      <4>1. NoExposure \in Exposure /\ c \in CandidateRequest(Symbols)
        BY SignalTyped DEF NoExposure, Exposure
      <4> QED
        BY <2>2, <4>1, SizingIsLeast DEF Decide
    <3>2. k - d.sizing \in (-Rounding)..Rounding
      BY <1>7, <2>2 DEF OrderSizes
    <3> HIDE DEF d
    <3> QED
      BY <2>1, <2>2, <3>1, <3>2 DEF SizedBy, Abs
  <2>3. CASE d.decision # "REDUCE"
    BY <1>7, <2>1, <2>3 DEF OrderSizes, SizedBy
  <2> QED
    BY <2>2, <2>3
<1> QED
  BY <1>2, <1>3, <1>4, <1>5, <1>6, <1>7

-----------------------------------------------------------------------------
(* The runs and their batches                                              *)

Fill ==
    [id : Runs \X Symbols, symbol : Symbols, direction : {"LONG", "SHORT"},
     size : 1..Requested, bar : Nat]

\* The variables, typed as far as the other invariants need.
Typed ==
    /\ TypeOK
    /\ DOMAIN work = Runs /\ \A r \in Runs : DOMAIN work[r] = Tables
    /\ DOMAIN draft = Runs
    /\ db["fills"] \subseteq Fill
    /\ \A r \in Runs : work[r]["fills"] \subseteq Fill

\* The fills a run has inserted are its own, one for each symbol it took, and
\* a run that is not under way has none.
Batches ==
    \A r \in Runs :
        /\ \A f \in work[r]["fills"] :
            /\ f.id[1] = r
            /\ \E i \in 1..(at[r] - 1) : f.symbol = SymbolOrder[i]
        /\ \A f, g \in work[r]["fills"] : f.symbol = g.symbol => f = g
        /\ pc[r] \notin {"symbol", "commit"} => work[r] = NoRows /\ seen[r] = {}

\* A fill in the table is of a run that committed.
Owned == \A f \in db["fills"] : pc[f.id[1]] = "committed"

CoreInv == Typed /\ Batches /\ Owned

\* The steps, with the two ways a run is rolled back taken together.
LEMMA Steps ==
    ASSUME [Next]_vars
    PROVE  \/ UNCHANGED vars
           \/ \E s \in Symbols : NewBar(s)
           \/ \E r \in Runs :
                \/ Start(r) \/ SkipSymbol(r) \/ ProcessSymbol(r) \/ Snapshot(r) \/ Commit(r)
                \/ pc[r] \in {"symbol", "commit"} /\ RollBack(r)
BY DEF Next, Advance, AbortOnSymbol, AtSymbol, Crash

\* What a symbol adds to the tables: the narrative only, or a judged candidate
\* with everything that follows from it.
Adds(r, s, rows) ==
    \/ rows = NarrativeOnly(r, s)
    \/ \E signal : /\ Judged(s, signal)
                  /\ \E size \in OrderSizes(Request(s, signal), Decide(s, signal), Rounding) :
                        rows = RowsOf(r, s, signal, size)

LEMMA TakenSymbol ==
    ASSUME TypeOK, NEW r \in Runs, AtSymbol(r)
    PROVE  at[r] \in 1..Len(SymbolOrder) /\ at[r] \in DOMAIN SymbolOrder
           /\ SymbolOrder[at[r]] \in Symbols
BY PaperPipelineAssumption DEF TypeOK, AtSymbol, Symbols

LEMMA ProcessedSymbol ==
    ASSUME Typed, NEW r \in Runs, ProcessSymbol(r)
    PROVE  /\ bars[SymbolOrder[at[r]]] \in Nat /\ bars[SymbolOrder[at[r]]] > 0
           /\ \E rows :
                /\ Adds(r, SymbolOrder[at[r]], rows)
                /\ \A t \in Tables : work'[r][t] = work[r][t] \cup rows[t]
           /\ DOMAIN work' = Runs /\ DOMAIN work'[r] = Tables
           /\ \A q \in Runs \ {r} : work'[q] = work[q]
<1> DEFINE s == SymbolOrder[at[r]]
<1>1. s \in Symbols /\ bars[s] \in Nat /\ bars[s] > 0
  BY TakenSymbol, PaperPipelineAssumption DEF ProcessSymbol, Typed, TypeOK
<1>2. PICK rows : Adds(r, s, rows) /\ Insert(r, rows)
  <2>1. CASE Insert(r, NarrativeOnly(r, s))
    BY <2>1 DEF Adds
  <2>2. ASSUME NEW signal \in Signals \ {NoSignal}, ~Raises(s, signal),
               NEW size \in OrderSizes(Request(s, signal), Decide(s, signal), Rounding),
               Insert(r, RowsOf(r, s, signal, size))
        PROVE  \E rows : Adds(r, s, rows) /\ Insert(r, rows)
    <3>1. Judged(s, signal)
      BY <1>1, <2>2 DEF Judged, Raises
    <3> QED
      BY <2>2, <3>1 DEF Adds
  <2> QED
    BY <2>1, <2>2 DEF ProcessSymbol
<1>3. Adds(r, s, rows)
  BY <1>2
<1>4. work' = [work EXCEPT ![r] = [t \in Tables |-> @[t] \cup rows[t]]]
  BY <1>2 DEF Insert
<1>5. /\ DOMAIN work' = Runs
      /\ work'[r] = [t \in Tables |-> work[r][t] \cup rows[t]]
      /\ \A q \in Runs \ {r} : work'[q] = work[q]
  BY <1>4 DEF Typed
<1> QED
  BY <1>1, <1>3, <1>5

\* A candidate's fill is the only one it adds, and of its own symbol.
LEMMA AddedFills ==
    ASSUME NEW r \in Runs, NEW s \in Symbols, bars[s] \in Nat,
           NEW rows, Adds(r, s, rows)
    PROVE  /\ rows["fills"] \subseteq Fill
           /\ \A f \in rows["fills"] : f.id = <<r, s>> /\ f.symbol = s
           /\ \A f, g \in rows["fills"] : f = g
<1>1. CASE rows = NarrativeOnly(r, s)
  BY <1>1 DEF NarrativeOnly, NoRows, Tables
<1>2. ASSUME NEW signal, Judged(s, signal),
             NEW size \in OrderSizes(Request(s, signal), Decide(s, signal), Rounding),
             rows = RowsOf(r, s, signal, size)
      PROVE  /\ rows["fills"] \subseteq Fill
             /\ \A f \in rows["fills"] : f.id = <<r, s>> /\ f.symbol = s
             /\ \A f, g \in rows["fills"] : f = g
  <2> DEFINE f == FillOf(Order(r, s, signal, size), bars[s])
  <2>1. rows["fills"] = {f}
    BY <1>2, DecideCases DEF RowsOf, Tables
  <2>2. f \in Fill /\ f.id = <<r, s>> /\ f.symbol = s
    BY <1>2, DecideCases, SignalTyped DEF FillOf, Order, Fill
  <2> QED
    BY <2>1, <2>2
<1> QED
  BY <1>1, <1>2 DEF Adds

LEMMA InitCore == Init => CoreInv
<1> SUFFICES ASSUME Init PROVE CoreInv
  OBVIOUS
<1>1. Len(SymbolOrder) \in Nat /\ MaxBars \in Nat
  BY PaperPipelineAssumption
<1>2. Typed
  BY <1>1 DEF Init, Typed, TypeOK, NoRows, Tables
<1>3. Batches /\ Owned
  BY DEF Init, Batches, Owned, NoRows, Tables
<1> QED
  BY <1>2, <1>3 DEF CoreInv

\* Steps that leave every row where it is.
LEMMA QuietKeepsCore ==
    ASSUME CoreInv,
           \/ UNCHANGED vars
           \/ \E s \in Symbols : NewBar(s)
           \/ \E r \in Runs : Start(r) \/ SkipSymbol(r) \/ Snapshot(r)
    PROVE  CoreInv'
<1> USE DEF CoreInv
<1>1. CASE UNCHANGED vars
  <2>1. Typed'
    BY <1>1 DEF vars, Typed, TypeOK
  <2>2. Batches'
    BY <1>1 DEF vars, Batches
  <2>3. Owned'
    BY <1>1 DEF vars, Owned
  <2> QED
    BY <2>1, <2>2, <2>3
<1>2. ASSUME NEW s \in Symbols, NewBar(s)
      PROVE  CoreInv'
  <2>1. bars' \in [Symbols -> 0..MaxBars]
    BY <1>2, PaperPipelineAssumption DEF NewBar, Typed, TypeOK
  <2> QED
    BY <1>2, <2>1 DEF NewBar, Typed, TypeOK, Batches, Owned
<1>3. ASSUME NEW r \in Runs, Start(r)
      PROVE  CoreInv'
  <2>1. TypeOK'
    BY <1>3 DEF Start, Typed, TypeOK
  <2>2. Typed'
    BY <1>3, <2>1 DEF Start, Typed
  <2>3. Batches'
    BY <1>3 DEF Start, Batches, Typed, TypeOK
  <2>4. Owned'
    BY <1>3 DEF Start, Owned, Typed, TypeOK, Fill
  <2> QED
    BY <2>2, <2>3, <2>4
<1>4. ASSUME NEW r \in Runs, SkipSymbol(r)
      PROVE  CoreInv'
  <2>1. at' = [at EXCEPT ![r] = at[r] + 1] /\ at[r] \in 1..Len(SymbolOrder)
    BY <1>4, TakenSymbol DEF SkipSymbol, NextSymbol, Typed
  <2>2. Len(SymbolOrder) \in Nat
    BY PaperPipelineAssumption
  <2>3. Typed'
    BY <1>4, <2>1, <2>2 DEF SkipSymbol, Typed, TypeOK
  <2>4. \A q \in Runs : at'[q] \in Nat /\ at[q] \in Nat /\ at[q] <= at'[q]
    BY <2>1, <2>2 DEF Typed, TypeOK
  <2>5. Batches'
    BY <1>4, <2>4 DEF SkipSymbol, Batches
  <2>6. Owned'
    BY <1>4 DEF SkipSymbol, Owned
  <2> QED
    BY <2>3, <2>5, <2>6
<1>5. ASSUME NEW r \in Runs, Snapshot(r)
      PROVE  CoreInv'
  <2>1. Typed'
    BY <1>5 DEF Snapshot, Typed, TypeOK
  <2>2. Batches'
    BY <1>5 DEF Snapshot, AtSnapshot, Batches, Typed, TypeOK
  <2>3. Owned'
    BY <1>5 DEF Snapshot, AtSnapshot, Owned, Typed, TypeOK, Fill
  <2> QED
    BY <2>1, <2>2, <2>3
<1> QED
  BY <1>1, <1>2, <1>3, <1>4, <1>5

\* A symbol adds at most one fill, for a symbol the run had not taken before.
LEMMA ProcessKeepsCore ==
    ASSUME CoreInv, NEW r \in Runs, ProcessSymbol(r)
    PROVE  CoreInv'
<1> USE DEF CoreInv
<1> DEFINE s == SymbolOrder[at[r]]
<1>1. /\ s \in Symbols /\ at[r] \in DOMAIN SymbolOrder /\ at[r] \in 1..Len(SymbolOrder)
      /\ Len(SymbolOrder) \in Nat
  BY TakenSymbol, PaperPipelineAssumption DEF ProcessSymbol, Typed
<1>2. /\ bars[s] \in Nat
      /\ DOMAIN work' = Runs /\ DOMAIN work'[r] = Tables
      /\ \A q \in Runs \ {r} : work'[q] = work[q]
  BY ProcessedSymbol
<1>3. PICK rows : /\ Adds(r, s, rows)
                  /\ \A t \in Tables : work'[r][t] = work[r][t] \cup rows[t]
  BY ProcessedSymbol
<1>4. /\ rows["fills"] \subseteq Fill
      /\ \A f \in rows["fills"] : f.id = <<r, s>> /\ f.symbol = s
      /\ \A f, g \in rows["fills"] : f = g
  BY <1>1, <1>2, <1>3, AddedFills
<1>5. work'[r]["fills"] = work[r]["fills"] \cup rows["fills"]
  BY <1>3 DEF Tables
<1>6. at' = [at EXCEPT ![r] = at[r] + 1]
  BY DEF ProcessSymbol, NextSymbol
<1>7. Typed'
  <2>1. priced' \in [Runs -> SUBSET Symbols]
    BY <1>1 DEF ProcessSymbol, Price, Typed, TypeOK
  <2>2. at' \in [Runs -> 1..(Len(SymbolOrder) + 1)]
    BY <1>1, <1>6 DEF Typed, TypeOK
  <2>3. TypeOK'
    BY <2>1, <2>2 DEF ProcessSymbol, Typed, TypeOK
  <2>4. \A q \in Runs : DOMAIN work'[q] = Tables /\ work'[q]["fills"] \subseteq Fill
    BY <1>2, <1>4, <1>5 DEF Typed
  <2> QED
    BY <1>2, <2>3, <2>4 DEF ProcessSymbol, Typed
<1>8. Batches'
  <2>1. ASSUME NEW q \in Runs, q # r
        PROVE  /\ work'[q] = work[q] /\ at'[q] = at[q]
               /\ pc'[q] = pc[q] /\ seen'[q] = seen[q]
    BY <1>2, <1>6, <2>1 DEF ProcessSymbol, Typed, TypeOK
  <2>2. at'[r] = at[r] + 1 /\ at[r] \in 1..(at'[r] - 1)
    BY <1>1, <1>6 DEF Typed, TypeOK
  <2>3. \A f \in work[r]["fills"] : f.symbol # s
    <3> SUFFICES ASSUME NEW f \in work[r]["fills"], f.symbol = s PROVE FALSE
      OBVIOUS
    <3>1. PICK i \in 1..(at[r] - 1) : SymbolOrder[i] = s
      BY DEF Batches
    <3>2. i \in DOMAIN SymbolOrder /\ i # at[r]
      BY <1>1, PaperPipelineAssumption
    <3> QED
      BY <1>1, <3>1, <3>2, PaperPipelineAssumption
  <2>4. \A f \in work'[r]["fills"] :
            f.id[1] = r /\ \E i \in 1..(at'[r] - 1) : f.symbol = SymbolOrder[i]
    <3>1. \A i \in 1..(at[r] - 1) : i \in 1..(at'[r] - 1)
      BY <1>1, <2>2
    <3> QED
      BY <1>4, <1>5, <2>2, <3>1 DEF Batches
  <2>5. \A f, g \in work'[r]["fills"] : f.symbol = g.symbol => f = g
    BY <1>4, <1>5, <2>3 DEF Batches
  <2>6. pc'[r] \in {"symbol", "commit"}
    BY DEF ProcessSymbol, AtSymbol
  <2> QED
    BY <2>1, <2>4, <2>5, <2>6 DEF Batches
<1>9. Owned'
  BY DEF ProcessSymbol, Owned
<1> QED
  BY <1>7, <1>8, <1>9

\* What End leaves of a run.
LEMMA Ended ==
    ASSUME Typed, NEW r \in Runs, NEW outcome \in {"committed", "rolled_back"}, End(r, outcome)
    PROVE  /\ pc' \in [Runs -> {"idle", "symbol", "commit", "committed", "rolled_back"}]
           /\ at' \in [Runs -> 1..(Len(SymbolOrder) + 1)]
           /\ priced' \in [Runs -> SUBSET Symbols]
           /\ DOMAIN work' = Runs /\ DOMAIN draft' = Runs /\ DOMAIN seen' = Runs
           /\ pc'[r] = outcome /\ work'[r] = NoRows /\ seen'[r] = {}
           /\ \A q \in Runs \ {r} :
                /\ pc'[q] = pc[q] /\ work'[q] = work[q] /\ seen'[q] = seen[q]
                /\ at'[q] = at[q] /\ draft'[q] = draft[q] /\ priced'[q] = priced[q]
<1>1. Len(SymbolOrder) \in Nat
  BY PaperPipelineAssumption
<1> QED
  BY <1>1 DEF End, Typed, TypeOK

LEMMA RollBackKeepsCore ==
    ASSUME CoreInv, NEW r \in Runs, pc[r] \in {"symbol", "commit"}, RollBack(r)
    PROVE  CoreInv'
<1> USE DEF CoreInv
<1>1. Typed /\ End(r, "rolled_back") /\ UNCHANGED <<bars, db, snapshots, clock>>
  BY DEF RollBack
<1>2. Typed'
  <2>1. seen' \in [Runs -> SUBSET db["fills"]]
    BY <1>1 DEF End, Typed, TypeOK
  <2>2. TypeOK'
    BY <1>1, <2>1, Ended DEF Typed, TypeOK
  <2>3. \A q \in Runs : DOMAIN work'[q] = Tables /\ work'[q]["fills"] \subseteq Fill
    BY <1>1, Ended DEF Typed, NoRows, Tables
  <2> QED
    BY <1>1, <2>2, <2>3, Ended DEF Typed
<1>3. Batches'
  <2>1. /\ work'[r] = NoRows /\ seen'[r] = {} /\ NoRows["fills"] = {}
        /\ \A q \in Runs \ {r} : /\ pc'[q] = pc[q] /\ work'[q] = work[q]
                                 /\ seen'[q] = seen[q] /\ at'[q] = at[q]
    BY <1>1, Ended DEF NoRows, Tables
  <2>2. Batches
    OBVIOUS
  <2> HIDE DEF CoreInv
  <2> QED
    BY <2>1, <2>2 DEF Batches
<1>4. Owned'
  <2>1. pc[r] # "committed" /\ \A q \in Runs \ {r} : pc'[q] = pc[q]
    BY <1>1, Ended
  <2>2. \A f \in db["fills"] : f.id[1] \in Runs
    BY DEF Typed, Fill
  <2>3. db' = db
    BY <1>1
  <2> HIDE DEF CoreInv
  <2> QED
    BY <2>1, <2>2, <2>3 DEF Owned, CoreInv
<1> QED
  BY <1>2, <1>3, <1>4

LEMMA CommitKeepsCore ==
    ASSUME CoreInv, NEW r \in Runs, Commit(r)
    PROVE  CoreInv'
<1> USE DEF CoreInv
<1>1. /\ Typed /\ End(r, "committed") /\ UNCHANGED <<bars, clock>>
      /\ db' = [t \in Tables |-> db[t] \cup work[r][t]]
  BY DEF Commit
<1>2. db'["fills"] = db["fills"] \cup work[r]["fills"]
  BY <1>1 DEF Tables
<1>3. Typed'
  <2>1. seen' \in [Runs -> SUBSET db'["fills"]]
    BY <1>1, <1>2 DEF End, Typed, TypeOK
  <2>2. TypeOK'
    BY <1>1, <2>1, Ended DEF Typed, TypeOK
  <2>3. \A q \in Runs : DOMAIN work'[q] = Tables /\ work'[q]["fills"] \subseteq Fill
    BY <1>1, Ended DEF Typed, NoRows, Tables
  <2> QED
    BY <1>1, <1>2, <2>2, <2>3, Ended DEF Typed
<1>4. Batches'
  <2>1. /\ work'[r] = NoRows /\ seen'[r] = {} /\ NoRows["fills"] = {}
        /\ \A q \in Runs \ {r} : /\ pc'[q] = pc[q] /\ work'[q] = work[q]
                                 /\ seen'[q] = seen[q] /\ at'[q] = at[q]
    BY <1>1, Ended DEF NoRows, Tables
  <2>2. Batches
    OBVIOUS
  <2> HIDE DEF CoreInv
  <2> QED
    BY <2>1, <2>2 DEF Batches
<1>5. Owned'
  <2>1. pc'[r] = "committed" /\ \A q \in Runs \ {r} : pc'[q] = pc[q]
    BY <1>1, Ended
  <2>2. /\ \A f \in db["fills"] : f.id[1] \in Runs
        /\ \A f \in work[r]["fills"] : f.id[1] = r
    BY DEF Typed, Fill, Batches
  <2> HIDE DEF CoreInv
  <2> QED
    BY <1>2, <2>1, <2>2 DEF Owned, CoreInv
<1> QED
  BY <1>3, <1>4, <1>5

LEMMA NextKeepsCore == CoreInv /\ [Next]_vars => CoreInv'
BY Steps, QuietKeepsCore, ProcessKeepsCore, RollBackKeepsCore, CommitKeepsCore

LEMMA CoreHolds == Spec => []CoreInv
BY InitCore, NextKeepsCore, PTL DEF Spec

-----------------------------------------------------------------------------
(* The audit trail                                                         *)

\* FillsFollowDecisions and OnlyTheStopReduces, of any rows.
Complete(W) ==
    /\ \A f \in W["fills"] :
        /\ \E o \in W["paper_orders"] :
            /\ o.id = f.id /\ o.symbol = f.symbol
            /\ o.direction = f.direction /\ o.size = f.size
        /\ \E d \in W["risk_decisions"] :
            /\ d.run = f.id[1] /\ d.symbol = f.symbol /\ Actionable(d)
            /\ SizedBy(d, f.size)
            /\ \E n \in W["council_narratives"] :
                n.run = d.run /\ n.symbol = d.symbol /\ n.decision = d.decision
        /\ \E g \in W["signals"] :
            g.run = f.id[1] /\ g.symbol = f.symbol /\ g.direction = f.direction
    /\ \A d \in W["risk_decisions"] :
        Actionable(d) => \E f \in W["fills"] : f.id = <<d.run, d.symbol>>

OnlyStops(W) ==
    \A d \in W["risk_decisions"] :
        \/ d.decision = "APPROVE"
        \/ d.decision = "REDUCE" /\ d.reasons = {"RISK_PER_TRADE_LIMIT"}

\* The narratives and fills of a run carry its name.
OfRun(W, r) ==
    /\ \A n \in W["council_narratives"] : n.run = r
    /\ \A f \in W["fills"] : f.id[1] = r

Sound(W) == Complete(W) /\ OnlyStops(W)

\* Sound rows added to sound rows are sound.
LEMMA SoundUnion ==
    ASSUME NEW A, NEW B, NEW C, Sound(A), Sound(B),
           \A t \in Tables : C[t] = A[t] \cup B[t]
    PROVE  Sound(C)
<1>1. /\ C["fills"] = A["fills"] \cup B["fills"]
      /\ C["signals"] = A["signals"] \cup B["signals"]
      /\ C["risk_decisions"] = A["risk_decisions"] \cup B["risk_decisions"]
      /\ C["council_narratives"] = A["council_narratives"] \cup B["council_narratives"]
      /\ C["paper_orders"] = A["paper_orders"] \cup B["paper_orders"]
  BY DEF Tables
<1>2. OnlyStops(C)
  BY <1>1 DEF Sound, OnlyStops
<1>3. ASSUME NEW W, W = A \/ W = B
      PROVE  /\ Complete(W)
             /\ W["fills"] \subseteq C["fills"] /\ W["signals"] \subseteq C["signals"]
             /\ W["risk_decisions"] \subseteq C["risk_decisions"]
             /\ W["council_narratives"] \subseteq C["council_narratives"]
             /\ W["paper_orders"] \subseteq C["paper_orders"]
  BY <1>1, <1>3 DEF Sound
<1>4. ASSUME NEW f \in C["fills"]
      PROVE  /\ \E o \in C["paper_orders"] :
                 /\ o.id = f.id /\ o.symbol = f.symbol
                 /\ o.direction = f.direction /\ o.size = f.size
             /\ \E d \in C["risk_decisions"] :
                 /\ d.run = f.id[1] /\ d.symbol = f.symbol /\ Actionable(d)
                 /\ SizedBy(d, f.size)
                 /\ \E n \in C["council_narratives"] :
                     n.run = d.run /\ n.symbol = d.symbol /\ n.decision = d.decision
             /\ \E g \in C["signals"] :
                 g.run = f.id[1] /\ g.symbol = f.symbol /\ g.direction = f.direction
  <2>1. PICK W \in {A, B} : f \in W["fills"]
    BY <1>1, Zenon
  <2>2. /\ Complete(W)
        /\ W["signals"] \subseteq C["signals"]
        /\ W["risk_decisions"] \subseteq C["risk_decisions"]
        /\ W["council_narratives"] \subseteq C["council_narratives"]
        /\ W["paper_orders"] \subseteq C["paper_orders"]
    BY <1>3, Zenon
  <2> QED
    BY <2>1, <2>2 DEF Complete
<1>5. ASSUME NEW d \in C["risk_decisions"], Actionable(d)
      PROVE  \E f \in C["fills"] : f.id = <<d.run, d.symbol>>
  <2>1. PICK W \in {A, B} : d \in W["risk_decisions"]
    BY <1>1, Zenon
  <2>2. Complete(W) /\ W["fills"] \subseteq C["fills"]
    BY <1>3, Zenon
  <2> QED
    BY <1>5, <2>1, <2>2 DEF Complete
<1>6. Complete(C)
  BY <1>4, <1>5 DEF Complete
<1> QED
  BY <1>2, <1>6 DEF Sound

LEMMA NoRowsSound == Sound(NoRows) /\ \A r \in Runs : OfRun(NoRows, r)
BY DEF Sound, Complete, OnlyStops, OfRun, NoRows, Tables

\* Whatever a symbol adds is sound: the rows of a candidate tell one story.
LEMMA AddedSound ==
    ASSUME NEW r \in Runs, NEW s \in Symbols, NEW rows, Adds(r, s, rows)
    PROVE  Sound(rows) /\ OfRun(rows, r)
<1>1. CASE rows = NarrativeOnly(r, s)
  <2>1. /\ rows["council_narratives"] = {[run |-> r, symbol |-> s, decision |-> "none"]}
        /\ rows["fills"] = {} /\ rows["risk_decisions"] = {}
    BY <1>1 DEF NarrativeOnly, NoRows, Tables
  <2> QED
    BY <2>1 DEF Sound, Complete, OnlyStops, OfRun
<1>2. ASSUME NEW signal, Judged(s, signal),
             NEW size \in OrderSizes(Request(s, signal), Decide(s, signal), Rounding),
             rows = RowsOf(r, s, signal, size)
      PROVE  Sound(rows) /\ OfRun(rows, r)
  <2> DEFINE d == Decide(s, signal)
             order == Order(r, s, signal, size)
             fill == FillOf(order, bars[s])
             row == [run |-> r, symbol |-> s, decision |-> d.decision, sizing |-> d.sizing,
                     reasons |-> d.reasons]
  <2>1. /\ Actionable(d)
        /\ \/ d.decision = "APPROVE"
           \/ d.decision = "REDUCE" /\ d.reasons = {"RISK_PER_TRADE_LIMIT"}
        /\ SizedBy(d, size)
    BY <1>2, DecideCases
  <2>2. /\ rows["signals"] = {[run |-> r, symbol |-> s, direction |-> signal.direction]}
        /\ rows["risk_decisions"] = {row}
        /\ rows["council_narratives"] = {[run |-> r, symbol |-> s, decision |-> d.decision]}
        /\ rows["paper_orders"] = {order}
        /\ rows["fills"] = {fill}
    BY <1>2, <2>1 DEF RowsOf, Tables
  <2>3. /\ order.id = <<r, s>> /\ order.symbol = s /\ order.direction = signal.direction
        /\ order.size = size
    BY DEF Order
  <2>4. /\ fill.id = <<r, s>> /\ fill.symbol = s /\ fill.direction = signal.direction
        /\ fill.size = order.size
    BY <2>3 DEF FillOf
  <2> HIDE DEF d, order, fill
  <2>5. OnlyStops(rows)
    BY <2>1, <2>2 DEF OnlyStops
  <2>6. Actionable(row) /\ row.run = r /\ row.symbol = s /\ row.decision = d.decision
        /\ SizedBy(row, size)
    BY <2>1 DEF Actionable, SizedBy
  <2> HIDE DEF row
  <2>7. Complete(rows)
    <3>1. \A f \in rows["fills"] : f = fill
      BY <2>2
    <3>2. /\ order \in rows["paper_orders"] /\ row \in rows["risk_decisions"]
          /\ [run |-> r, symbol |-> s, decision |-> d.decision] \in rows["council_narratives"]
          /\ [run |-> r, symbol |-> s, direction |-> signal.direction] \in rows["signals"]
          /\ fill \in rows["fills"]
      BY <2>2
    <3>3. fill.id[1] = r
      BY <2>4
    <3>4. \A x \in rows["risk_decisions"] : x = row
      BY <2>2
    <3> QED
      BY <2>3, <2>4, <2>6, <3>1, <3>2, <3>3, <3>4 DEF Complete
  <2> QED
    BY <2>2, <2>4, <2>5, <2>7 DEF Sound, OfRun
<1> QED
  BY <1>1, <1>2 DEF Adds

\* What a step does to the rows: nothing, or for one run a symbol's rows are
\* added, all are dropped, or all are moved into the tables.
LEMMA TableSteps ==
    ASSUME CoreInv, [Next]_vars
    PROVE  \/ /\ UNCHANGED <<db, work, snapshots>>
              /\ \A q \in Runs : pc[q] = "committed" <=> pc'[q] = "committed"
           \/ \E r \in Runs :
                /\ \A q \in Runs \ {r} : work'[q] = work[q] /\ pc'[q] = pc[q]
                /\ \/ /\ db' = db /\ snapshots' = snapshots /\ pc'[r] = pc[r]
                      /\ \E rows : \E s \in Symbols :
                            /\ Adds(r, s, rows)
                            /\ \A t \in Tables : work'[r][t] = work[r][t] \cup rows[t]
                   \/ /\ db' = db /\ snapshots' = snapshots /\ work'[r] = NoRows
                      /\ pc[r] # "committed" /\ pc'[r] # "committed"
                   \/ /\ Commit(r) /\ work'[r] = NoRows
                      /\ \A t \in Tables : db'[t] = db[t] \cup work[r][t]
                      /\ pc[r] = "commit" /\ pc'[r] = "committed"
<1> USE DEF CoreInv
<1>1. CASE UNCHANGED vars
  BY <1>1 DEF vars
<1>2. ASSUME NEW s \in Symbols, NewBar(s)
      PROVE  UNCHANGED <<db, work, snapshots>> /\ pc' = pc
  BY <1>2 DEF NewBar
<1>3. ASSUME NEW r \in Runs, Start(r) \/ SkipSymbol(r) \/ Snapshot(r)
      PROVE  /\ UNCHANGED <<db, work, snapshots>>
             /\ \A q \in Runs : pc[q] = "committed" <=> pc'[q] = "committed"
  BY <1>3 DEF Start, SkipSymbol, Snapshot, AtSnapshot, Typed, TypeOK
<1>4. ASSUME NEW r \in Runs, ProcessSymbol(r)
      PROVE  /\ \A q \in Runs \ {r} : work'[q] = work[q] /\ pc'[q] = pc[q]
             /\ db' = db /\ snapshots' = snapshots /\ pc'[r] = pc[r]
             /\ \E rows : \E s \in Symbols :
                    /\ Adds(r, s, rows)
                    /\ \A t \in Tables : work'[r][t] = work[r][t] \cup rows[t]
  <2>1. UNCHANGED <<db, snapshots, pc>> /\ SymbolOrder[at[r]] \in Symbols
    BY <1>4, TakenSymbol DEF ProcessSymbol, Typed
  <2> QED
    BY <1>4, <2>1, ProcessedSymbol
<1>5. ASSUME NEW r \in Runs, pc[r] \in {"symbol", "commit"}, RollBack(r)
      PROVE  /\ \A q \in Runs \ {r} : work'[q] = work[q] /\ pc'[q] = pc[q]
             /\ db' = db /\ snapshots' = snapshots /\ work'[r] = NoRows
             /\ pc[r] # "committed" /\ pc'[r] # "committed"
  BY <1>5, Ended DEF RollBack
<1>6. ASSUME NEW r \in Runs, Commit(r)
      PROVE  /\ \A q \in Runs \ {r} : work'[q] = work[q] /\ pc'[q] = pc[q]
             /\ work'[r] = NoRows
             /\ \A t \in Tables : db'[t] = db[t] \cup work[r][t]
             /\ pc[r] = "commit" /\ pc'[r] = "committed"
  BY <1>6, Ended DEF Commit
<1> QED
  BY <1>1, <1>2, <1>3, <1>4, <1>5, <1>6, Steps

\* Sound rows everywhere, and narratives in the table only of committed runs.
Audit ==
    /\ Sound(db)
    /\ \A r \in Runs : Sound(work[r]) /\ OfRun(work[r], r)
    /\ \A n \in db["council_narratives"] : n.run \in Runs /\ pc[n.run] = "committed"

LEMMA InitAudit == Init => Audit
BY NoRowsSound DEF Init, Audit, NoRows, Tables

LEMMA NextKeepsAudit ==
    ASSUME CoreInv, Audit, [Next]_vars
    PROVE  Audit'
<1>1. ASSUME UNCHANGED <<db, work, snapshots>>,
             \A q \in Runs : pc[q] = "committed" <=> pc'[q] = "committed"
      PROVE  Audit'
  <2>1. Sound(db') /\ \A q \in Runs : Sound(work'[q]) /\ OfRun(work'[q], q)
    BY <1>1 DEF Audit
  <2>2. \A n \in db'["council_narratives"] : n.run \in Runs /\ pc'[n.run] = "committed"
    BY <1>1 DEF Audit
  <2> QED
    BY <2>1, <2>2 DEF Audit, Sound, Complete, OnlyStops, OfRun
<1>2. ASSUME NEW r \in Runs, \A q \in Runs \ {r} : work'[q] = work[q] /\ pc'[q] = pc[q],
             db' = db, pc'[r] = pc[r] \/ pc[r] # "committed",
             Sound(work'[r]) /\ OfRun(work'[r], r)
      PROVE  Audit'
  <2>1. Sound(db')
    BY <1>2 DEF Audit
  <2>2. \A q \in Runs : Sound(work'[q]) /\ OfRun(work'[q], q)
    BY <1>2 DEF Audit
  <2>3. \A n \in db'["council_narratives"] : n.run \in Runs /\ pc'[n.run] = "committed"
    BY <1>2 DEF Audit
  <2> QED
    BY <2>1, <2>2, <2>3 DEF Audit, Sound, Complete, OnlyStops, OfRun
<1>3. ASSUME NEW r \in Runs, NEW s \in Symbols, NEW rows, Adds(r, s, rows),
             \A t \in Tables : work'[r][t] = work[r][t] \cup rows[t]
      PROVE  Sound(work'[r]) /\ OfRun(work'[r], r)
  <2>1. Sound(work[r]) /\ OfRun(work[r], r) /\ Sound(rows) /\ OfRun(rows, r)
    BY <1>3, AddedSound DEF Audit
  <2>2. Sound(work'[r])
    BY <1>3, <2>1, SoundUnion
  <2>3. OfRun(work'[r], r)
    BY <1>3, <2>1 DEF OfRun, Tables
  <2> QED
    BY <2>2, <2>3
<1>4. ASSUME NEW r \in Runs, \A q \in Runs \ {r} : work'[q] = work[q] /\ pc'[q] = pc[q],
             \A t \in Tables : db'[t] = db[t] \cup work[r][t],
             work'[r] = NoRows, pc'[r] = "committed"
      PROVE  Audit'
  <2>1. Sound(db')
    BY <1>4, SoundUnion DEF Audit
  <2>2. \A q \in Runs : Sound(work'[q]) /\ OfRun(work'[q], q)
    BY <1>4, NoRowsSound DEF Audit
  <2>3. \A n \in db'["council_narratives"] : n.run \in Runs /\ pc'[n.run] = "committed"
    BY <1>4 DEF Audit, OfRun, Tables
  <2> QED
    BY <2>1, <2>2, <2>3 DEF Audit, Sound, Complete, OnlyStops, OfRun
<1>5. ASSUME NEW r \in Runs, \A q \in Runs \ {r} : work'[q] = work[q] /\ pc'[q] = pc[q],
             db' = db, pc'[r] = pc[r],
             \E rows : \E s \in Symbols :
                /\ Adds(r, s, rows)
                /\ \A t \in Tables : work'[r][t] = work[r][t] \cup rows[t]
      PROVE  Audit'
  <2>1. Sound(work'[r]) /\ OfRun(work'[r], r)
    BY <1>3, <1>5
  <2> QED
    BY <1>2, <1>5, <2>1
<1>6. ASSUME NEW r \in Runs, \A q \in Runs \ {r} : work'[q] = work[q] /\ pc'[q] = pc[q],
             db' = db, work'[r] = NoRows, pc[r] # "committed"
      PROVE  Audit'
  BY <1>2, <1>6, NoRowsSound
<1> QED
  BY <1>1, <1>4, <1>5, <1>6, TableSteps, Zenon

-----------------------------------------------------------------------------
(* The snapshots                                                           *)

Nets == {NetOf(F) : F \in SUBSET Fill}
\* FillsOfRuns, of any fills.
OfRuns(F, R) == {f \in F : f.id[1] \in R}

SnapshotRow == [run : Runs, time : Nat, net : Nets, seen : SUBSET Fill]

\* Exactly the committed runs have a snapshot, one each, and it is the ledger
\* the run replayed with its own fills.
Accounts ==
    /\ snapshots \in Seq(SnapshotRow)
    /\ \A i \in DOMAIN snapshots :
        /\ pc[snapshots[i].run] = "committed"
        /\ snapshots[i].net =
                NetOf(snapshots[i].seen \cup OfRuns(db["fills"], {snapshots[i].run}))
    /\ \A r \in Runs : pc[r] = "committed" =>
        \E i \in DOMAIN snapshots : snapshots[i].run = r
    /\ \A i, j \in DOMAIN snapshots : snapshots[i].run = snapshots[j].run => i = j

\* What a run will commit is what it knows.
Drafts ==
    \A r \in Runs : pc[r] = "commit" =>
        /\ draft[r].time \in Nat
        /\ draft[r].net = Book(r)
        /\ draft[r].seen = seen[r]

LEMMA SnapshotTyped ==
    ASSUME Accounts, NEW i \in DOMAIN snapshots
    PROVE  snapshots[i] \in SnapshotRow /\ snapshots[i].run \in Runs
<1>1. snapshots[i] \in SnapshotRow
  BY DEF Accounts
<1> QED
  BY <1>1 DEF SnapshotRow

LEMMA InitAccounts == Init => Accounts /\ Drafts
BY DEF Init, Accounts, Drafts

LEMMA NextKeepsDrafts ==
    ASSUME CoreInv, Drafts, [Next]_vars
    PROVE  Drafts'
<1> USE DEF CoreInv
<1>1. CASE UNCHANGED vars
  BY <1>1 DEF vars, Drafts, Book
<1>2. ASSUME NEW s \in Symbols, NewBar(s)
      PROVE  Drafts'
  BY <1>2 DEF NewBar, Drafts, Book
<1>3. ASSUME NEW r \in Runs, pc'[r] # "commit",
             \A q \in Runs \ {r} : /\ pc'[q] = pc[q] /\ draft'[q] = draft[q]
                                   /\ seen'[q] = seen[q] /\ work'[q] = work[q]
      PROVE  Drafts'
  BY <1>3 DEF Drafts, Book
<1>4. ASSUME NEW r \in Runs, Start(r) \/ SkipSymbol(r)
      PROVE  Drafts'
  BY <1>3, <1>4 DEF Start, SkipSymbol, AtSymbol, Typed, TypeOK
<1>5. ASSUME NEW r \in Runs, ProcessSymbol(r)
      PROVE  Drafts'
  BY <1>3, <1>5, ProcessedSymbol DEF ProcessSymbol, AtSymbol
<1>6. ASSUME NEW r \in Runs, Snapshot(r)
      PROVE  Drafts'
  <2>1. /\ draft'[r] = [time |-> clock + 1, net |-> Book(r), seen |-> seen[r]]
        /\ clock + 1 \in Nat
        /\ UNCHANGED <<seen, work>>
    BY <1>6 DEF Snapshot, Typed, TypeOK
  <2>2. \A q \in Runs \ {r} : pc'[q] = pc[q] /\ draft'[q] = draft[q]
    BY <1>6 DEF Snapshot, Typed, TypeOK
  <2>3. \A q \in Runs : Book(q)' = Book(q)
    BY <2>1 DEF Book
  <2> QED
    BY <2>1, <2>2, <2>3 DEF Drafts
<1>7. ASSUME NEW r \in Runs, RollBack(r) \/ Commit(r)
      PROVE  Drafts'
  BY <1>3, <1>7, Ended DEF RollBack, Commit
<1> QED
  BY <1>1, <1>2, <1>4, <1>5, <1>6, <1>7, Steps

\* A committed run's fills are the ones it inserted, and nobody adds to them.
LEMMA CommittedFills ==
    ASSUME CoreInv, NEW r \in Runs, Commit(r)
    PROVE  /\ OfRuns(db'["fills"], {r}) = work[r]["fills"]
           /\ work[r]["fills"] \cap db["fills"] = {}
           /\ db'["fills"] = db["fills"] \cup work[r]["fills"]
           /\ \A q \in Runs \ {r} : OfRuns(db'["fills"], {q}) = OfRuns(db["fills"], {q})
<1>1. db'["fills"] = db["fills"] \cup work[r]["fills"] /\ pc[r] = "commit"
  BY DEF Commit, Tables
<1>2. /\ \A f \in work[r]["fills"] : f.id[1] = r
      /\ \A f \in db["fills"] : f.id[1] # r
  BY <1>1 DEF CoreInv, Batches, Owned
<1> QED
  BY <1>1, <1>2 DEF OfRuns

LEMMA CommitKeepsAccounts ==
    ASSUME CoreInv, Accounts, Drafts, NEW r \in Runs, Commit(r)
    PROVE  Accounts'
<1> DEFINE row == [run |-> r, time |-> draft[r].time, net |-> draft[r].net, seen |-> draft[r].seen]
<1>1. /\ snapshots' = Append(snapshots, row)
      /\ pc[r] = "commit" /\ pc'[r] = "committed"
      /\ \A q \in Runs \ {r} : pc'[q] = pc[q]
  BY Ended DEF Commit, CoreInv
<1>2. /\ row.run = r /\ row.seen = seen[r]
      /\ row.net = NetOf(row.seen \cup work[r]["fills"])
  BY <1>1 DEF Drafts, Book
<1>3. row \in SnapshotRow
  <2>1. draft[r].time \in Nat
    BY <1>1 DEF Drafts
  <2>2. seen[r] \subseteq Fill /\ work[r]["fills"] \subseteq Fill
    BY DEF CoreInv, Typed, TypeOK
  <2>3. NetOf(seen[r] \cup work[r]["fills"]) \in Nets
    BY <2>2 DEF Nets
  <2>4. row.time = draft[r].time /\ row.net = NetOf(seen[r] \cup work[r]["fills"])
    BY <1>2
  <2> QED
    BY <1>2, <2>1, <2>2, <2>3, <2>4 DEF SnapshotRow
<1> HIDE DEF row
<1>4. /\ snapshots' \in Seq(SnapshotRow)
      /\ DOMAIN snapshots = 1..Len(snapshots) /\ Len(snapshots) \in Nat
      /\ DOMAIN snapshots' = 1..(Len(snapshots) + 1)
      /\ \A i \in DOMAIN snapshots : snapshots'[i] = snapshots[i]
      /\ snapshots'[Len(snapshots) + 1] = row
  BY <1>1, <1>3 DEF Accounts
<1>5. \A i \in DOMAIN snapshots' : i \in DOMAIN snapshots \/ i = Len(snapshots) + 1
  BY <1>4
<1>6. \A i \in DOMAIN snapshots : snapshots[i].run \in Runs \ {r}
  BY <1>1, SnapshotTyped DEF Accounts
<1>7. \A i \in DOMAIN snapshots' :
        /\ pc'[snapshots'[i].run] = "committed"
        /\ snapshots'[i].net =
                NetOf(snapshots'[i].seen \cup OfRuns(db'["fills"], {snapshots'[i].run}))
  <2>1. ASSUME NEW i \in DOMAIN snapshots
        PROVE  /\ pc'[snapshots'[i].run] = "committed"
               /\ snapshots'[i].net =
                NetOf(snapshots'[i].seen \cup OfRuns(db'["fills"], {snapshots'[i].run}))
    <3>1. snapshots'[i] = snapshots[i] /\ snapshots[i].run \in Runs \ {r}
      BY <1>4, <1>6
    <3>2. OfRuns(db'["fills"], {snapshots'[i].run})
            = OfRuns(db["fills"], {snapshots[i].run})
      BY <3>1, CommittedFills
    <3> QED
      BY <1>1, <3>1, <3>2 DEF Accounts
  <2>2. /\ pc'[row.run] = "committed"
        /\ row.net = NetOf(row.seen \cup OfRuns(db'["fills"], {row.run}))
    BY <1>1, <1>2, CommittedFills
  <2> QED
    BY <1>4, <1>5, <2>1, <2>2
<1>8. \A q \in Runs : pc'[q] = "committed" => \E i \in DOMAIN snapshots' : snapshots'[i].run = q
  <2>1. ASSUME NEW q \in Runs, pc'[q] = "committed", q # r
        PROVE  \E i \in DOMAIN snapshots' : snapshots'[i].run = q
    <3>1. PICK i \in DOMAIN snapshots : snapshots[i].run = q
      BY <1>1, <2>1 DEF Accounts
    <3> QED
      BY <1>4, <3>1
  <2>2. Len(snapshots) + 1 \in DOMAIN snapshots'
    BY <1>4
  <2> QED
    BY <1>2, <1>4, <2>1, <2>2
<1>9. \A i, j \in DOMAIN snapshots' : snapshots'[i].run = snapshots'[j].run => i = j
  BY <1>2, <1>4, <1>5, <1>6 DEF Accounts
<1> QED
  BY <1>4, <1>7, <1>8, <1>9 DEF Accounts

LEMMA NextKeepsAccounts ==
    ASSUME CoreInv, Accounts, Drafts, [Next]_vars
    PROVE  Accounts'
<1>1. ASSUME snapshots' = snapshots, db' = db,
             \A q \in Runs : pc[q] = "committed" <=> pc'[q] = "committed"
      PROVE  Accounts'
  <2>1. \A i \in DOMAIN snapshots : snapshots[i].run \in Runs
    BY SnapshotTyped
  <2> QED
    BY <1>1, <2>1 DEF Accounts
<1>2. \/ /\ snapshots' = snapshots /\ db' = db
         /\ \A q \in Runs : pc[q] = "committed" <=> pc'[q] = "committed"
      \/ \E r \in Runs : Commit(r)
  BY TableSteps
<1> QED
  BY <1>1, <1>2, CommitKeepsAccounts

-----------------------------------------------------------------------------

PipelineInv == CoreInv /\ Audit /\ Accounts /\ Drafts

LEMMA PipelineInvHolds == Spec => []PipelineInv
<1>1. Init => PipelineInv
  BY InitCore, InitAudit, InitAccounts DEF PipelineInv
<1>2. PipelineInv /\ [Next]_vars => PipelineInv'
  BY NextKeepsCore, NextKeepsAudit, NextKeepsDrafts, NextKeepsAccounts DEF PipelineInv
<1> QED
  BY <1>1, <1>2, PTL DEF Spec

\* For any number of runs, in any overlap, with crashes and rollbacks at any
\* statement, the audit trail of the tables is complete: no fill without its
\* order, decision, signal and narrative, no actionable decision without a fill.
THEOREM AuditTrailIsComplete == Spec => [](TypeOK /\ FillsFollowDecisions)
<1>1. PipelineInv => TypeOK
  BY DEF PipelineInv, CoreInv, Typed
<1>2. PipelineInv => FillsFollowDecisions
  BY DEF PipelineInv, Audit, Sound, Complete, FillsFollowDecisions
<1> QED
  BY <1>1, <1>2, PipelineInvHolds, PTL

\* A run is in the tables with its one snapshot, or not at all.
THEOREM RunsAreAllOrNothing == Spec => []RowsComeWithTheirSnapshot
<1>1. ASSUME PipelineInv PROVE RowsComeWithTheirSnapshot
  <2>1. \A f \in db["fills"] : f.id[1] \in Runs /\ pc[f.id[1]] = "committed"
    BY <1>1 DEF PipelineInv, CoreInv, Typed, Owned, Fill
  <2> QED
    BY <1>1, <2>1 DEF PipelineInv, Audit, Accounts, RowsComeWithTheirSnapshot
<1> QED
  BY <1>1, PipelineInvHolds, PTL

\* The placeholder account leaves the stop as the only reason for a reduction,
\* for all limits that allow one request and every signal within the budget.
THEOREM StopsAloneReduce == Spec => []OnlyTheStopReduces
<1>1. PipelineInv => OnlyTheStopReduces
  BY DEF PipelineInv, Audit, Sound, OnlyStops, OnlyTheStopReduces
<1> QED
  BY <1>1, PipelineInvHolds, PTL

\* Runs that take turns snapshot the ledger, for any number of them.
THEOREM SerialRunsSnapshotTheLedger == Spec => []SerialSnapshotIsTheLedger
<1>1. ASSUME PipelineInv, NEW i \in DOMAIN snapshots,
             snapshots[i].seen = FillsOfRuns({snapshots[j].run : j \in 1..(i - 1)})
      PROVE  snapshots[i].net = NetOf(FillsOfRuns({snapshots[j].run : j \in 1..i}))
  <2>1. i \in Nat /\ i > 0
    BY <1>1 DEF PipelineInv, Accounts
  <2>2. {snapshots[j].run : j \in 1..i}
            = {snapshots[j].run : j \in 1..(i - 1)} \cup {snapshots[i].run}
    <3>1. 1..i = 1..(i - 1) \cup {i}
      BY <2>1
    <3> QED
      BY <3>1
  <2>3. FillsOfRuns({snapshots[j].run : j \in 1..i})
            = snapshots[i].seen \cup OfRuns(db["fills"], {snapshots[i].run})
    BY <1>1, <2>2 DEF FillsOfRuns, OfRuns
  <2> QED
    BY <1>1, <2>3 DEF PipelineInv, Accounts
<1>2. PipelineInv => SerialSnapshotIsTheLedger
  BY <1>1 DEF SerialSnapshotIsTheLedger
<1> QED
  BY <1>2, PipelineInvHolds, PTL

-----------------------------------------------------------------------------
(* The refinement                                                          *)

\* The positions of the snapshots, as PaperLedger sees them.
NetsShown == [i \in DOMAIN snapshots |-> snapshots[i].net]

LEMMA CommitPublishes ==
    ASSUME PipelineInv, NEW r \in Runs, Commit(r)
    PROVE  Ledger!Publish
<1> DEFINE batch == work[r]["fills"]
           row == [run |-> r, time |-> draft[r].time, net |-> draft[r].net, seen |-> draft[r].seen]
<1>1. db'["fills"] = db["fills"] \cup batch /\ db'["fills"] \ db["fills"] = batch
  BY CommittedFills DEF PipelineInv
<1>2. /\ \A f \in batch : f.size \in 1..Requested
      /\ \A f, g \in batch : f.symbol = g.symbol => f = g
  BY DEF PipelineInv, CoreInv, Typed, Fill, Batches
<1>3. seen[r] \in SUBSET db["fills"]
  BY DEF PipelineInv, CoreInv, Typed, TypeOK
<1>4. NetsShown' = Append(NetsShown, Ledger!NetOf(seen[r] \cup batch))
  <2>1. /\ snapshots' = Append(snapshots, row)
        /\ row.net = Ledger!NetOf(seen[r] \cup batch)
    BY DEF Commit, PipelineInv, Drafts, Book, NetOf
  <2> HIDE DEF row
  <2>2. /\ DOMAIN snapshots = 1..Len(snapshots) /\ Len(snapshots) \in Nat
        /\ DOMAIN snapshots' = 1..(Len(snapshots) + 1)
        /\ \A i \in 1..Len(snapshots) : snapshots'[i] = snapshots[i]
        /\ snapshots'[Len(snapshots) + 1] = row
    BY <2>1 DEF PipelineInv, Accounts
  <2>3. NetsShown \in Seq(Nets) /\ Len(NetsShown) = Len(snapshots)
    <3>1. \A i \in 1..Len(snapshots) : snapshots[i].net \in Nets
      <4>1. \A i \in DOMAIN snapshots : snapshots[i] \in SnapshotRow
        BY SnapshotTyped DEF PipelineInv
      <4> QED
        BY <2>2, <4>1 DEF SnapshotRow
    <3> QED
      BY <2>2, <3>1 DEF NetsShown
  <2>4. NetsShown' = [i \in 1..(Len(snapshots) + 1) |-> snapshots'[i].net]
    BY <2>2 DEF NetsShown
  <2> DEFINE longer == Append(NetsShown, row.net)
  <2>5. /\ longer = [i \in 1..(Len(snapshots) + 1) |-> longer[i]]
        /\ \A i \in 1..Len(snapshots) : longer[i] = NetsShown[i]
        /\ longer[Len(snapshots) + 1] = row.net
    BY <2>2, <2>3
  <2> HIDE DEF longer
  <2>6. \A i \in 1..(Len(snapshots) + 1) : longer[i] = snapshots'[i].net
    <3>1. \A i \in 1..Len(snapshots) : NetsShown[i] = snapshots'[i].net
      BY <2>2 DEF NetsShown
    <3>2. \A i \in 1..(Len(snapshots) + 1) : i \in 1..Len(snapshots) \/ i = Len(snapshots) + 1
      BY <2>2
    <3> QED
      BY <2>2, <2>5, <3>1, <3>2, Zenon
  <2>7. NetsShown' = longer
    BY <2>4, <2>5, <2>6
  <2> QED
    BY <2>1, <2>7 DEF longer
<1> QED
  BY <1>1, <1>2, <1>3, <1>4 DEF Ledger!Publish, NetsShown

\* Readers of the tables see a PaperLedger: whatever the runs do, the ledger
\* grows by whole batches of one fill for each symbol and none larger than
\* requested, each with the one snapshot that accounts for it.
THEOREM PipelineIsALedger == Spec => PipelineKeepsALedger
<1>1. Init => Ledger!Init
  BY DEF Init, Ledger!Init, NoRows, Tables
<1>2. PipelineInv /\ [Next]_vars => [Ledger!Publish]_<<db["fills"], NetsShown>>
  <2> SUFFICES ASSUME PipelineInv, [Next]_vars
               PROVE  Ledger!Publish \/ UNCHANGED <<db["fills"], NetsShown>>
    OBVIOUS
  <2>1. \/ snapshots' = snapshots /\ db' = db
        \/ \E r \in Runs : Commit(r)
    BY TableSteps DEF PipelineInv
  <2>2. ASSUME snapshots' = snapshots, db' = db
        PROVE  UNCHANGED <<db["fills"], NetsShown>>
    BY <2>2 DEF NetsShown
  <2> QED
    BY <2>1, <2>2, CommitPublishes
<1> QED
  BY <1>1, <1>2, PipelineInvHolds, PTL DEF Spec, PipelineKeepsALedger, Ledger!Spec, NetsShown

-----------------------------------------------------------------------------
(* The prices                                                              *)

\* A symbol with a fill has bars, and a run that took it has its price.
Pricing ==
    /\ \A f \in db["fills"] : bars[f.symbol] > 0
    /\ \A r \in Runs :
        /\ pc[r] \notin {"symbol", "commit"} => at[r] = 1
        /\ \A f \in work[r]["fills"] : bars[f.symbol] > 0 /\ f.symbol \in priced[r]
        /\ \A f \in seen[r] : \A i \in 1..(at[r] - 1) :
            SymbolOrder[i] = f.symbol => f.symbol \in priced[r]

LEMMA InitPricing == Init => Pricing
BY DEF Init, Pricing, NoRows, Tables

LEMMA StartKeepsPricing ==
    ASSUME CoreInv, Pricing, NEW r \in Runs, Start(r)
    PROVE  Pricing'
<1>1. at[r] = 1 /\ UNCHANGED <<bars, db, work, priced, at>>
  BY DEF Start, Pricing
<1>2. /\ \A q \in Runs \ {r} : pc'[q] = pc[q] /\ seen'[q] = seen[q]
      /\ pc'[r] = "symbol"
  BY DEF Start, CoreInv, Typed, TypeOK
<1> QED
  BY <1>1, <1>2 DEF Pricing

\* A symbol without bars has no fill in the ledger, so no price is missed.
LEMMA SkipKeepsPricing ==
    ASSUME CoreInv, Pricing, NEW r \in Runs, SkipSymbol(r)
    PROVE  Pricing'
<1> DEFINE s == SymbolOrder[at[r]]
<1>1. /\ bars[s] = 0 /\ UNCHANGED <<bars, db, pc, work, priced, seen>>
      /\ pc[r] = "symbol"
  BY DEF SkipSymbol, AtSymbol
<1>2. at[r] \in Nat /\ at'[r] = at[r] + 1 /\ \A q \in Runs \ {r} : at'[q] = at[q]
  BY DEF SkipSymbol, NextSymbol, CoreInv, Typed, TypeOK
<1>3. \A f \in seen[r] : f.symbol # s
  <2>1. \A f \in seen[r] : f \in db["fills"]
    BY DEF CoreInv, Typed, TypeOK
  <2> QED
    BY <1>1, <2>1 DEF Pricing
<1>4. \A i \in 1..(at'[r] - 1) : i \in 1..(at[r] - 1) \/ i = at[r]
  BY <1>2
<1>5. \A f \in seen[r] : \A i \in 1..(at'[r] - 1) :
        SymbolOrder[i] = f.symbol => f.symbol \in priced[r]
  BY <1>3, <1>4 DEF Pricing
<1> QED
  BY <1>1, <1>2, <1>5 DEF Pricing

LEMMA ProcessKeepsPricing ==
    ASSUME CoreInv, Pricing, NEW r \in Runs, ProcessSymbol(r)
    PROVE  Pricing'
<1> DEFINE s == SymbolOrder[at[r]]
<1>1. /\ s \in Symbols /\ bars[s] \in Nat /\ bars[s] > 0
      /\ UNCHANGED <<bars, db, pc, seen>> /\ pc[r] = "symbol"
  BY TakenSymbol, ProcessedSymbol DEF ProcessSymbol, AtSymbol, CoreInv, Typed
<1>2. /\ at[r] \in Nat /\ at'[r] = at[r] + 1 /\ \A q \in Runs \ {r} : at'[q] = at[q]
      /\ priced'[r] = priced[r] \cup {s} /\ \A q \in Runs \ {r} : priced'[q] = priced[q]
  BY DEF ProcessSymbol, NextSymbol, Price, CoreInv, Typed, TypeOK
<1>3. \A q \in Runs \ {r} : work'[q] = work[q]
  BY ProcessedSymbol DEF CoreInv
<1>4. \A f \in work'[r]["fills"] : f \in work[r]["fills"] \/ f.symbol = s
  <2>1. PICK rows : /\ Adds(r, s, rows)
                    /\ \A t \in Tables : work'[r][t] = work[r][t] \cup rows[t]
    BY ProcessedSymbol DEF CoreInv
  <2> QED
    BY <1>1, <2>1, AddedFills DEF Tables
<1>5. \A i \in 1..(at'[r] - 1) : i \in 1..(at[r] - 1) \/ i = at[r]
  BY <1>2
<1>6. \A f \in seen[r] : \A i \in 1..(at'[r] - 1) :
        SymbolOrder[i] = f.symbol => f.symbol \in priced'[r]
  BY <1>2, <1>5 DEF Pricing
<1>7. \A f \in work'[r]["fills"] : bars[f.symbol] > 0 /\ f.symbol \in priced'[r]
  BY <1>1, <1>2, <1>4 DEF Pricing
<1> QED
  BY <1>1, <1>2, <1>3, <1>6, <1>7 DEF Pricing

LEMMA EndKeepsPricing ==
    ASSUME CoreInv, Pricing, NEW r \in Runs, Commit(r) \/ RollBack(r)
    PROVE  Pricing'
<1>1. /\ bars' = bars /\ work'[r] = NoRows /\ seen'[r] = {} /\ at'[r] = 1
      /\ \A q \in Runs \ {r} :
            /\ pc'[q] = pc[q] /\ work'[q] = work[q] /\ seen'[q] = seen[q]
            /\ at'[q] = at[q] /\ priced'[q] = priced[q]
  <2>1. End(r, "committed") \/ End(r, "rolled_back")
    BY DEF Commit, RollBack
  <2>2. at'[r] = 1
    BY <2>1 DEF End, CoreInv, Typed, TypeOK
  <2> QED
    BY <2>1, <2>2, Ended DEF Commit, RollBack, CoreInv
<1>2. \A f \in db'["fills"] : f \in db["fills"] \/ f \in work[r]["fills"]
  BY DEF Commit, RollBack, Tables
<1>3. NoRows["fills"] = {}
  BY DEF NoRows, Tables
<1> QED
  BY <1>1, <1>2, <1>3 DEF Pricing

LEMMA NextKeepsPricing ==
    ASSUME CoreInv, Pricing, [Next]_vars
    PROVE  Pricing'
<1>1. CASE UNCHANGED vars
  BY <1>1 DEF vars, Pricing
<1>2. ASSUME NEW s \in Symbols, NewBar(s)
      PROVE  Pricing'
  <2>1. UNCHANGED <<db, pc, at, seen, work, priced>>
    BY <1>2 DEF NewBar
  <2>2. \A x \in Symbols : bars[x] > 0 => bars'[x] > 0
    BY <1>2, PaperPipelineAssumption DEF NewBar, CoreInv, Typed, TypeOK
  <2>3. /\ \A f \in db["fills"] : f.symbol \in Symbols
        /\ \A r \in Runs : \A f \in work[r]["fills"] : f.symbol \in Symbols
    BY DEF CoreInv, Typed, Fill
  <2> QED
    BY <2>1, <2>2, <2>3 DEF Pricing
<1>3. ASSUME NEW r \in Runs, Snapshot(r)
      PROVE  Pricing'
  <2>1. UNCHANGED <<bars, db, at, seen, work, priced>>
    BY <1>3 DEF Snapshot
  <2>2. \A q \in Runs : pc'[q] \notin {"symbol", "commit"} => pc[q] \notin {"symbol", "commit"}
    BY <1>3 DEF Snapshot, CoreInv, Typed, TypeOK
  <2> QED
    BY <2>1, <2>2 DEF Pricing
<1> QED
  BY <1>1, <1>2, <1>3, StartKeepsPricing, SkipKeepsPricing, ProcessKeepsPricing,
     EndKeepsPricing, Steps

\* The sum PaperLedger uses is the one of the gated book.
LEMMA LedgerSum ==
    ASSUME NEW f
    PROVE  Ledger!SumFunction(f) = SumFunction(f)
BY Zenon DEF SumFunction, SumFunctionOnSet, FoldFunctionOnSet, MapThenFoldSet,
        Ledger!SumFunction, Ledger!SumFunctionOnSet, Ledger!FoldFunctionOnSet,
        Ledger!MapThenFoldSet

\* A symbol without a fill nets to zero.
LEMMA NetNeedsAFill ==
    ASSUME NEW F, NEW s \in Symbols, NetOf(F)[s] # 0
    PROVE  \E f \in F : f.symbol = s
<1> SUFFICES ASSUME ~\E f \in F : f.symbol = s PROVE FALSE
  OBVIOUS
<1> DEFINE G == {g \in F : g.symbol = s}
           sizes == [f \in G |-> Ledger!SignedSize(f.direction, f.size)]
<1>1. NetOf(F)[s] = SumFunction(sizes)
  BY LedgerSum DEF NetOf, Ledger!NetOf
<1>2. G = {} /\ IsFiniteSet(G)
  <2>1. G = {}
    OBVIOUS
  <2> QED
    BY <2>1, FS_EmptySet
<1>3. sizes \in [G -> Int] /\ \A x \in G : sizes[x] = 0
  BY <1>2
<1> HIDE DEF G, sizes
<1>4. SumFunction(sizes) = 0
  BY <1>2, <1>3, SumZero
<1> QED
  BY <1>1, <1>4

\* No run ever fails for want of a price at its snapshot: whatever it skipped,
\* and whatever others committed before it started, every position it holds is
\* in a symbol it has just priced.
THEOREM PositionsArePriced == Spec => []NoPositionIsUnpriced
<1>1. Spec => []Pricing
  <2>1. CoreInv /\ Pricing /\ [Next]_vars => Pricing'
    BY NextKeepsPricing
  <2> QED
    BY <2>1, InitPricing, CoreHolds, PTL DEF Spec
<1>2. ASSUME CoreInv, Pricing, NEW r \in Runs, AtSnapshot(r), NEW s \in Unpriced(r)
      PROVE  FALSE
  <2>1. s \in Symbols /\ Book(r)[s] # 0 /\ s \notin priced[r]
    BY <1>2 DEF Unpriced
  <2>2. PICK f \in seen[r] \cup work[r]["fills"] : f.symbol = s
    BY <2>1, NetNeedsAFill DEF Book
  <2>3. PICK i \in DOMAIN SymbolOrder : SymbolOrder[i] = s
    BY <2>1 DEF Symbols
  <2>4. i \in 1..(at[r] - 1)
    BY <1>2, PaperPipelineAssumption DEF AtSnapshot, CoreInv, Typed, TypeOK
  <2> QED
    BY <1>2, <2>1, <2>2, <2>3, <2>4 DEF Pricing
<1>3. CoreInv /\ Pricing => NoPositionIsUnpriced
  BY <1>2 DEF NoPositionIsUnpriced
<1> QED
  BY <1>1, <1>3, CoreHolds, PTL

=============================================================================
