---------------------------- MODULE HealthScore ----------------------------
(***************************************************************************)
(* evaluateShopHealth (packages/domain/src/recommendation/evaluate.ts):    *)
(* from the rates of a period, their coverage and their trends to a score, *)
(* a confidence and a recommendation, by a policy of thresholds            *)
(* (policy.ts).                                                            *)
(*                                                                         *)
(* A rate is an integer over Scale; Unknown is a rate with nothing to divide  *)
(* by.  The score of a component lies between 0 and 100 by its distance    *)
(* from the critical threshold: points are counted in 100 * Unit, Unit     *)
(* being a multiple of every such distance, so that no division rounds     *)
(* where the code's does not.                                              *)
(***************************************************************************)
EXTENDS Integers

CONSTANTS Scale, Unit, Unknown,
          Policy  \* SCORE_POLICY_V1

HighIsGood == {"deliveryRate", "settlementRate"}
LowIsGood == {"cancellationRate", "refundRate", "onHoldOrderRate", "onHoldMoneyRate"}
Component == HighIsGood \cup LowIsGood
Trend == Component \ {"settlementRate"}  \* the rates whose deltas are evaluated
Rate == 0 .. Scale

\* From the critical threshold of a component to the good one.
Span(c) == IF c \in HighIsGood THEN Policy.good[c] - Policy.critical[c]
                               ELSE Policy.critical[c] - Policy.good[c]

ScoreConstants ==
    /\ Scale \in Nat \ {0} /\ Unit \in Nat \ {0} /\ Unknown \notin Int
    /\ Policy \in [weight : [Component -> Nat \ {0}], good : [Component -> Rate],
                   critical : [Component -> Rate],
                   minimumReliableOrders : Nat \ {0}, minimumScaleOrders : Nat \ {0},
                   scaleMinimumScore : Nat, continueMinimumScore : Nat,
                   pauseBelowScore : Nat, scaleMinimumConfidence : Nat,
                   scaleMinimumGrowth : Int, scaleMinimumSettlementRate : Rate,
                   badTrendDelta : Rate]
    /\ \A c \in Component : Span(c) > 0 /\ \E k \in 1 .. Unit : Unit = k * Span(c)
ASSUME ScoreAssumption == ScoreConstants

\* What is evaluated: MetricsResult, as far as the recommendation depends on it.
Metrics ==
    [rate : [Component -> Rate \cup {Unknown}], coverage : [Component -> Rate],
     total : Nat, delta : [Trend -> Int \cup {Unknown}],
     growth : [{"orders", "sales"} -> Int \cup {Unknown}]]

----------------------------------------------------------------------------

Good(c, v) == IF c \in HighIsGood THEN v >= Policy.good[c] ELSE v <= Policy.good[c]

CriticalAbove(c, v) == v >= Policy.critical[c]  \* mutant

Critical(c, v) ==
    IF c \in HighIsGood THEN v <= Policy.critical[c] ELSE v >= Policy.critical[c]

\* How far a rate is on the good side of the critical threshold.
Distance(c, v) == IF c \in HighIsGood THEN v - Policy.critical[c] ELSE Policy.critical[c] - v

componentScore(c, v) ==
    IF Good(c, v) THEN 100 * Unit
    ELSE IF Critical(c, v) THEN 0
    ELSE Distance(c, v) * (100 * (Unit \div Span(c)))

OverComponents(f) == f["deliveryRate"] + f["cancellationRate"] + f["refundRate"]
          + f["onHoldOrderRate"] + f["onHoldMoneyRate"] + f["settlementRate"]

Known(m) == {c \in Component : m.rate[c] # Unknown}

totalWeight == OverComponents(Policy.weight)
scoredWeight(m) == OverComponents([c \in Component |-> IF c \in Known(m) THEN Policy.weight[c] ELSE 0])
weightedScore(m) ==
    OverComponents([c \in Component |->
            IF c \in Known(m) THEN Policy.weight[c] * componentScore(c, m.rate[c]) ELSE 0])
weightedCoverage(m) == OverComponents([c \in Component |-> Policy.weight[c] * m.coverage[c]])

\* Number(x.toFixed(k)): the nearest integer to a quotient.
Rounded(n, d) == (2 * n + d) \div (2 * d)

\* The score in hundredths, the confidence in ten-thousandths.
score(m) == Rounded(100 * weightedScore(m), scoredWeight(m) * Unit)
Volume(m) == IF m.total < Policy.minimumReliableOrders THEN m.total
             ELSE Policy.minimumReliableOrders
confidence(m) == Rounded(10000 * weightedCoverage(m) * Volume(m),
                         totalWeight * Scale * Policy.minimumReliableOrders)

BadTrend(m) ==
    \E c \in Trend :
        /\ m.delta[c] # Unknown
        /\ IF c \in HighIsGood THEN m.delta[c] <= - Policy.badTrendDelta
                               ELSE m.delta[c] >= Policy.badTrendDelta
HasCriticalRisk(m) == \E c \in Known(m) : Critical(c, m.rate[c])

Evaluated(m) == Known(m) # {} /\ m.total > 0

Pauses(m) ==
    /\ m.total >= Policy.minimumReliableOrders
    /\ HasCriticalRisk(m) \/ score(m) < Policy.pauseBelowScore

Grows(growth) == growth # Unknown /\ growth > Policy.scaleMinimumGrowth

Scales(m) ==
    /\ score(m) >= Policy.scaleMinimumScore
    /\ confidence(m) >= Policy.scaleMinimumConfidence
    /\ m.total >= Policy.minimumScaleOrders
    /\ Grows(m.growth["orders"]) /\ Grows(m.growth["sales"])
    /\ m.rate["settlementRate"] # Unknown
    /\ m.rate["settlementRate"] >= Policy.scaleMinimumSettlementRate
    /\ scoredWeight(m) = totalWeight
    /\ ~ HasCriticalRisk(m) /\ ~ BadTrend(m)

Watches(m) ==
    \/ score(m) < Policy.continueMinimumScore
    \/ confidence(m) < Policy.scaleMinimumConfidence
    \/ scoredWeight(m) < totalWeight
    \/ BadTrend(m) \/ HasCriticalRisk(m)

\* Of data that are FRESH; of others nothing is recommended.
Recommendation(m) ==
    IF ~ Evaluated(m) THEN Unknown
    ELSE IF Pauses(m) THEN "PAUSE"
    ELSE IF Scales(m) THEN "SCALE"
    ELSE IF Watches(m) THEN "WATCH"
    ELSE "CONTINUE"

----------------------------------------------------------------------------
(* Properties                                                              *)

\* From no recommendation at all to the best.
Rank(m) ==
    IF ~ Evaluated(m) THEN 0
    ELSE IF Pauses(m) THEN 1
    ELSE IF Scales(m) THEN 4
    ELSE IF Watches(m) THEN 2
    ELSE 3

\* The same rates are known of w and m, of as many orders and to the same coverage,
\* and none is better, nor has a better trend, in w.
Worse(w, m) ==
    /\ w.total = m.total /\ w.coverage = m.coverage
    /\ \A c \in Component :
          /\ w.rate[c] = Unknown <=> m.rate[c] = Unknown
          /\ m.rate[c] # Unknown =>
                IF c \in HighIsGood THEN w.rate[c] <= m.rate[c] ELSE w.rate[c] >= m.rate[c]
    /\ \A c \in Trend :
          /\ w.delta[c] = Unknown <=> m.delta[c] = Unknown
          /\ m.delta[c] # Unknown =>
                IF c \in HighIsGood THEN w.delta[c] <= m.delta[c] ELSE w.delta[c] >= m.delta[c]
    /\ \A g \in {"orders", "sales"} :
          w.growth[g] = m.growth[g] \/ (m.growth[g] # Unknown /\ w.growth[g] # Unknown
                                        /\ w.growth[g] <= m.growth[g])
=============================================================================
