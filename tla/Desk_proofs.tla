---------------------------- MODULE Desk_proofs ----------------------------
(***************************************************************************)
(* Proofs about the parts a shop's desk is made of: its health score, its  *)
(* risk rules and their control row, the evidence a review reads, the      *)
(* adviser it asks, the profile it verifies and the sheet it reports in.   *)
(*                                                                         *)
(* Each part is proved alone, about its own specification: parts share no  *)
(* step.  Constants and variables of the same name are declared once.      *)
(***************************************************************************)
EXTENDS HealthScore, Sequences, SequenceTheorems, FiniteSetTheorems, WellFoundedInduction,
        NaturalsInduction, TLAPS

CONSTANTS None, MaxClock,
          Thresholds, Overrides, INITIAL_GLOBAL, Facts, Evidence, MaxRevisions, Inherit,
          Evaluator, RiskLimits, MaxVersion, MaxActions,
          Reviewer, Order, Kind, Amount, Window, MaxSyncs, MaxCases,
          Model, Name, Verified, Budget, MaxBody,
          Verifier, Profile, TikTok, Failure,
          Caller, Row, Cell, Proven, MaxActs

VARIABLES revisions, now, review, outcome,
          orders, lock, pc, row, actions, known, streak,
          clock, rows, ordersRun, collected, financeRun, provenRun, captures, cases, syncs,
          client, input, step, model, left, body, failures, answer, result,
          profiles, shops,
          sheet, intent, tracking, armed, acts, kind, view, todo, cur, writes, since

----------------------------------------------------------------------------
(* Arithmetic                                                              *)

\* Products with what is not negative keep the order (used of weights and shares).
LEMMA TimesMonotone ==
    ASSUME NEW a \in Int, NEW b \in Int, NEW k \in Nat, a <= b
    PROVE  k * a <= k * b /\ a * k <= b * k
<1>1. b - a \in Nat
  OBVIOUS
<1>2. k * (b - a) >= 0
  BY <1>1
<1>3. k * (b - a) = k * b - k * a
  OBVIOUS
<1>4. k * a \in Int /\ k * b \in Int
  OBVIOUS
<1>5. k * a <= k * b
  BY <1>2, <1>3, <1>4
<1> QED
  BY <1>5

\* Whole quotients keep the order (the score and the confidence are rounded).
LEMMA DivMonotone ==
    ASSUME NEW a \in Int, NEW b \in Int, NEW d \in Nat \ {0}, a <= b
    PROVE  a \div d <= b \div d /\ a \div d \in Int /\ b \div d \in Int
<1> DEFINE p == a \div d
           q == b \div d
<1>1. p \in Int /\ q \in Int
  OBVIOUS
<1>2. a = d * p + (a % d) /\ 0 <= a % d /\ a % d < d
  OBVIOUS
<1>3. b = d * q + (b % d) /\ 0 <= b % d /\ b % d < d
  OBVIOUS
<1>4. ASSUME p > q PROVE FALSE
  <2>1. q + 1 <= p
    BY <1>1, <1>4
  <2>2. d * (q + 1) <= d * p
    BY <1>1, <2>1, TimesMonotone
  <2>3. d * (q + 1) = d * q + d
    BY <1>1
  <2>4. d * p \in Int /\ d * q \in Int /\ a % d \in Int /\ b % d \in Int
    BY <1>1
  <2> QED
    BY <1>2, <1>3, <2>2, <2>3, <2>4
<1> QED
  BY <1>1, <1>4

\* Rounding to the nearest keeps the order.
LEMMA RoundedMonotone ==
    ASSUME NEW a \in Int, NEW b \in Int, NEW d \in Nat \ {0}, a <= b
    PROVE  Rounded(a, d) <= Rounded(b, d) /\ Rounded(a, d) \in Int /\ Rounded(b, d) \in Int
<1>1. 2 * a + d \in Int /\ 2 * b + d \in Int /\ 2 * d \in Nat \ {0} /\ 2 * a + d <= 2 * b + d
  OBVIOUS
<1> QED
  BY <1>1, DivMonotone DEF Rounded

----------------------------------------------------------------------------
(* The components                                                          *)

\* One rate is no better than another, for its component.
NoBetter(c, u, v) == IF c \in HighIsGood THEN u <= v ELSE u >= v

\* The types of the policy.
LEMMA PolicyTypes ==
    /\ Scale \in Nat \ {0} /\ Unit \in Nat \ {0} /\ Unknown \notin Int
    /\ Policy.pauseBelowScore \in Int /\ Policy.scaleMinimumScore \in Int
    /\ Policy.continueMinimumScore \in Int /\ Policy.scaleMinimumGrowth \in Int
    /\ Policy.scaleMinimumSettlementRate \in Int /\ Policy.badTrendDelta \in Int
    /\ \A c \in Component :
          /\ Policy.weight[c] \in Nat \ {0}
          /\ Policy.good[c] \in Int /\ Policy.critical[c] \in Int
          /\ Span(c) \in Int /\ Span(c) > 0
BY ScoreAssumption DEF ScoreConstants, Rate, Span

\* Every distance between the thresholds of a component divides Unit.
LEMMA ShareOfUnit ==
    ASSUME NEW c \in Component
    PROVE  Unit \div Span(c) \in Nat /\ Unit = (Unit \div Span(c)) * Span(c)
<1>1. PICK k \in Nat : Unit = k * Span(c)
  BY ScoreAssumption DEF ScoreConstants
<1>2. Span(c) \in Nat \ {0}
  BY PolicyTypes
<1>3. k * Span(c) = Span(c) * k + 0
  BY <1>2
<1>4. (k * Span(c)) \div Span(c) = k
  BY <1>2, <1>3
<1> QED
  BY <1>1, <1>4

\* A component's score lies between 0 and 100 * Unit, and is no higher for a rate that
\* is no better (componentScore).
LEMMA ComponentScoreMonotone ==
    ASSUME NEW c \in Component, NEW u \in Rate, NEW v \in Rate, NoBetter(c, u, v)
    PROVE  /\ componentScore(c, u) \in Nat /\ componentScore(c, v) \in Nat
           /\ componentScore(c, u) <= componentScore(c, v)
<1> DEFINE K == 100 * (Unit \div Span(c))
<1>1. K \in Nat /\ Unit \in Nat /\ 100 * Unit = Span(c) * K
  BY ShareOfUnit, PolicyTypes
<1>2. /\ Policy.good[c] \in Int /\ Policy.critical[c] \in Int /\ Span(c) \in Int
      /\ u \in Int /\ v \in Int /\ Span(c) > 0
  BY PolicyTypes DEF Rate
<1>3. Distance(c, u) \in Int /\ Distance(c, v) \in Int /\ Distance(c, u) <= Distance(c, v)
  BY <1>2 DEF Distance, NoBetter
<1>4. /\ Good(c, u) => Good(c, v)
      /\ Critical(c, v) => Critical(c, u)
      /\ Good(c, v) => ~ Critical(c, v)
      /\ Good(c, u) => ~ Critical(c, u)
  BY <1>2 DEF Good, Critical, NoBetter, Span
<1>5. /\ ~ Critical(c, u) => Distance(c, u) \in Nat
      /\ ~ Critical(c, v) => Distance(c, v) \in Nat
      /\ ~ Good(c, u) => Distance(c, u) <= Span(c)
      /\ ~ Good(c, v) => Distance(c, v) <= Span(c)
  BY <1>2 DEF Good, Critical, Distance, Span
<1> HIDE DEF K
<1>6. Distance(c, u) * K <= Distance(c, v) * K
  BY <1>1, <1>3, TimesMonotone
<1>7. ~ Good(c, u) => Distance(c, u) * K <= Span(c) * K
  BY <1>1, <1>2, <1>3, <1>5, TimesMonotone
<1>8. /\ ~ Critical(c, u) => Distance(c, u) * K \in Nat
      /\ ~ Critical(c, v) => Distance(c, v) * K \in Nat
  BY <1>1, <1>5
<1>9. \A r : componentScore(c, r) = IF Good(c, r) THEN 100 * Unit
                                    ELSE IF Critical(c, r) THEN 0 ELSE Distance(c, r) * K
  BY DEF componentScore, K
<1> DEFINE du == Distance(c, u) * K
           dv == Distance(c, v) * K
           top == 100 * Unit
<1>10. top \in Nat /\ du \in Int /\ dv \in Int
  BY <1>1, <1>3
<1>11. du <= dv /\ (~ Good(c, u) => du <= top)
  BY <1>1, <1>6, <1>7
<1>12. /\ componentScore(c, u) = IF Good(c, u) THEN top ELSE IF Critical(c, u) THEN 0 ELSE du
       /\ componentScore(c, v) = IF Good(c, v) THEN top ELSE IF Critical(c, v) THEN 0 ELSE dv
  BY <1>9
<1>13. /\ ~ Critical(c, u) => du \in Nat
       /\ ~ Critical(c, v) => dv \in Nat
  BY <1>8
<1> HIDE DEF du, dv, top
<1> QED
  BY <1>4, <1>10, <1>11, <1>12, <1>13

----------------------------------------------------------------------------
(* The score                                                               *)

\* The components are the six that are added up.
LEMMA SumMonotone ==
    ASSUME NEW f \in [Component -> Int], NEW g \in [Component -> Int],
           \A c \in Component : f[c] <= g[c]
    PROVE  /\ OverComponents(f) \in Int /\ OverComponents(g) \in Int
           /\ OverComponents(f) <= OverComponents(g)
BY DEF OverComponents, Component, HighIsGood, LowIsGood

\* What is known of either of two shops to compare has a weight, the same.
LEMMA SameKnown ==
    ASSUME NEW m \in Metrics, NEW w \in Metrics, Worse(w, m)
    PROVE  /\ Known(w) = Known(m) /\ scoredWeight(w) = scoredWeight(m)
           /\ Known(m) # {} => scoredWeight(m) \in Nat \ {0}
           /\ totalWeight \in Int
<1>1. Known(w) = Known(m)
  BY DEF Known, Worse
<1>2. scoredWeight(w) = scoredWeight(m)
  BY <1>1 DEF scoredWeight
<1>3. totalWeight \in Int
  BY PolicyTypes DEF totalWeight, OverComponents, Component, HighIsGood, LowIsGood
<1>4. ASSUME Known(m) # {} PROVE scoredWeight(m) \in Nat \ {0}
  <2> DEFINE f == [c \in Component |-> IF c \in Known(m) THEN Policy.weight[c] ELSE 0]
  <2>1. \A c \in Component : f[c] \in Nat /\ (c \in Known(m) => f[c] > 0)
    BY PolicyTypes
  <2>2. PICK c \in Component : f[c] > 0
    BY <1>4, <2>1 DEF Known
  <2>3. scoredWeight(m) = OverComponents(f)
    BY DEF scoredWeight
  <2> HIDE DEF f
  <2>4. OverComponents(f) \in Nat /\ OverComponents(f) > 0
    BY SMTT(30), <2>1, <2>2 DEF OverComponents, Component, HighIsGood, LowIsGood
  <2> QED
    BY <2>3, <2>4
<1> QED
  BY <1>1, <1>2, <1>3, <1>4

\* The score of a shop that is no better is no higher.
LEMMA ScoreMonotone ==
    ASSUME NEW m \in Metrics, NEW w \in Metrics, Worse(w, m), Known(m) # {}
    PROVE  score(w) \in Int /\ score(m) \in Int /\ score(w) <= score(m)
<1> DEFINE f(x) == [c \in Component |->
              IF c \in Known(x) THEN Policy.weight[c] * componentScore(c, x.rate[c]) ELSE 0]
<1>1. Known(w) = Known(m) /\ scoredWeight(w) = scoredWeight(m) /\ scoredWeight(m) \in Nat \ {0}
  BY SameKnown
<1>2. ASSUME NEW c \in Component PROVE f(w)[c] \in Int /\ f(m)[c] \in Int /\ f(w)[c] <= f(m)[c]
  <2>1. CASE c \in Known(m)
    <3>1. w.rate[c] \in Rate /\ m.rate[c] \in Rate
      BY <1>1, <2>1 DEF Known, Metrics
    <3>2. NoBetter(c, w.rate[c], m.rate[c])
      BY <2>1 DEF Worse, NoBetter, Known
    <3>3. /\ componentScore(c, w.rate[c]) \in Nat /\ componentScore(c, m.rate[c]) \in Nat
          /\ componentScore(c, w.rate[c]) <= componentScore(c, m.rate[c])
      BY <3>1, <3>2, ComponentScoreMonotone
    <3>4. Policy.weight[c] \in Nat
      BY PolicyTypes
    <3>5. /\ Policy.weight[c] * componentScore(c, w.rate[c])
                <= Policy.weight[c] * componentScore(c, m.rate[c])
          /\ Policy.weight[c] * componentScore(c, w.rate[c]) \in Int
          /\ Policy.weight[c] * componentScore(c, m.rate[c]) \in Int
      BY <3>3, <3>4, TimesMonotone
    <3> QED
      BY <1>1, <2>1, <3>5
  <2>2. CASE c \notin Known(m)
    BY <1>1, <2>2
  <2> QED
    BY <2>1, <2>2
<1>3. weightedScore(w) = OverComponents(f(w)) /\ weightedScore(m) = OverComponents(f(m))
  BY DEF weightedScore
<1>4. f(w) \in [Component -> Int] /\ f(m) \in [Component -> Int]
  BY <1>2
<1> HIDE DEF f
<1>5. /\ weightedScore(w) \in Int /\ weightedScore(m) \in Int
      /\ weightedScore(w) <= weightedScore(m)
  BY <1>2, <1>3, <1>4, SumMonotone
<1>6. Unit \in Nat \ {0}
  BY PolicyTypes
<1> DEFINE d == scoredWeight(m) * Unit
<1>7. d \in Nat \ {0}
  BY <1>1, <1>6
<1>8. score(w) = Rounded(100 * weightedScore(w), d) /\ score(m) = Rounded(100 * weightedScore(m), d)
  BY <1>1 DEF score
<1>9. /\ 100 * weightedScore(w) \in Int /\ 100 * weightedScore(m) \in Int
      /\ 100 * weightedScore(w) <= 100 * weightedScore(m)
  BY <1>5
<1> HIDE DEF d
<1> QED
  BY <1>7, <1>8, <1>9, RoundedMonotone

----------------------------------------------------------------------------
(* The recommendation                                                      *)

\* What is critical, or a bad trend, stays so when it worsens.
LEMMA RisksStay ==
    ASSUME NEW m \in Metrics, NEW w \in Metrics, Worse(w, m)
    PROVE  /\ HasCriticalRisk(m) => HasCriticalRisk(w)
           /\ BadTrend(m) => BadTrend(w)
           /\ confidence(w) = confidence(m)
<1>1. Known(w) = Known(m)
  BY SameKnown
<1>2. ASSUME HasCriticalRisk(m) PROVE HasCriticalRisk(w)
  <2>1. PICK c \in Known(m) : Critical(c, m.rate[c])
    BY <1>2 DEF HasCriticalRisk
  <2>2. c \in Component /\ m.rate[c] \in Rate /\ w.rate[c] \in Rate
    BY <1>1, <2>1 DEF Known, Metrics
  <2>3. m.rate[c] \in Int /\ w.rate[c] \in Int /\ Policy.critical[c] \in Int
    BY <2>2, PolicyTypes DEF Rate
  <2>4. IF c \in HighIsGood THEN w.rate[c] <= m.rate[c] ELSE w.rate[c] >= m.rate[c]
    BY <2>1, <2>2 DEF Worse, Known
  <2>5. Critical(c, w.rate[c])
    BY <2>1, <2>3, <2>4 DEF Critical
  <2> QED
    BY <1>1, <2>1, <2>5 DEF HasCriticalRisk
<1>3. ASSUME BadTrend(m) PROVE BadTrend(w)
  <2>1. PICK c \in Trend : /\ m.delta[c] # Unknown
                           /\ IF c \in HighIsGood
                              THEN m.delta[c] <= - Policy.badTrendDelta
                              ELSE m.delta[c] >= Policy.badTrendDelta
    BY <1>3 DEF BadTrend
  <2>2. /\ w.delta[c] # Unknown
        /\ IF c \in HighIsGood THEN w.delta[c] <= m.delta[c] ELSE w.delta[c] >= m.delta[c]
    BY <2>1 DEF Worse
  <2>3. m.delta[c] \in Int /\ w.delta[c] \in Int /\ Policy.badTrendDelta \in Int
    BY <2>1, <2>2, PolicyTypes DEF Metrics
  <2>4. IF c \in HighIsGood THEN w.delta[c] <= - Policy.badTrendDelta
                            ELSE w.delta[c] >= Policy.badTrendDelta
    BY <2>1, <2>2, <2>3
  <2> QED
    BY <2>2, <2>4 DEF BadTrend
<1>4. confidence(w) = confidence(m)
  BY DEF Worse, confidence, weightedCoverage, Volume
<1> QED
  BY <1>2, <1>3, <1>4

\* A shop whose rates and trends are no better, all else being equal, is never
\* recommended better than another, for every policy whose thresholds are apart
\* (evaluateShopHealth).
THEOREM WorseIsNeverRankedBetter ==
    ASSUME NEW m \in Metrics, NEW w \in Metrics, Worse(w, m)
    PROVE  Rank(w) <= Rank(m)
<1>1. /\ Known(w) = Known(m) /\ w.total = m.total
      /\ scoredWeight(w) = scoredWeight(m)
  BY SameKnown DEF Worse
<1>2. Evaluated(w) <=> Evaluated(m)
  BY <1>1 DEF Evaluated
<1>3. ASSUME Evaluated(m) PROVE Rank(w) <= Rank(m)
  <2>1. score(w) \in Int /\ score(m) \in Int /\ score(w) <= score(m)
    BY <1>3, ScoreMonotone DEF Evaluated
  <2>2. Pauses(m) => Pauses(w)
    BY <1>1, <2>1, RisksStay, PolicyTypes DEF Pauses
  <2>3. ASSUME Scales(w) PROVE Scales(m)
    <3>1. /\ score(m) >= Policy.scaleMinimumScore
          /\ confidence(m) >= Policy.scaleMinimumConfidence
          /\ m.total >= Policy.minimumScaleOrders
          /\ scoredWeight(m) = totalWeight
          /\ ~ HasCriticalRisk(m) /\ ~ BadTrend(m)
      BY <1>1, <2>1, <2>3, RisksStay, PolicyTypes DEF Scales
    <3>2. ASSUME NEW g \in {"orders", "sales"} PROVE Grows(m.growth[g])
      <4>1. Grows(w.growth[g])
        BY <2>3, <3>2 DEF Scales
      <4>2. w.growth[g] = m.growth[g] \/ (m.growth[g] # Unknown /\ w.growth[g] <= m.growth[g])
        BY <3>2 DEF Worse
      <4>3. w.growth[g] \in Int \cup {Unknown} /\ m.growth[g] \in Int \cup {Unknown}
        BY <3>2 DEF Metrics
      <4> QED
        BY <4>1, <4>2, <4>3, PolicyTypes DEF Grows
    <3>3. "settlementRate" \in Component /\ "settlementRate" \in HighIsGood
      BY DEF Component, HighIsGood
    <3>4. w.rate["settlementRate"] # Unknown
          /\ w.rate["settlementRate"] >= Policy.scaleMinimumSettlementRate
      BY <2>3 DEF Scales
    <3>5. /\ m.rate["settlementRate"] # Unknown
          /\ w.rate["settlementRate"] <= m.rate["settlementRate"]
      BY <3>3, <3>4 DEF Worse
    <3>6. m.rate["settlementRate"] \in Int /\ w.rate["settlementRate"] \in Int
      BY <3>3, <3>4, <3>5 DEF Metrics, Rate
    <3>7. m.rate["settlementRate"] >= Policy.scaleMinimumSettlementRate
      BY <3>4, <3>5, <3>6, PolicyTypes
    <3> QED
      BY <3>1, <3>2, <3>5, <3>7 DEF Scales
  <2>4. Watches(m) => Watches(w)
    BY <1>1, <2>1, RisksStay, PolicyTypes DEF Watches
  <2>5. Evaluated(w)
    BY <1>2, <1>3
  <2> QED
    BY <1>3, <2>2, <2>3, <2>4, <2>5 DEF Rank
<1>4. ASSUME ~ Evaluated(m) PROVE Rank(w) <= Rank(m)
  BY <1>2, <1>4 DEF Rank
<1> QED
  BY <1>3, <1>4

\* Only a shop all of whose rates are known is recommended to continue or to scale:
\* weights are positive, so a missing rate is missed in the weight that was scored
\* (evaluateShopHealth).
THEOREM PraiseNeedsAllRates ==
    ASSUME NEW m \in Metrics, Rank(m) >= 3
    PROVE  Known(m) = Component
<1> DEFINE f == [c \in Component |-> IF c \in Known(m) THEN Policy.weight[c] ELSE 0]
<1>1. scoredWeight(m) = totalWeight
  <2>1. scoredWeight(m) >= totalWeight
    <3>1. Evaluated(m) /\ ~ Pauses(m) /\ (Scales(m) \/ ~ Watches(m))
      BY DEF Rank
    <3>2. scoredWeight(m) \in Int /\ totalWeight \in Int
      BY PolicyTypes
      DEF scoredWeight, totalWeight, OverComponents, Component, HighIsGood, LowIsGood
    <3> QED
      BY <3>1, <3>2 DEF Scales, Watches
  <2>2. scoredWeight(m) <= totalWeight
    <3>1. f \in [Component -> Int] /\ Policy.weight \in [Component -> Int]
      BY ScoreAssumption DEF ScoreConstants
    <3>2. \A c \in Component : f[c] <= Policy.weight[c]
      BY PolicyTypes
    <3>3. OverComponents(f) <= OverComponents(Policy.weight)
      BY <3>1, <3>2, SumMonotone
    <3> QED
      BY <3>3 DEF scoredWeight, totalWeight
  <2>3. scoredWeight(m) \in Int /\ totalWeight \in Int
    BY PolicyTypes
    DEF scoredWeight, totalWeight, OverComponents, Component, HighIsGood, LowIsGood
  <2> QED
    BY <2>1, <2>2, <2>3
<1>2. \A c \in Component :
        f[c] \in Nat /\ f[c] <= Policy.weight[c] /\ (c \notin Known(m) => f[c] < Policy.weight[c])
  BY PolicyTypes
<1>3. \A c \in Component : Policy.weight[c] \in Nat
  BY PolicyTypes
<1>4. OverComponents(f) = OverComponents(Policy.weight)
  BY <1>1 DEF scoredWeight, totalWeight
<1> HIDE DEF f
<1>5. \A c \in Component : f[c] >= Policy.weight[c]
  BY <1>2, <1>3, <1>4 DEF OverComponents, Component, HighIsGood, LowIsGood
<1>6. \A c \in Component : c \in Known(m)
  BY <1>2, <1>3, <1>5
<1> QED
  BY <1>6 DEF Known

----------------------------------------------------------------------------
(* Thresholds and the two risk rules (RiskPolicy)                         *)

\* A nonempty set of naturals has a least member.
LEMMA HasLeast ==
  ASSUME NEW S, S \subseteq Nat, S # {}
  PROVE  \E n \in S : \A m \in S : n <= m
<1> DEFINE R == OpToRel(<, Nat)
<1>1. IsWellFoundedOn(R, Nat)
  BY NatLessThanWellFounded
<1>2. PICK n \in S : \A m \in S : ~ (<<m, n>> \in R)
  <2> HIDE DEF R
  <2> QED BY <1>1, WFMin
<1>3. \A m \in S : ~ (m < n)
  BY <1>2 DEF OpToRel
<1> QED BY <1>3

\* A nonempty bounded one has a greatest.
LEMMA HasGreatest ==
  ASSUME NEW S, NEW k \in Nat, S \subseteq 0 .. k, S # {}
  PROVE  \E n \in S : \A m \in S : m <= n
<1> DEFINE T == {k - n : n \in S}
<1>1. T \subseteq Nat /\ T # {}
  <2>1. \A n \in S : k - n \in Nat
    OBVIOUS
  <2> QED BY <2>1
<1>2. PICK t \in T : \A u \in T : t <= u
  BY <1>1, HasLeast
<1>3. PICK n \in S : t = k - n
  OBVIOUS
<1>4. ASSUME NEW m \in S PROVE m <= n
  <2>1. k - n <= k - m
    BY <1>2, <1>3
  <2> QED BY <2>1
<1> QED BY <1>4

Rules == INSTANCE RiskPolicy

Limits == {"stopValue", "resumeValue", "stopRate", "resumeRate", "minimum"}
Complete(t) == \A key \in Limits : t[key] \in Int
Partial(t) == \A key \in Limits : t[key] \in Int \cup {Inherit}

PolicyConstants ==
  /\ Scale \in Int /\ MaxClock \in Nat
  /\ Limits \subseteq Rules!Keys
  /\ Complete(INITIAL_GLOBAL) /\ (\A t \in Thresholds : Complete(t))
  /\ \A t \in Overrides : Partial(t)
  /\ \A f \in Facts : {f.waiting, f.moving, f.unknown, f.value} \subseteq Nat

Revision ==
  [scope : {"GLOBAL", "SHOP"}, enabled : BOOLEAN,
   thresholds : Thresholds \cup Overrides \cup {[key \in Rules!Keys |-> Inherit]},
   from : Rules!Instant]

\* A GLOBAL revision is complete, a SHOP one may inherit.
RevisionOK(revision) ==
  IF revision.scope = "GLOBAL" THEN Complete(revision.thresholds)
                               ELSE Partial(revision.thresholds)

Won(i, scope) == i \in DOMAIN revisions /\ revisions[i].scope = scope

\* What a review has read is a revision of its scope.
PolicyInv ==
  /\ revisions \in Seq(Revision)
  /\ \A i \in DOMAIN revisions : RevisionOK(revisions[i])
  /\ \/ review = [step |-> "idle"]
     \/ /\ review \in [step : {"read"}, at : Rules!Instant, global : Int, shop : Int]
        /\ review.global \notin {-1, 0} => Won(review.global, "GLOBAL")
        /\ review.shop \notin {-1, 0} => Won(review.shop, "SHOP")
  /\ now \in Rules!Instant
  /\ Rules!StopIsNeverResume /\ Rules!RulesAgreeOnDelivery

\* A merge of complete thresholds with a partial override is complete.
LEMMA MergedIsComplete ==
  ASSUME PolicyConstants, PolicyInv, review.step = "read",
         review.global # -1, review.shop # -1
  PROVE  Complete(Rules!Merged(review.global, review.shop))
<1> DEFINE g == review.global
           s == review.shop
           base == IF g = 0 THEN INITIAL_GLOBAL ELSE revisions[g].thresholds
<1>1. /\ g # 0 => Won(g, "GLOBAL")
      /\ s # 0 => Won(s, "SHOP")
  BY DEF PolicyInv
<1>2. Complete(base)
  BY <1>1 DEF PolicyInv, PolicyConstants, RevisionOK, Won
<1>3. CASE s = 0 \/ ~ revisions[s].enabled
  BY <1>2, <1>3 DEF Rules!Merged
<1>4. CASE ~ (s = 0 \/ ~ revisions[s].enabled)
  <2>1. Partial(revisions[s].thresholds)
    BY <1>1, <1>4 DEF PolicyInv, RevisionOK, Won
  <2> HIDE DEF base
  <2>2. Rules!Merged(g, s) = [key \in Rules!Keys |->
          IF revisions[s].thresholds[key] = Inherit THEN base[key]
          ELSE revisions[s].thresholds[key]]
    BY <1>4 DEF Rules!Merged, base
  <2>3. Limits \subseteq Rules!Keys
    BY DEF PolicyConstants
  <2>4. ASSUME NEW key \in Limits PROVE Rules!Merged(g, s)[key] \in Int
    <3>1. key \in Rules!Keys /\ base[key] \in Int
      BY <1>2, <2>3 DEF Complete
    <3>2. revisions[s].thresholds[key] \in Int \cup {Inherit}
      BY <2>1 DEF Partial
    <3> QED BY <2>2, <3>1, <3>2
  <2> QED BY <2>4 DEF Complete
<1> QED BY <1>3, <1>4

\* The effective revision of a scope that is latest, and of these the last appended.
LEMMA WinnerIs ==
  ASSUME PolicyConstants, PolicyInv, NEW scope, NEW at
  PROVE  /\ Rules!Winner(scope, at) \in Int
         /\ Rules!Winner(scope, at) # 0 => Won(Rules!Winner(scope, at), scope)
         /\ Rules!Winner(scope, at) # -1
<1> DEFINE E == {i \in DOMAIN revisions : revisions[i].scope = scope /\ revisions[i].from <= at}
           Best(i) == \A j \in E \ {i} :
                        \/ revisions[j].from < revisions[i].from
                        \/ revisions[j].from = revisions[i].from /\ j < i
<1>1. DOMAIN revisions = 1 .. Len(revisions) /\ Len(revisions) \in Nat
  BY DEF PolicyInv
<1>2. \A i \in DOMAIN revisions : revisions[i].from \in 0 .. MaxClock
  <2>1. \A i \in DOMAIN revisions : revisions[i] \in Revision
    BY DEF PolicyInv
  <2> QED BY <2>1 DEF Revision, Rules!Instant
<1>3. CASE E = {}
  BY <1>3 DEF Rules!Winner
<1>4. CASE E # {}
  <2>1. PICK i \in E : \A j \in E : revisions[j].from <= revisions[i].from
    <3> DEFINE F == {revisions[j].from : j \in E}
    <3>1. F \subseteq 0 .. MaxClock /\ F # {} /\ MaxClock \in Nat
      BY <1>2, <1>4 DEF PolicyConstants
    <3>2. PICK n \in F : \A m \in F : m <= n
      <4> HIDE DEF F
      <4> QED BY <3>1, HasGreatest
    <3> QED BY <3>2
  <2> DEFINE L == {j \in E : revisions[j].from = revisions[i].from}
  <2>2. PICK k \in L : \A j \in L : j <= k
    <3>1. L \subseteq 0 .. Len(revisions) /\ L # {}
      BY <1>1
    <3> HIDE DEF L
    <3> QED BY <1>1, <3>1, HasGreatest
  <2>3. ASSUME NEW j \in E \ {k}
        PROVE  \/ revisions[j].from < revisions[k].from
               \/ revisions[j].from = revisions[k].from /\ j < k
    <3>1. /\ revisions[j].from \in Int /\ revisions[k].from = revisions[i].from
          /\ revisions[i].from \in Int /\ j \in Int /\ k \in Int
      BY <1>1, <1>2
    <3>2. CASE j \in L
      BY <2>2, <2>3, <3>1, <3>2
    <3>3. CASE j \notin L
      BY <2>1, <3>1, <3>3
    <3> QED BY <3>2, <3>3
  <2>4. k \in E /\ Best(k)
    BY <2>3
  <2>5. Rules!Winner(scope, at) = CHOOSE n \in E : Best(n)
    BY <1>4 DEF Rules!Winner
  <2>6. (CHOOSE n \in E : Best(n)) \in E
    <3>1. \E n : n \in E /\ Best(n)
      BY <2>4
    <3> HIDE DEF E, Best
    <3> QED BY <3>1, Zenon
  <2>7. \A n \in E : n \in Int /\ n # 0 /\ n # -1 /\ Won(n, scope)
    BY <1>1 DEF Won
  <2> HIDE DEF E, Best
  <2> QED BY <2>5, <2>6, <2>7
<1> QED BY <1>3, <1>4

\* A rate below a threshold is below a higher one.
LEMMA HigherRate ==
  ASSUME NEW f, {f.waiting, f.moving, f.unknown, f.value} \subseteq Nat, Scale \in Int,
         NEW a \in Int, NEW b \in Int, a <= b, Rules!RateBelow(f, a)
  PROVE  Rules!RateBelow(f, b)
<1>1. Rules!Total(f) \in Nat /\ f.moving * Scale \in Int
  BY DEF Rules!Total
<1>2. a * Rules!Total(f) <= b * Rules!Total(f)
  BY <1>1, TimesMonotone
<1>3. a * Rules!Total(f) \in Int /\ b * Rules!Total(f) \in Int
  BY <1>1
<1> QED BY <1>1, <1>2, <1>3 DEF Rules!RateBelow

LEMMA RulesOK ==
  ASSUME PolicyConstants, NEW f \in Facts, NEW t, Complete(t), Rules!Sound(t),
         NEW official, NEW quality
  PROVE  /\ ~ (Rules!Stops(f, t) /\ Rules!Resumes(f, t))
         /\ Rules!DeliveryRate(f, official, quality, t) = "TRIGGERED" => Rules!StopsByRate(f, t)
         /\ Rules!DeliveryRate(f, official, quality, t) = "CLEAR" => ~ Rules!StopsByRate(f, t)
<1>1. {f.waiting, f.moving, f.unknown, f.value} \subseteq Nat /\ Scale \in Int
  BY DEF PolicyConstants
<1>2. /\ t.stopValue \in Int /\ t.resumeValue \in Int /\ t.stopRate \in Int
      /\ t.resumeRate \in Int /\ t.minimum \in Int
      /\ t.resumeRate >= t.stopRate /\ t.resumeValue <= t.stopValue
  BY DEF Complete, Limits, Rules!Sound
<1>3. ASSUME Rules!StopsByValue(f, t) PROVE ~ Rules!Resumes(f, t)
  BY <1>1, <1>2, <1>3 DEF Rules!StopsByValue, Rules!Resumes
<1>4. ASSUME Rules!StopsByRate(f, t) PROVE ~ Rules!Resumes(f, t)
  BY <1>1, <1>2, <1>4, HigherRate DEF Rules!StopsByRate, Rules!Resumes
<1>5. ASSUME Rules!HasRate(f), ~ Rules!TooSmall(f, t) PROVE Rules!SampleSufficient(f, t)
  <2>1. Rules!Total(f) \in Int
    BY <1>1 DEF Rules!Total
  <2> QED BY <1>2, <1>5, <2>1 DEF Rules!HasRate, Rules!TooSmall, Rules!SampleSufficient
<1>6. Rules!DeliveryRate(f, official, quality, t) = "TRIGGERED" => Rules!StopsByRate(f, t)
  BY <1>5 DEF Rules!DeliveryRate, Rules!Condition, Rules!StopsByRate
<1>7. Rules!DeliveryRate(f, official, quality, t) = "CLEAR" => ~ Rules!StopsByRate(f, t)
  BY DEF Rules!DeliveryRate, Rules!Condition, Rules!StopsByRate
<1> QED BY <1>3, <1>4, <1>6, <1>7 DEF Rules!Stops

LEMMA PolicyInit == ASSUME PolicyConstants, Rules!Init PROVE PolicyInv
<1>1. <<>> \in Seq(Revision)
  OBVIOUS
<1> QED BY <1>1 DEF PolicyConstants, Rules!Init, PolicyInv, Rules!Instant, Rules!Nothing,
           Rules!StopIsNeverResume, Rules!RulesAgreeOnDelivery

\* An appended revision leaves what a review has read alone.
LEMMA AppendsRevision ==
  ASSUME PolicyInv, NEW revision \in Revision, RevisionOK(revision),
         revisions' = Append(revisions, revision), UNCHANGED <<now, review, outcome>>
  PROVE  PolicyInv'
<1>1. revisions \in Seq(Revision) /\ Len(revisions) \in Nat
  BY DEF PolicyInv
<1>2. /\ revisions' \in Seq(Revision)
      /\ DOMAIN revisions' = 1 .. Len(revisions) + 1 /\ DOMAIN revisions = 1 .. Len(revisions)
      /\ \A i \in 1 .. Len(revisions) : revisions'[i] = revisions[i]
      /\ revisions'[Len(revisions) + 1] = revision
  BY <1>1
<1>3. ASSUME NEW i \in DOMAIN revisions' PROVE RevisionOK(revisions'[i])
  <2>1. i \in 1 .. Len(revisions) \/ i = Len(revisions) + 1
    BY <1>1, <1>2
  <2> QED BY <1>2, <2>1 DEF PolicyInv
<1>4. ASSUME NEW i, NEW scope, Won(i, scope) PROVE Won(i, scope)'
  BY <1>1, <1>2, <1>4 DEF Won
<1>5. \A i, scope : Won(i, scope) => Won(i, scope)'
  BY <1>4
<1>6. \/ review = [step |-> "idle"]
      \/ /\ review \in [step : {"read"}, at : Rules!Instant, global : Int, shop : Int]
         /\ review.global \notin {-1, 0} => Won(review.global, "GLOBAL")'
         /\ review.shop \notin {-1, 0} => Won(review.shop, "SHOP")'
  BY <1>5 DEF PolicyInv
<1> QED BY <1>2, <1>3, <1>6
        DEF PolicyInv, Rules!StopIsNeverResume, Rules!RulesAgreeOnDelivery, Won

LEMMA PolicyNext ==
  ASSUME PolicyConstants, PolicyInv, [Rules!Next]_Rules!vars PROVE PolicyInv'
<1>1. CASE UNCHANGED Rules!vars
  BY <1>1 DEF Rules!vars, PolicyInv, Won, Rules!StopIsNeverResume, Rules!RulesAgreeOnDelivery
<1>2. ASSUME NEW t \in Thresholds, NEW from \in Rules!Instant,
             Rules!appendGlobalRiskPolicyRevision(t, from)
      PROVE  PolicyInv'
  <2> DEFINE revision == [scope |-> "GLOBAL", enabled |-> TRUE, thresholds |-> t, from |-> from]
  <2>1. revisions' = Append(revisions, revision) /\ UNCHANGED <<now, review, outcome>>
    BY <1>2 DEF Rules!appendGlobalRiskPolicyRevision, Rules!AppendRevision
  <2>2. revision \in Revision /\ RevisionOK(revision)
    BY DEF Revision, RevisionOK, PolicyConstants
  <2> HIDE DEF revision
  <2> QED BY <2>1, <2>2, AppendsRevision
<1>3. ASSUME NEW t \in Overrides, NEW from \in Rules!Instant,
             Rules!appendShopRiskPolicyOverrideRevision(t, from)
      PROVE  PolicyInv'
  <2> DEFINE revision == [scope |-> "SHOP", enabled |-> TRUE, thresholds |-> t, from |-> from]
  <2>1. revisions' = Append(revisions, revision) /\ UNCHANGED <<now, review, outcome>>
    BY <1>3 DEF Rules!appendShopRiskPolicyOverrideRevision, Rules!AppendRevision
  <2>2. revision \in Revision /\ RevisionOK(revision)
    BY DEF Revision, RevisionOK, PolicyConstants
  <2> HIDE DEF revision
  <2> QED BY <2>1, <2>2, AppendsRevision
<1>4. ASSUME NEW from \in Rules!Instant, Rules!disableShopRiskPolicyOverride(from)
      PROVE  PolicyInv'
  <2> DEFINE blank == [key \in Rules!Keys |-> Inherit]
             revision == [scope |-> "SHOP", enabled |-> FALSE, thresholds |-> blank, from |-> from]
  <2>1. revisions' = Append(revisions, revision) /\ UNCHANGED <<now, review, outcome>>
    BY <1>4 DEF Rules!disableShopRiskPolicyOverride, Rules!AppendRevision
  <2>2. Partial(blank)
    BY DEF Partial, PolicyConstants
  <2>3. blank \in {[key \in Rules!Keys |-> Inherit]}
    OBVIOUS
  <2> HIDE DEF blank
  <2>4. revision \in Revision /\ RevisionOK(revision)
    BY <2>2, <2>3 DEF Revision, RevisionOK
  <2> HIDE DEF revision
  <2> QED BY <2>1, <2>4, AppendsRevision
<1>5. CASE Rules!StartReview
  <2> DEFINE started == [step |-> "read", at |-> now, global |-> -1, shop |-> -1]
  <2>1. review' = started /\ outcome' = Rules!Nothing /\ UNCHANGED <<revisions, now>>
    BY <1>5 DEF Rules!StartReview
  <2>2. /\ started \in [step : {"read"}, at : Rules!Instant, global : Int, shop : Int]
        /\ started.global = -1 /\ started.shop = -1
    BY DEF PolicyInv
  <2> HIDE DEF started
  <2> QED BY <2>1, <2>2 DEF PolicyInv, Rules!Nothing, Rules!StopIsNeverResume,
             Rules!RulesAgreeOnDelivery
<1>6. ASSUME NEW scope, NEW field,
             \/ scope = "GLOBAL" /\ field = "global"
             \/ scope = "SHOP" /\ field = "shop",
             Rules!ReadScope(scope, field)
      PROVE  PolicyInv'
  <2> DEFINE won == Rules!Winner(scope, review.at)
  <2>1. /\ review.step = "read" /\ review' = [review EXCEPT ![field] = won]
        /\ UNCHANGED <<revisions, now, outcome>>
    BY <1>6 DEF Rules!ReadScope
  <2>2. won \in Int /\ (won # 0 => Won(won, scope))
    BY WinnerIs
  <2>3. review \in [step : {"read"}, at : Rules!Instant, global : Int, shop : Int]
    BY <2>1 DEF PolicyInv
  <2> HIDE DEF won
  <2>4. CASE field = "global"
    <3>1. /\ review' \in [step : {"read"}, at : Rules!Instant, global : Int, shop : Int]
          /\ review'.global = won /\ review'.shop = review.shop
      BY <2>1, <2>2, <2>3, <2>4
    <3> QED BY <1>6, <2>1, <2>2, <2>4, <3>1 DEF PolicyInv, Won, Rules!StopIsNeverResume,
               Rules!RulesAgreeOnDelivery
  <2>5. CASE field = "shop"
    <3>1. /\ review' \in [step : {"read"}, at : Rules!Instant, global : Int, shop : Int]
          /\ review'.shop = won /\ review'.global = review.global
      BY <2>1, <2>2, <2>3, <2>5
    <3> QED BY <1>6, <2>1, <2>2, <2>5, <3>1 DEF PolicyInv, Won, Rules!StopIsNeverResume,
               Rules!RulesAgreeOnDelivery
  <2> QED BY <1>6, <2>4, <2>5
<1>7. ASSUME NEW f \in Facts, NEW e, NEW official, NEW quality,
             Rules!Evaluate(f, e, official, quality)
      PROVE  PolicyInv'
  <2> DEFINE t == Rules!Merged(review.global, review.shop)
  <2>1. /\ review.step = "read" /\ review.global # -1 /\ review.shop # -1
        /\ review' = [step |-> "idle"] /\ UNCHANGED <<revisions, now>>
    BY <1>7 DEF Rules!Evaluate
  <2>2. Complete(t)
    BY <2>1, MergedIsComplete
  <2>3. Rules!StopIsNeverResume' /\ Rules!RulesAgreeOnDelivery'
    <3>1. CASE Rules!Sound(t)
      <4>1. /\ outcome'.stops = Rules!Stops(f, t) /\ outcome'.resumes = Rules!Resumes(f, t)
            /\ outcome'.stopsByRate = Rules!StopsByRate(f, t)
            /\ outcome'.delivery = Rules!DeliveryRate(f, official, quality, t)
        BY <1>7, <3>1 DEF Rules!Evaluate, Rules!Accepted
      <4> HIDE DEF t
      <4>2. /\ ~ (Rules!Stops(f, t) /\ Rules!Resumes(f, t))
            /\ Rules!DeliveryRate(f, official, quality, t) = "TRIGGERED" => Rules!StopsByRate(f, t)
            /\ Rules!DeliveryRate(f, official, quality, t) = "CLEAR" => ~ Rules!StopsByRate(f, t)
        BY <2>2, <3>1, RulesOK
      <4> QED BY <4>1, <4>2 DEF Rules!StopIsNeverResume, Rules!RulesAgreeOnDelivery
    <3>2. CASE ~ Rules!Sound(t)
      <4>1. outcome' = [kind |-> "REJECTED"]
        BY <1>7, <3>2 DEF Rules!Evaluate, Rules!Accepted
      <4> QED BY <4>1 DEF Rules!StopIsNeverResume, Rules!RulesAgreeOnDelivery
    <3> QED BY <3>1, <3>2
  <2> QED BY <2>1, <2>3 DEF PolicyInv
<1>8. CASE Rules!Tick
  <2>1. now' \in Rules!Instant /\ UNCHANGED <<revisions, review, outcome>>
    BY <1>8 DEF Rules!Tick, PolicyInv, PolicyConstants, Rules!Instant
  <2> QED BY <2>1 DEF PolicyInv, Won, Rules!StopIsNeverResume, Rules!RulesAgreeOnDelivery
<1> QED BY <1>1, <1>2, <1>3, <1>4, <1>5, <1>6, <1>7, <1>8 DEF Rules!Next

\* Whatever thresholds were set, in whatever order and effective from whenever, and
\* whatever a review read between them: it never says stop and resume at once, and its
\* two rules agree on the delivery rate (risk-control.ts, target-rule.ts).
THEOREM RulesConsistent ==
  PolicyConstants => (Rules!Spec => [](Rules!StopIsNeverResume /\ Rules!RulesAgreeOnDelivery))
<1> SUFFICES ASSUME PolicyConstants
             PROVE  Rules!Spec => [](Rules!StopIsNeverResume /\ Rules!RulesAgreeOnDelivery)
  OBVIOUS
<1>1. Rules!Init => PolicyInv
  BY PolicyInit
<1>2. PolicyInv /\ [Rules!Next]_Rules!vars => PolicyInv'
  BY PolicyNext
<1>3. PolicyInv => Rules!StopIsNeverResume /\ Rules!RulesAgreeOnDelivery
  BY DEF PolicyInv
<1> QED BY <1>1, <1>2, <1>3, PTL DEF Rules!Spec

----------------------------------------------------------------------------
(* The risk control row (RiskControl)                                     *)

Control == INSTANCE RiskControl WITH Policy <- RiskLimits

Desired == {"HOLIDAY_MODE_ON", "HOLIDAY_MODE_OFF", "INSUFFICIENT_DATA"}
ControlRow ==
  [evaluatedAt : Control!Instant, version : Nat, desired : Desired, cycles : Nat,
   observed : Control!Observed, observedAt : Control!Instant \cup {None}, owned : BOOLEAN,
   actionAt : Control!Instant \cup {None}]

ControlConstants == MaxClock \in Nat /\ None \notin Evaluator \cup ControlRow

PersistedOrders == [facts : Facts, version : Nat]

\* What an evaluation has read and decided.
AtLock == [step : {"lock", "facts"}, at : Control!Instant]
AtPrevious == [step : {"previous"}, at : Control!Instant, orders : PersistedOrders]
AtSave ==
  [step : {"save"}, at : Control!Instant, version : Nat,
   decision : [desired : Desired, cycles : Nat]]

ControlTypes ==
  /\ now \in Control!Instant
  /\ orders \in PersistedOrders
  /\ pc \in [Evaluator -> {[step |-> "idle"]} \cup AtLock \cup AtPrevious \cup AtSave]
  /\ row \in ControlRow \cup {None}
  /\ known \in [Control!Instant -> Nat]
  /\ streak \in Nat

\* Instants that have begun knew no newer orders than there are.
KnewOrders == \A t \in Control!Instant : t <= now => known[t] <= orders.version

Cycles == IF row = None THEN 0 ELSE row.cycles

\* An evaluation read orders no older than its instant, under the lock from its first
\* read on, so that the counter it decided by is the stored one.
Evaluates(e) ==
  /\ pc[e].step # "idle" => pc[e].at <= now
  /\ pc[e].step \in {"facts", "previous", "save"} => lock = e
  /\ pc[e].step = "previous" => pc[e].orders.version >= known[pc[e].at]
  /\ pc[e].step = "save" =>
       /\ pc[e].version >= known[pc[e].at]
       /\ pc[e].decision.cycles \in {0, Cycles + 1}

Stamped ==
  row # None =>
    /\ row.evaluatedAt <= now /\ row.version >= known[row.evaluatedAt]
    /\ row.cycles = streak

ControlInv ==
  ControlTypes /\ KnewOrders /\ (\A e \in Evaluator : Evaluates(e)) /\ Stamped

----------------------------------------------------------------------------

LEMMA Decided ==
  ASSUME NEW f, NEW t, NEW holiday, NEW counted \in Nat
  PROVE  /\ Control!RiskDecision(f, t, holiday, counted)
              \in [desired : Desired, cycles : Nat]
         /\ Control!RiskDecision(f, t, holiday, counted).cycles \in {0, counted + 1}
<1> DEFINE safe == ~ Control!Stops(f, t) /\ Control!Resumes(f, t) /\ holiday = "ON"
           desired == IF Control!Stops(f, t) THEN "HOLIDAY_MODE_ON"
            ELSE IF ~ Control!Sufficient(f, t) THEN "INSUFFICIENT_DATA"
            ELSE IF \/ holiday # "ON"
                    \/ safe /\ counted + 1 >= t.stableCycles
                 THEN "HOLIDAY_MODE_OFF"
                 ELSE "HOLIDAY_MODE_ON"
           count == IF safe THEN counted + 1 ELSE 0
<1>1. Control!RiskDecision(f, t, holiday, counted) = [desired |-> desired, cycles |-> count]
  BY DEF Control!RiskDecision
<1>2. desired \in Desired
  BY DEF Desired, Control!Stops, Control!Sufficient
<1>3. count \in {0, counted + 1} /\ count \in Nat
  OBVIOUS
<1> HIDE DEF desired, count
<1> QED BY <1>1, <1>2, <1>3

LEMMA ControlInit ==
  ASSUME ControlConstants, Control!Init PROVE ControlInv
BY DEF ControlConstants, Control!Init, ControlInv, ControlTypes, KnewOrders, Evaluates, Stamped,
       Control!Instant, PersistedOrders

\* A step of e that changes nothing but what e has read.
LEMMA EvaluatorGoes ==
  ASSUME ControlInv, NEW e \in Evaluator, NEW c, pc' = [pc EXCEPT ![e] = c],
         c \in {[step |-> "idle"]} \cup AtLock \cup AtPrevious \cup AtSave,
         UNCHANGED <<now, orders, row, known, streak>>,
         \A d \in Evaluator : d # e /\ pc[d].step \in {"facts", "previous", "save"} => lock' = lock,
         Evaluates(e)'
  PROVE  ControlInv'
<1>1. ASSUME NEW d \in Evaluator, d # e PROVE Evaluates(d)'
  <2>1. Evaluates(d) /\ pc'[d] = pc[d]
    BY <1>1 DEF ControlInv, ControlTypes
  <2> QED BY <1>1, <2>1 DEF Evaluates, Cycles
<1>2. ControlTypes'
  BY DEF ControlInv, ControlTypes
<1>3. KnewOrders' /\ Stamped'
  BY DEF ControlInv, KnewOrders, Stamped
<1> QED BY <1>1, <1>2, <1>3 DEF ControlInv

LEMMA CallStep ==
  ASSUME ControlInv, NEW e \in Evaluator, Control!Call(e) PROVE ControlInv'
<1> PICK c : c = [step |-> "lock", at |-> now]
  OBVIOUS
<1>1. c \in AtLock /\ c.step = "lock" /\ c.at = now
  BY DEF ControlInv, ControlTypes, AtLock
<1>2. pc' = [pc EXCEPT ![e] = c] /\ UNCHANGED <<now, orders, lock, row, known, streak>>
  BY DEF Control!Call
<1>3. pc'[e] = c
  BY <1>2 DEF ControlInv, ControlTypes
<1>4. Evaluates(e)'
  BY <1>1, <1>2, <1>3 DEF ControlInv, ControlTypes, Evaluates, Control!Instant
<1> QED BY <1>1, <1>2, <1>4, EvaluatorGoes

LEMMA LockStep ==
  ASSUME ControlConstants, ControlInv, NEW e \in Evaluator, Control!Lock(e) PROVE ControlInv'
<1> PICK c : c = [step |-> "facts", at |-> pc[e].at]
  OBVIOUS
<1>0. pc[e] \in AtLock
  BY DEF ControlInv, ControlTypes, Control!Lock, AtLock, AtPrevious, AtSave
<1>1. c \in AtLock /\ c.step = "facts" /\ c.at = pc[e].at
  BY <1>0 DEF AtLock
<1>2. pc' = [pc EXCEPT ![e] = c] /\ UNCHANGED <<now, orders, row, known, streak>> /\ lock' = e
  BY DEF Control!Lock
<1>3. pc'[e] = c
  BY <1>2 DEF ControlInv, ControlTypes
<1>4. Evaluates(e)'
  <2>1. pc[e].at <= now
    BY DEF ControlInv, Evaluates, Control!Lock
  <2> QED BY <1>1, <1>2, <1>3, <2>1 DEF Evaluates
<1>5. ASSUME NEW d \in Evaluator, d # e, pc[d].step \in {"facts", "previous", "save"} PROVE FALSE
  <2>1. lock = d
    BY <1>5 DEF ControlInv, Evaluates
  <2> QED BY <2>1 DEF Control!Lock, Control!LockIsFree, ControlConstants
<1> QED BY <1>1, <1>2, <1>4, <1>5, EvaluatorGoes

LEMMA FactsStep ==
  ASSUME ControlInv, NEW e \in Evaluator, Control!ReadFacts(e) PROVE ControlInv'
<1> PICK c : c = [step |-> "previous", at |-> pc[e].at, orders |-> orders]
  OBVIOUS
<1>0. pc[e] \in AtLock
  BY DEF ControlInv, ControlTypes, Control!ReadFacts, AtLock, AtPrevious, AtSave
<1>1. c \in AtPrevious /\ c.step = "previous" /\ c.at = pc[e].at /\ c.orders = orders
  BY <1>0 DEF AtLock, AtPrevious, ControlInv, ControlTypes
<1>2. pc' = [pc EXCEPT ![e] = c] /\ UNCHANGED <<now, orders, lock, row, known, streak>>
  BY DEF Control!ReadFacts
<1>3. pc'[e] = c
  BY <1>2 DEF ControlInv, ControlTypes
<1>4. Evaluates(e)'
  <2>1. pc[e].at <= now /\ lock = e
    BY DEF ControlInv, Evaluates, Control!ReadFacts
  <2>2. pc[e].at \in Control!Instant
    BY <1>0 DEF AtLock
  <2>3. orders.version >= known[pc[e].at]
    BY <2>1, <2>2 DEF ControlInv, KnewOrders, ControlTypes, PersistedOrders
  <2> QED BY <1>1, <1>2, <1>3, <2>1, <2>3 DEF Evaluates
<1> QED BY <1>1, <1>2, <1>4, EvaluatorGoes

LEMMA DecideStep ==
  ASSUME ControlConstants, ControlInv, NEW e \in Evaluator, Control!Decide(e) PROVE ControlInv'
<1> PICK d : d = Control!RiskDecision(pc[e].orders.facts, RiskLimits,
                    IF row = None THEN "UNKNOWN" ELSE row.observed,
                    IF row = None THEN 0 ELSE row.cycles)
  OBVIOUS
<1> PICK c : c = [step |-> "save", at |-> pc[e].at, version |-> pc[e].orders.version,
                  decision |-> d]
  OBVIOUS
<1>0. pc[e] \in AtPrevious
  BY DEF ControlInv, ControlTypes, Control!Decide, AtLock, AtPrevious, AtSave
<1>1. Cycles \in Nat
  BY DEF ControlInv, ControlTypes, ControlRow, Cycles
<1>2. d \in [desired : Desired, cycles : Nat] /\ d.cycles \in {0, Cycles + 1}
  BY <1>1, Decided DEF Cycles
<1>3. /\ c \in AtSave /\ c.step = "save" /\ c.at = pc[e].at
      /\ c.version = pc[e].orders.version /\ c.decision = d
  BY <1>0, <1>2 DEF AtPrevious, AtSave, PersistedOrders
<1>4. pc' = [pc EXCEPT ![e] = c] /\ UNCHANGED <<now, orders, lock, row, known, streak>>
  BY DEF Control!Decide
<1>5. pc'[e] = c
  BY <1>4 DEF ControlInv, ControlTypes
<1>6. Evaluates(e)'
  <2>1. pc[e].at <= now /\ lock = e /\ pc[e].orders.version >= known[pc[e].at]
    BY DEF ControlInv, Evaluates, Control!Decide
  <2> QED BY <1>2, <1>3, <1>4, <1>5, <2>1 DEF Evaluates, Cycles
<1> QED BY <1>3, <1>4, <1>6, EvaluatorGoes

LEMMA SaveStep ==
  ASSUME ControlConstants, ControlInv, NEW e \in Evaluator, Control!Save(e) PROVE ControlInv'
<1>0. pc[e] \in AtSave
  BY DEF ControlInv, ControlTypes, Control!Save, AtLock, AtPrevious, AtSave
<1> PICK at, read, d : at = pc[e].at /\ read = pc[e].version /\ d = pc[e].decision
  OBVIOUS
<1>1. /\ at \in Control!Instant /\ read \in Nat /\ d.desired \in Desired /\ d.cycles \in Nat
  BY <1>0 DEF AtSave
<1>2. /\ lock = e /\ at <= now /\ read >= known[at] /\ d.cycles \in {0, Cycles + 1}
  BY DEF ControlInv, Evaluates, Control!Save
<1>3. /\ pc' = [pc EXCEPT ![e] = [step |-> "idle"]] /\ UNCHANGED <<now, orders, known>>
      /\ pc'[e] = [step |-> "idle"] /\ \A o \in Evaluator : o # e => pc'[o] = pc[o]
  BY DEF Control!Save, ControlInv, ControlTypes
<1>4. row' \in ControlRow \cup {None} /\ Stamped' /\ streak' \in Nat
  <2>1. CASE row = None
    <3> PICK new : new = [evaluatedAt |-> at, version |-> read,
                          desired |-> d.desired, cycles |-> d.cycles,
                          observed |-> "UNKNOWN", observedAt |-> None,
                          owned |-> FALSE, actionAt |-> None]
      OBVIOUS
    <3>1. /\ new \in ControlRow /\ new.evaluatedAt = at /\ new.version = read
          /\ new.cycles = d.cycles
      BY <1>1 DEF ControlRow, Control!Observed
    <3>2. row' = new /\ streak' = IF d.cycles > 0 THEN 1 ELSE 0
      BY <2>1 DEF Control!Save, Control!EvaluatedAt
    <3>3. d.cycles \in {0, 1}
      BY <1>2, <2>1 DEF Cycles
    <3> QED BY <1>2, <1>3, <3>1, <3>2, <3>3 DEF Stamped
  <2>2. CASE row # None /\ row.evaluatedAt < at
    <3>0. row \in ControlRow
      BY <2>2 DEF ControlInv, ControlTypes
    <3> PICK new : new = [row EXCEPT !.evaluatedAt = at, !.version = read,
                                     !.desired = d.desired, !.cycles = d.cycles]
      OBVIOUS
    <3>1. /\ new \in ControlRow /\ new.evaluatedAt = at /\ new.version = read
          /\ new.cycles = d.cycles
      BY <1>1, <3>0 DEF ControlRow
    <3>2. row' = new /\ streak' = IF d.cycles > 0 THEN streak + 1 ELSE 0
      BY <2>2 DEF Control!Save, Control!EvaluatedAt
    <3>3. d.cycles \in {0, streak + 1} /\ streak \in Nat
      BY <1>2, <2>2 DEF Cycles, ControlInv, Stamped, ControlTypes
    <3> QED BY <1>2, <1>3, <3>1, <3>2, <3>3 DEF Stamped
  <2>3. CASE row # None /\ ~ row.evaluatedAt < at
    <3>1. UNCHANGED <<row, streak>>
      BY <2>3 DEF Control!Save, Control!EvaluatedAt
    <3> QED BY <1>3, <3>1 DEF ControlInv, ControlTypes, Stamped
  <2> QED BY <2>1, <2>2, <2>3
<1>5. ASSUME NEW o \in Evaluator PROVE Evaluates(o)'
  <2>1. CASE o = e
    BY <1>3, <2>1 DEF Evaluates
  <2>2. CASE o # e
    <3>1. pc[o].step \notin {"facts", "previous", "save"}
      BY <1>2, <2>2 DEF ControlInv, Evaluates
    <3>2. Evaluates(o)
      BY DEF ControlInv
    <3> QED BY <1>3, <2>2, <3>1, <3>2 DEF Evaluates
  <2> QED BY <2>1, <2>2
<1>6. ControlTypes'
  BY <1>3, <1>4 DEF ControlInv, ControlTypes
<1>7. KnewOrders'
  BY <1>3 DEF ControlInv, KnewOrders
<1> QED BY <1>4, <1>5, <1>6, <1>7 DEF ControlInv

LEMMA CrashStep ==
  ASSUME ControlInv, NEW e \in Evaluator, Control!Crash(e) PROVE ControlInv'
<1>1. pc' = [pc EXCEPT ![e] = [step |-> "idle"]] /\ UNCHANGED <<now, orders, row, known, streak>>
  BY DEF Control!Crash
<1>2. pc'[e] = [step |-> "idle"]
  BY <1>1 DEF ControlInv, ControlTypes
<1>3. Evaluates(e)'
  BY <1>2 DEF Evaluates
<1>4. \A d \in Evaluator : d # e /\ pc[d].step \in {"facts", "previous", "save"} => lock' = lock
  BY DEF ControlInv, Evaluates, Control!Crash
<1>5. PICK c : c = [step |-> "idle"]
  OBVIOUS
<1> QED BY <1>1, <1>3, <1>4, <1>5, EvaluatorGoes

\* What is recorded of the holiday mode leaves the evaluation as it is.
LEMMA ModeSteps ==
  ASSUME ControlConstants, ControlInv, NEW mode \in Control!Observed, NEW owned \in BOOLEAN,
         NEW at \in 0 .. now,
         \/ Control!recordHolidayModeObservation(mode, at)
         \/ Control!recordRiskControlAction(mode, owned, at)
  PROVE  ControlInv'
<1>1. row # None /\ UNCHANGED <<now, orders, lock, pc, known, streak>>
  BY DEF Control!recordHolidayModeObservation, Control!recordRiskControlAction
<1>2. row \in ControlRow /\ at \in Control!Instant
  BY <1>1 DEF ControlInv, ControlTypes, Control!Instant, ControlConstants
<1>3. /\ row' \in ControlRow /\ row'.evaluatedAt = row.evaluatedAt
      /\ row'.version = row.version /\ row'.cycles = row.cycles
  <2>1. CASE Control!recordHolidayModeObservation(mode, at)
    <3>1. row' = [row EXCEPT !.observed = mode, !.observedAt = at,
                             !.owned = row.owned /\ mode # "OFF"]
      BY <2>1 DEF Control!recordHolidayModeObservation
    <3>2. (row.owned /\ mode # "OFF") \in BOOLEAN
      OBVIOUS
    <3> QED BY <1>2, <3>1, <3>2 DEF ControlRow
  <2>2. CASE Control!recordRiskControlAction(mode, owned, at)
    <3>1. row' = [row EXCEPT !.observed = mode, !.observedAt = at,
                             !.actionAt = at, !.owned = owned]
      BY <2>2 DEF Control!recordRiskControlAction
    <3> QED BY <1>2, <3>1 DEF ControlRow
  <2> QED BY <2>1, <2>2
<1>4. row' # None
  BY <1>3 DEF ControlConstants
<1>5. \A e \in Evaluator : Evaluates(e)'
  BY <1>1, <1>3, <1>4 DEF ControlInv, Evaluates, Cycles
<1>6. ControlTypes'
  BY <1>1, <1>3 DEF ControlInv, ControlTypes
<1>7. KnewOrders' /\ Stamped'
  BY <1>1, <1>3, <1>4 DEF ControlInv, KnewOrders, Stamped
<1> QED BY <1>5, <1>6, <1>7 DEF ControlInv

LEMMA OrdersStep ==
  ASSUME ControlInv, NEW f \in Facts, Control!OrdersChange(f) PROVE ControlInv'
<1>1. UNCHANGED <<now, lock, pc, row, known, streak>>
  BY DEF Control!OrdersChange
<1>2. orders' \in PersistedOrders /\ orders'.version >= orders.version
  BY DEF Control!OrdersChange, ControlInv, ControlTypes, PersistedOrders
<1>3. ControlTypes'
  BY <1>1, <1>2 DEF ControlInv, ControlTypes
<1>4. KnewOrders'
  BY <1>1, <1>2 DEF ControlInv, KnewOrders, ControlTypes, PersistedOrders
<1>5. \A e \in Evaluator : Evaluates(e)'
  BY <1>1 DEF ControlInv, Evaluates, Cycles
<1> QED BY <1>1, <1>3, <1>4, <1>5 DEF ControlInv, Stamped

LEMMA TickStep ==
  ASSUME ControlConstants, ControlInv, Control!Tick PROVE ControlInv'
<1>1. /\ now' = now + 1 /\ now' \in Control!Instant /\ now \in Control!Instant
      /\ UNCHANGED <<orders, lock, pc, row, streak>>
  BY DEF Control!Tick, ControlInv, ControlTypes, Control!Instant, ControlConstants
<1>2. /\ known' = [known EXCEPT ![now + 1] = orders.version]
      /\ orders.version \in Nat
  BY DEF Control!Tick, ControlInv, ControlTypes, PersistedOrders
<1>3. /\ known' \in [Control!Instant -> Nat]
      /\ known'[now + 1] = orders.version
      /\ \A t \in Control!Instant : t <= now => known'[t] = known[t]
  BY <1>1, <1>2 DEF ControlInv, ControlTypes, Control!Instant
<1>4. ControlTypes'
  BY <1>1, <1>3 DEF ControlInv, ControlTypes
<1>5. KnewOrders'
  BY <1>1, <1>2, <1>3 DEF ControlInv, KnewOrders, Control!Instant
<1>6. ASSUME NEW e \in Evaluator PROVE Evaluates(e)'
  <2>1. Evaluates(e)
    BY DEF ControlInv
  <2>2. pc[e].step # "idle" => pc[e].at \in Control!Instant /\ pc[e].at <= now
    BY <2>1 DEF ControlInv, ControlTypes, Evaluates, AtLock, AtPrevious, AtSave
  <2>3. pc[e].step # "idle" => pc[e].at <= now + 1 /\ known'[pc[e].at] = known[pc[e].at]
    BY <1>1, <1>3, <2>2 DEF Control!Instant
  <2> QED BY <1>1, <2>1, <2>3 DEF Evaluates, Cycles
<1>7. Stamped'
  <2>1. row # None => row.evaluatedAt \in Control!Instant /\ row.evaluatedAt <= now
    BY DEF ControlInv, ControlTypes, Stamped, ControlRow
  <2>2. row # None => row.evaluatedAt <= now + 1 /\ known'[row.evaluatedAt] = known[row.evaluatedAt]
    BY <1>1, <1>3, <2>1 DEF Control!Instant
  <2> QED BY <1>1, <2>2 DEF ControlInv, Stamped
<1> QED BY <1>4, <1>5, <1>6, <1>7 DEF ControlInv

LEMMA ControlNext ==
  ASSUME ControlConstants, ControlInv, [Control!Next]_Control!vars PROVE ControlInv'
<1>1. CASE UNCHANGED Control!vars
  BY <1>1 DEF Control!vars, ControlInv, ControlTypes, KnewOrders, Evaluates, Cycles, Stamped
<1>2. ASSUME NEW e \in Evaluator,
             \/ Control!Call(e) \/ Control!Lock(e) \/ Control!ReadFacts(e)
             \/ Control!Decide(e) \/ Control!Save(e) \/ Control!Crash(e)
      PROVE  ControlInv'
  BY <1>2, CallStep, LockStep, FactsStep, DecideStep, SaveStep, CrashStep
<1>3. ASSUME NEW mode \in Control!Observed, NEW at \in 0 .. now,
             Control!recordHolidayModeObservation(mode, at)
      PROVE  ControlInv'
  BY <1>3, ModeSteps
<1>4. ASSUME NEW mode \in Control!Observed, NEW owned \in BOOLEAN, NEW at \in 0 .. now,
             Control!recordRiskControlAction(mode, owned, at)
      PROVE  ControlInv'
  BY <1>4, ModeSteps
<1>5. ASSUME NEW f \in Facts, Control!OrdersChange(f) PROVE ControlInv'
  BY <1>5, OrdersStep
<1>6. CASE Control!Tick
  BY <1>6, TickStep
<1> QED BY <1>1, <1>2, <1>3, <1>4, <1>5, <1>6 DEF Control!Next

\* The control row of a shop was decided by orders no older than those known at its
\* instant, and its counter has counted every cycle since the last resume, however
\* evaluations, orders and crashes interleave: the advisory lock is held from the
\* first read to the write (evaluateShopRiskControl).
THEOREM ControlRowCorrect ==
  ControlConstants =>
    (Control!Spec => [](Control!StampBoundsFacts /\ Control!CyclesCounted))
<1> SUFFICES ASSUME ControlConstants
             PROVE  Control!Spec => [](Control!StampBoundsFacts /\ Control!CyclesCounted)
  OBVIOUS
<1>1. Control!Init => ControlInv
  BY ControlInit
<1>2. ControlInv /\ [Control!Next]_Control!vars => ControlInv'
  BY ControlNext
<1>3. ControlInv => Control!StampBoundsFacts /\ Control!CyclesCounted
  BY DEF ControlInv, Stamped, Control!StampBoundsFacts, Control!CyclesCounted
<1> QED BY <1>1, <1>2, <1>3, PTL DEF Control!Spec

----------------------------------------------------------------------------
(* The evidence of a review (ReviewEvidence)                              *)

Assessment == INSTANCE ReviewEvidence WITH Policy <- RiskLimits

Collected == [complete : BOOLEAN, reconciled : BOOLEAN, amount : Amount, at : Assessment!Instant]

EvidenceConstants ==
  /\ MaxClock \in Nat /\ Amount \subseteq Nat
  /\ None \notin Assessment!Instant \cup Amount \cup Assessment!FinanceRun \cup Collected

Fields == {"step", "observed", "known", "unread", "facts", "orders", "latest", "proven",
           "previous", "amount"}
DecidedCase ==
  [observed : Assessment!Instant, known : Assessment!Instant \cup {None},
   at : Assessment!Instant \cup {None},
   official : {"NOT_EVALUATED", "TRIGGERED", "CLEAR"},
   delivery : {"NOT_EVALUATED", "TRIGGERED", "CLEAR"},
   decision : {"PAUSE", "INSUFFICIENT_DATA", "CONTINUE"}]

\* An instant no finance sync will store a capture of again.
Settled(t) ==
  t \in Assessment!Instant /\ financeRun # None /\ t <= financeRun.captured

Proves(run) ==
  /\ run \in Assessment!FinanceRun /\ run.complete /\ run.reconciled
  /\ Settled(run.captured) /\ captures[run.captured] \in Amount

FinanceOK ==
  /\ clock \in Assessment!Instant
  /\ captures \in [Assessment!Instant -> Amount \cup {None}]
  /\ financeRun \in Assessment!FinanceRun \cup {None}
  /\ provenRun # None => Proves(provenRun)
  /\ collected \in Collected \cup {None}
  /\ collected # None /\ financeRun # None => financeRun.captured < collected.at

\* What a review has read of the finance runs: proven runs are never older than the
\* capture it knew when it began, and their captures stay.
ReadOK(v) ==
  /\ v = [f \in Fields |-> v[f]]
  /\ v.observed \in Assessment!Instant
  /\ \/ v.known = None
     \/ v.known \in Assessment!Instant /\ provenRun # None /\ v.known <= provenRun.captured
  /\ "proven" \notin v.unread =>
       \/ v.proven = None /\ v.known = None
       \/ Proves(v.proven) /\ (v.known # None => v.known <= v.proven.captured)
  /\ "latest" \notin v.unread =>
       v.latest = None \/ (v.latest \in Assessment!FinanceRun /\ Settled(v.latest.captured))
  /\ v.step = "decide" =>
       /\ v.unread = {}
       /\ v.amount = IF Assessment!CaptureAt(v) = None THEN None
                     ELSE captures[Assessment!CaptureAt(v)]

ReviewOK(r) ==
  \/ review[r] = Assessment!Idle
  \/ review[r].step \in {"load", "decide", "refused"} /\ ReadOK(review[r])

CaseOK(c) ==
  /\ c.official = "NOT_EVALUATED" => c.known = None \/ (c.at # None /\ c.at > c.observed)
  /\ c.official # "NOT_EVALUATED" =>
       /\ c.at # None /\ (c.known # None => c.at >= c.known) /\ Settled(c.at)
       /\ IF captures[c.at] >= RiskLimits.stopValue
          THEN c.decision = "PAUSE"
          ELSE c.decision = "PAUSE" => c.delivery = "TRIGGERED"

EvidenceInv ==
  /\ FinanceOK
  /\ review = [r \in Reviewer |-> review[r]] /\ \A r \in Reviewer : ReviewOK(r)
  /\ cases \in Seq(DecidedCase) /\ \A i \in DOMAIN cases : CaseOK(cases[i])

LEMMA EvidenceInit == ASSUME EvidenceConstants, Assessment!Init PROVE EvidenceInv
<1>1. FinanceOK
  BY DEF EvidenceConstants, Assessment!Init, FinanceOK, Assessment!Instant
<1>2. cases \in Seq(DecidedCase) /\ DOMAIN cases = {}
  BY DEF Assessment!Init
<1>3. review = [r \in Reviewer |-> review[r]] /\ \A r \in Reviewer : ReviewOK(r)
  BY DEF Assessment!Init, ReviewOK
<1> QED BY <1>1, <1>2, <1>3 DEF EvidenceInv

\* Finance moves on: what is settled stays settled, with its capture.
Forward ==
  /\ \A t : Settled(t) => Settled(t)' /\ captures'[t] = captures[t]
  /\ provenRun # None => provenRun' # None /\ provenRun.captured <= provenRun'.captured

LEMMA NothingMoves ==
  ASSUME EvidenceInv, UNCHANGED <<financeRun, provenRun, captures>>
  PROVE  Forward
<1>1. provenRun # None => provenRun.captured \in Int
  BY DEF EvidenceInv, FinanceOK, Proves, Settled, Assessment!Instant
<1> QED BY <1>1 DEF Forward, Settled

LEMMA ReadStays ==
  ASSUME EvidenceInv, FinanceOK', Forward, NEW v, ReadOK(v)
  PROVE  ReadOK(v)'
<1> PICK u : u = v
  OBVIOUS
<1>1. ReadOK(u)
  OBVIOUS
<1>2. ASSUME NEW run, Proves(run) PROVE Proves(run)'
  BY <1>2 DEF Forward, Proves
<1>3. Assessment!CaptureAt(u) = None \/ u.unread # {} \/ Settled(Assessment!CaptureAt(u))
  BY <1>1 DEF ReadOK, Assessment!CaptureAt, Proves
<1>4. ASSUME u.unread = {}, Assessment!CaptureAt(u) # None
      PROVE  captures'[Assessment!CaptureAt(u)] = captures[Assessment!CaptureAt(u)]
  BY <1>3, <1>4 DEF Forward
<1>5. ASSUME u.known \in Assessment!Instant, provenRun # None, u.known <= provenRun.captured
      PROVE  provenRun' # None /\ u.known <= provenRun'.captured
  <2>1. /\ provenRun' # None /\ provenRun.captured <= provenRun'.captured
        /\ provenRun.captured \in Int
    BY <1>5 DEF Forward, EvidenceInv, FinanceOK, Proves, Settled, Assessment!Instant
  <2>2. provenRun'.captured \in Int
    BY <2>1 DEF FinanceOK, Proves, Settled, Assessment!Instant
  <2> QED BY <1>5, <2>1, <2>2 DEF Assessment!Instant
<1>6. \/ u.known = None
      \/ u.known \in Assessment!Instant /\ provenRun' # None /\ u.known <= provenRun'.captured
  BY <1>1, <1>5 DEF ReadOK
<1>7. "proven" \notin u.unread =>
        \/ u.proven = None /\ u.known = None
        \/ Proves(u.proven)' /\ (u.known # None => u.known <= u.proven.captured)
  BY <1>1, <1>2 DEF ReadOK
<1>8. "latest" \notin u.unread =>
        u.latest = None \/ (u.latest \in Assessment!FinanceRun /\ Settled(u.latest.captured)')
  BY <1>1 DEF ReadOK, Forward
<1>9. u.step = "decide" =>
        /\ u.unread = {}
        /\ u.amount = IF Assessment!CaptureAt(u) = None THEN None
                      ELSE captures'[Assessment!CaptureAt(u)]
  BY <1>1, <1>4 DEF ReadOK
<1>10. ReadOK(u)'
  BY <1>1, <1>6, <1>7, <1>8, <1>9 DEF ReadOK
<1> QED BY <1>10

LEMMA CaseStays ==
  ASSUME Forward, NEW c, CaseOK(c) PROVE CaseOK(c)'
BY DEF Forward, CaseOK

\* What is stored moves, reviews and cases do not.
LEMMA StoredMoves ==
  ASSUME EvidenceInv, FinanceOK', Forward, UNCHANGED <<review, cases>>
  PROVE  EvidenceInv'
<1>1. ASSUME NEW r \in Reviewer PROVE ReviewOK(r)'
  <2>1. PICK v : v = review[r]
    OBVIOUS
  <2>2. CASE v = Assessment!Idle
    BY <2>1, <2>2 DEF ReviewOK
  <2>3. CASE v.step \in {"load", "decide", "refused"} /\ ReadOK(v)
    <3>1. ReadOK(v)'
      BY <2>3, ReadStays
    <3> QED BY <2>1, <2>3, <3>1 DEF ReviewOK
  <2> QED BY <2>1, <2>2, <2>3 DEF EvidenceInv, ReviewOK
<1>2. ASSUME NEW i \in DOMAIN cases PROVE CaseOK(cases[i])'
  <2>1. PICK c : c = cases[i]
    OBVIOUS
  <2>2. CaseOK(c)'
    BY <2>1, CaseStays DEF EvidenceInv
  <2> QED BY <2>1, <2>2
<1> QED BY <1>1, <1>2 DEF EvidenceInv

LEMMA SyncStep ==
  ASSUME EvidenceConstants, EvidenceInv,
         \/ Assessment!Tick
         \/ \E o \in Order, k \in Kind, official \in BOOLEAN :
              Assessment!WriteOrder(o, k, official)
         \/ \E complete \in BOOLEAN : Assessment!CompleteOrders(complete)
         \/ \E complete, reconciled \in BOOLEAN, amount \in Amount :
              Assessment!Collect(complete, reconciled, amount)
  PROVE  EvidenceInv'
<1>1. UNCHANGED <<financeRun, provenRun, captures, review, cases>>
  BY DEF Assessment!Tick, Assessment!WriteOrder, Assessment!CompleteOrders,
     Assessment!Collect, Assessment!source
<1>2. Forward
  BY <1>1, NothingMoves
<1>3. clock' \in Assessment!Instant
  BY DEF Assessment!Tick, Assessment!WriteOrder, Assessment!CompleteOrders,
     Assessment!Collect, EvidenceInv, FinanceOK, EvidenceConstants, Assessment!Instant
<1>4. \/ UNCHANGED collected
      \/ /\ collected' \in Collected
         /\ financeRun # None => financeRun.captured < collected'.at
  BY DEF Assessment!Tick, Assessment!WriteOrder, Assessment!CompleteOrders,
     Assessment!Collect, Assessment!source, EvidenceInv, FinanceOK, Collected
<1>5. FinanceOK'
  BY <1>1, <1>3, <1>4 DEF EvidenceInv, FinanceOK, Proves, Settled
<1> QED BY <1>1, <1>2, <1>5, StoredMoves

LEMMA FinalizeStep ==
  ASSUME EvidenceConstants, EvidenceInv, Assessment!Finalize PROVE EvidenceInv'
<1> DEFINE run == [complete |-> collected.complete, reconciled |-> collected.reconciled,
                   captured |-> collected.at, finished |-> clock]
<1>1. /\ collected # None /\ collected' = None /\ financeRun' = run
      /\ UNCHANGED <<clock, review, cases>>
  BY DEF Assessment!Finalize
<1>2. IF run.complete /\ run.reconciled
      THEN /\ provenRun' = run
           /\ captures' = [captures EXCEPT ![collected.at] = collected.amount]
      ELSE UNCHANGED <<provenRun, captures>>
  BY DEF Assessment!Finalize
<1>3. collected \in Collected
  BY <1>1 DEF EvidenceInv, FinanceOK
<1>4. /\ run \in Assessment!FinanceRun /\ run.captured = collected.at
      /\ collected.at \in Assessment!Instant /\ collected.amount \in Amount
      /\ run # None
  BY <1>3 DEF EvidenceInv, FinanceOK, Collected, Assessment!FinanceRun, EvidenceConstants
<1> HIDE DEF run
<1>5. financeRun # None => financeRun.captured \in Assessment!Instant
                           /\ financeRun.captured < collected.at
  BY <1>1 DEF EvidenceInv, FinanceOK, Assessment!FinanceRun
<1>6. captures \in [Assessment!Instant -> Amount \cup {None}]
  BY DEF EvidenceInv, FinanceOK
<1>7. ASSUME NEW t, Settled(t) PROVE Settled(t)' /\ captures'[t] = captures[t]
  <2>1. t \in Assessment!Instant /\ t < collected.at
    BY <1>4, <1>5, <1>7 DEF Settled, Assessment!Instant
  <2>2. Settled(t)'
    BY <1>1, <1>4, <2>1 DEF Settled, Assessment!Instant
  <2>3. captures'[t] = captures[t]
    <3>1. t # collected.at
      BY <1>4, <2>1 DEF Assessment!Instant
    <3>2. CASE run.complete /\ run.reconciled
      BY <1>2, <1>6, <2>1, <3>1, <3>2
    <3>3. CASE ~ (run.complete /\ run.reconciled)
      BY <1>2, <3>3
    <3> QED BY <3>2, <3>3
  <2> QED BY <2>2, <2>3
<1> PICK u : u = run
  OBVIOUS
<1>8. /\ u \in Assessment!FinanceRun /\ u # None /\ u.captured = collected.at
      /\ u.captured \in Assessment!Instant /\ financeRun' = u /\ Settled(u.captured)'
  BY <1>1, <1>4 DEF Settled, Assessment!Instant
<1>9. ASSUME u.complete, u.reconciled PROVE provenRun' = u /\ Proves(u)'
  <2>1. captures'[u.captured] \in Amount /\ provenRun' = u
    BY <1>2, <1>4, <1>6, <1>8, <1>9
  <2> QED BY <1>8, <1>9, <2>1 DEF Proves
<1>10. ASSUME ~ (u.complete /\ u.reconciled), provenRun # None
       PROVE  provenRun' = provenRun /\ Proves(provenRun)'
  <2>1. PICK p : p = provenRun
    OBVIOUS
  <2>2. Proves(p) /\ provenRun' = p
    BY <1>2, <1>10, <2>1 DEF EvidenceInv, FinanceOK
  <2>3. Proves(p)'
    BY <1>7, <2>2 DEF Proves
  <2> QED BY <2>1, <2>2, <2>3
<1>11. captures' \in [Assessment!Instant -> Amount \cup {None}]
  BY <1>2, <1>4, <1>6
<1>12. FinanceOK'
  <2>1. provenRun' # None => Proves(provenRun)'
    <3>1. CASE u.complete /\ u.reconciled
      BY <1>9, <3>1 DEF Proves
    <3>2. CASE ~ (u.complete /\ u.reconciled)
      BY <1>2, <1>10, <3>2
    <3> QED BY <3>1, <3>2
  <2> QED BY <1>1, <1>8, <1>11, <2>1 DEF EvidenceInv, FinanceOK
<1>13. Forward
  <2>1. ASSUME provenRun # None
        PROVE  provenRun' # None /\ provenRun.captured <= provenRun'.captured
    <3>1. Settled(provenRun.captured)
      BY <2>1 DEF EvidenceInv, FinanceOK, Proves
    <3>2. provenRun.captured < collected.at /\ provenRun.captured \in Assessment!Instant
      BY <1>4, <1>5, <3>1 DEF Settled, Assessment!Instant
    <3>3. CASE u.complete /\ u.reconciled
      BY <1>4, <1>8, <1>9, <3>2, <3>3 DEF Assessment!Instant
    <3>4. CASE ~ (u.complete /\ u.reconciled)
      BY <1>10, <2>1, <3>2, <3>4 DEF Assessment!Instant
    <3> QED BY <3>3, <3>4
  <2> QED BY <1>7, <2>1 DEF Forward
<1> QED BY <1>1, <1>12, <1>13, StoredMoves

\* A step of one review.
LEMMA ReviewMoves ==
  ASSUME EvidenceInv, NEW r \in Reviewer, NEW v, review' = [review EXCEPT ![r] = v],
         \/ v = Assessment!Idle
         \/ v.step \in {"load", "decide", "refused"} /\ ReadOK(v),
         UNCHANGED <<clock, collected, financeRun, provenRun, captures>>,
         cases' \in Seq(DecidedCase) /\ \A i \in DOMAIN cases' : CaseOK(cases'[i])
  PROVE  EvidenceInv'
<1>1. FinanceOK' /\ Forward
  BY NothingMoves DEF EvidenceInv, FinanceOK, Proves, Settled
<1>2. ASSUME NEW q \in Reviewer PROVE ReviewOK(q)'
  <2>1. PICK w : w = review'[q]
    OBVIOUS
  <2>2. \/ w = Assessment!Idle
        \/ w.step \in {"load", "decide", "refused"} /\ ReadOK(w)
    BY <2>1 DEF EvidenceInv, ReviewOK
  <2>3. CASE w = Assessment!Idle
    BY <2>1, <2>3 DEF ReviewOK
  <2>4. CASE w.step \in {"load", "decide", "refused"} /\ ReadOK(w)
    <3>1. ReadOK(w)'
      BY <1>1, <2>4, ReadStays
    <3> QED BY <2>1, <2>4, <3>1 DEF ReviewOK
  <2> QED BY <2>2, <2>3, <2>4
<1>3. review' = [q \in Reviewer |-> review'[q]]
  BY DEF EvidenceInv
<1>4. ASSUME NEW i \in DOMAIN cases' PROVE CaseOK(cases[i])'
  <2>1. PICK c : c = cases'[i]
    OBVIOUS
  <2>2. CaseOK(c)'
    BY <1>1, <2>1, CaseStays
  <2> QED BY <2>1, <2>2
<1> QED BY <1>1, <1>2, <1>3, <1>4 DEF EvidenceInv

LEMMA StartReviewStep ==
  ASSUME EvidenceConstants, EvidenceInv, NEW r \in Reviewer, Assessment!StartReview(r)
  PROVE  EvidenceInv'
<1> PICK knew : knew = Assessment!Known
  OBVIOUS
<1> DEFINE v == [step |-> "load", observed |-> clock, known |-> knew,
                 unread |-> Assessment!Statements,
                 facts |-> None, orders |-> None, latest |-> None, proven |-> None,
                 previous |-> None, amount |-> None]
<1>1. /\ review' = [review EXCEPT ![r] = v]
      /\ UNCHANGED <<clock, collected, financeRun, provenRun, captures, cases>>
  BY DEF Assessment!StartReview, Assessment!source
<1>2. \/ knew = None
      \/ knew \in Assessment!Instant /\ provenRun # None /\ knew <= provenRun.captured
  BY DEF Assessment!Known, EvidenceInv, FinanceOK, Proves, Settled, Assessment!Instant
<1>3. v.step = "load" /\ ReadOK(v)
  <2>1. v = [f \in Fields |-> v[f]]
    BY DEF Fields
  <2>2. /\ v.step = "load" /\ v.observed = clock /\ v.known = knew
        /\ "proven" \in v.unread /\ "latest" \in v.unread
    BY DEF Assessment!Statements
  <2> HIDE DEF v
  <2> QED BY <1>2, <2>1, <2>2 DEF ReadOK, EvidenceInv, FinanceOK
<1> HIDE DEF v
<1>4. PICK w : w = v
  OBVIOUS
<1> QED BY <1>1, <1>3, <1>4, ReviewMoves DEF EvidenceInv

\* A statement of a review: what it reads is checked when it is a finance run.
LEMMA ReadStep ==
  ASSUME EvidenceConstants, EvidenceInv, NEW r \in Reviewer,
         NEW field \in {"facts", "orders", "latest", "proven", "previous"}, NEW value,
         Assessment!Read(r, field, value),
         field = "latest" => value = financeRun,
         field = "proven" => value = provenRun
  PROVE  EvidenceInv'
<1> PICK v : v = review[r]
  OBVIOUS
<1>1. review[r].step = "load"
  BY DEF Assessment!Read
<1>2. v.step = "load" /\ ReadOK(v)
  BY <1>1 DEF EvidenceInv, ReviewOK, Assessment!Idle
<1>3. review' = [review EXCEPT ![r][field] = value, ![r].unread = @ \ {field}]
  BY DEF Assessment!Read
<1>4. UNCHANGED <<clock, collected, financeRun, provenRun, captures, cases>>
  BY DEF Assessment!Read, Assessment!source
<1> DEFINE w == [f \in Fields |-> IF f = "unread" THEN v.unread \ {field}
                                  ELSE IF f = field THEN value ELSE v[f]]
<1>5. review' = [review EXCEPT ![r] = w]
  <2> DEFINE one == [v EXCEPT ![field] = value]
             two == [one EXCEPT !.unread = v.unread \ {field}]
  <2>1. v = [f \in Fields |-> v[f]]
    BY <1>2 DEF ReadOK
  <2>2. one.unread = v.unread
    BY <2>1 DEF Fields
  <2>3. two = w
    BY <2>1 DEF Fields
  <2>4. review = [q \in Reviewer |-> review[q]]
    BY DEF EvidenceInv
  <2>5. review' = [[review EXCEPT ![r] = one] EXCEPT ![r].unread = one.unread \ {field}]
    BY <1>3, <2>4
  <2> QED BY <2>2, <2>3, <2>4, <2>5
<1>6. /\ w = [f \in Fields |-> w[f]] /\ w.step = "load" /\ w.observed = v.observed
      /\ w.known = v.known /\ w.unread = v.unread \ {field}
      /\ w.proven = (IF field = "proven" THEN value ELSE v.proven)
      /\ w.latest = (IF field = "latest" THEN value ELSE v.latest)
  BY <1>2 DEF Fields
<1> HIDE DEF w
<1>7. "proven" \notin w.unread =>
        \/ w.proven = None /\ w.known = None
        \/ Proves(w.proven) /\ (w.known # None => w.known <= w.proven.captured)
  <2>1. CASE field = "proven"
    <3>1. w.proven = provenRun /\ w.known = v.known
      BY <1>6, <2>1
    <3>2. \/ v.known = None
          \/ v.known \in Assessment!Instant /\ provenRun # None /\ v.known <= provenRun.captured
      BY <1>2 DEF ReadOK
    <3>3. provenRun # None => Proves(provenRun)
      BY DEF EvidenceInv, FinanceOK
    <3> QED BY <3>1, <3>2, <3>3
  <2>2. CASE field # "proven"
    BY <1>2, <1>6, <2>2 DEF ReadOK
  <2> QED BY <2>1, <2>2
<1>8. "latest" \notin w.unread =>
        w.latest = None \/ (w.latest \in Assessment!FinanceRun /\ Settled(w.latest.captured))
  <2>1. CASE field = "latest"
    <3>1. financeRun = None \/ (financeRun \in Assessment!FinanceRun /\ Settled(financeRun.captured))
      BY DEF EvidenceInv, FinanceOK, Settled, Assessment!FinanceRun, EvidenceConstants,
             Assessment!Instant
    <3> QED BY <1>6, <2>1, <3>1
  <2>2. CASE field # "latest"
    BY <1>2, <1>6, <2>2 DEF ReadOK
  <2> QED BY <2>1, <2>2
<1>9. ReadOK(w)
  BY <1>2, <1>6, <1>7, <1>8 DEF ReadOK
<1> PICK u : u = w
  OBVIOUS
<1>10. review' = [review EXCEPT ![r] = u] /\ u.step = "load" /\ ReadOK(u)
  BY <1>5, <1>6, <1>9
<1> QED BY <1>4, <1>10, ReviewMoves DEF EvidenceInv

LEMMA SummaryStep ==
  ASSUME EvidenceConstants, EvidenceInv, NEW r \in Reviewer, Assessment!ReadSummary(r)
  PROVE  EvidenceInv'
<1> PICK v : v = review[r]
  OBVIOUS
<1>1. review[r].step = "load" /\ review[r].unread = {}
  BY DEF Assessment!ReadSummary
<1>2. v.step = "load" /\ v.unread = {} /\ ReadOK(v)
  BY <1>1 DEF EvidenceInv, ReviewOK, Assessment!Idle
<1> PICK amount : amount = IF Assessment!CaptureAt(v) = None THEN None
                           ELSE captures[Assessment!CaptureAt(v)]
  OBVIOUS
<1>3. /\ review' = [review EXCEPT ![r].amount = amount, ![r].step = "decide"]
      /\ UNCHANGED <<clock, collected, financeRun, provenRun, captures, cases>>
  BY DEF Assessment!ReadSummary, Assessment!source
<1> DEFINE w == [f \in Fields |-> IF f = "step" THEN "decide"
                                  ELSE IF f = "amount" THEN amount ELSE v[f]]
<1>4. v = [f \in Fields |-> v[f]]
  BY <1>2 DEF ReadOK
<1>5. review' = [review EXCEPT ![r] = w]
  <2>1. [v EXCEPT !.amount = amount, !.step = "decide"] = w
    BY <1>4 DEF Fields
  <2>2. review = [q \in Reviewer |-> review[q]]
    BY DEF EvidenceInv
  <2> QED BY <1>3, <2>1, <2>2
<1>6. /\ w = [f \in Fields |-> w[f]] /\ w.step = "decide" /\ w.observed = v.observed
      /\ w.known = v.known /\ w.unread = v.unread /\ w.proven = v.proven
      /\ w.latest = v.latest /\ w.amount = amount
  BY DEF Fields
<1> HIDE DEF w
<1>7. Assessment!CaptureAt(w) = Assessment!CaptureAt(v)
  BY <1>6 DEF Assessment!CaptureAt
<1>8. ReadOK(w)
  BY <1>2, <1>6, <1>7 DEF ReadOK
<1> PICK u : u = w
  OBVIOUS
<1>9. review' = [review EXCEPT ![r] = u] /\ u.step = "decide" /\ ReadOK(u)
  BY <1>5, <1>6, <1>8
<1> QED BY <1>3, <1>9, ReviewMoves DEF EvidenceInv

\* What a review that has read everything finds.
LEMMA DecidesByCapture ==
  ASSUME EvidenceConstants, EvidenceInv, NEW v, v.step = "decide", ReadOK(v),
         NEW c,
         c.observed = v.observed, c.known = v.known, c.at = Assessment!CaptureAt(v),
         c.official = Assessment!OfficialState(v), c.delivery = Assessment!DeliveryState(v),
         c.decision = Assessment!Rule(c.official, c.delivery)
  PROVE  CaseOK(c)
<1> DEFINE e == Assessment!Evidence(v)
           at == Assessment!CaptureAt(v)
           run == Assessment!Selected(v)
<1>1. /\ \/ v.proven = None /\ v.known = None
         \/ Proves(v.proven) /\ (v.known # None => v.known <= v.proven.captured)
      /\ v.latest = None \/ (v.latest \in Assessment!FinanceRun /\ Settled(v.latest.captured))
      /\ v.amount = IF at = None THEN None ELSE captures[at]
      /\ v.observed \in Assessment!Instant
      /\ v.known = None \/ v.known \in Assessment!Instant
  BY DEF ReadOK
<1>2. ASSUME NEW run_, Proves(run_)
      PROVE  run_ # None /\ run_.captured # None /\ run_.captured \in Assessment!Instant
  BY <1>2 DEF Proves, Settled, EvidenceConstants, Assessment!FinanceRun
<1>3. at = None \/ Settled(at)
  BY <1>1, <1>2 DEF Assessment!CaptureAt, Proves
<1>4. /\ e.proven = (v.amount # None)
      /\ e.amount = (IF v.amount = None THEN -1 ELSE v.amount)
      /\ e.age = Assessment!Age(v, run)
      /\ e.complete = (IF run = None THEN "UNKNOWN" ELSE IF run.complete THEN "YES" ELSE "NO")
      /\ e.reconciled = (IF run # None /\ run.reconciled THEN "YES" ELSE "NO")
  BY DEF Assessment!Evidence
<1>5. c.official = Assessment!OnHold(e, RiskLimits)
  BY DEF Assessment!OfficialState
<1>6. CASE c.official = "NOT_EVALUATED"
  <2> SUFFICES ASSUME c.known # None PROVE c.at # None /\ c.at > c.observed
    BY <1>6 DEF CaseOK
  <2>1. Proves(v.proven) /\ at = v.proven.captured /\ run = v.proven /\ at # None
    BY <1>1, <1>2 DEF Assessment!CaptureAt, Assessment!Selected
  <2>2. v.amount \in Amount /\ v.amount # None
    BY <1>1, <2>1 DEF Proves, EvidenceConstants
  <2>3. /\ e.proven /\ e.complete = "YES" /\ e.reconciled = "YES" /\ e.amount >= 0
        /\ e.age = Assessment!Age(v, run)
    <3>1. run # None /\ run.complete /\ run.reconciled
      BY <1>2, <2>1 DEF Proves
    <3>2. e.complete = "YES" /\ e.reconciled = "YES"
      <4> HIDE DEF e, run
      <4> QED BY <1>4, <3>1, Zenon
    <3>3. v.amount \in Nat
      BY <2>2 DEF EvidenceConstants
    <3>4. e.amount >= 0
      <4> HIDE DEF e
      <4> QED BY <1>4, <2>2, <3>3
    <3>5. e.proven /\ e.age = Assessment!Age(v, run)
      <4> HIDE DEF e
      <4> QED BY <1>4, <2>2
    <3> QED BY <3>2, <3>4, <3>5
  <2>4. e.age \in {"UNKNOWN", "STALE", "FRESH"}
    BY <2>3 DEF Assessment!Age
  <2>5. e.age = "UNKNOWN"
    <3> HIDE DEF e
    <3> QED BY <1>5, <1>6, <2>3, <2>4 DEF Assessment!OnHold, Assessment!Condition,
               Assessment!Available, Assessment!Health
  <2>6. at > v.observed
    BY <1>2, <2>1, <2>3, <2>5 DEF Assessment!Age
  <2> QED BY <2>1, <2>6
<1>7. CASE c.official # "NOT_EVALUATED"
  <2>1. e.proven /\ c.official = (IF e.amount >= RiskLimits.stopValue THEN "TRIGGERED" ELSE "CLEAR")
    <3> HIDE DEF e
    <3> QED BY <1>5, <1>7 DEF Assessment!OnHold, Assessment!Condition, Assessment!Available
  <2>2. at # None /\ v.amount # None /\ e.amount = captures[at]
    BY <1>1, <1>4, <2>1
  <2>3. c.known # None => c.at >= c.known
    <3> SUFFICES ASSUME c.known # None PROVE c.at >= c.known
      OBVIOUS
    <3>1. Proves(v.proven) /\ v.known <= v.proven.captured /\ at = v.proven.captured
      BY <1>1, <1>2 DEF Assessment!CaptureAt
    <3> QED BY <1>1, <1>2, <3>1 DEF Assessment!Instant
  <2>4. Settled(c.at)
    BY <1>3, <2>2
  <2>5. IF captures[c.at] >= RiskLimits.stopValue
        THEN c.decision = "PAUSE"
        ELSE c.decision = "PAUSE" => c.delivery = "TRIGGERED"
    <3> HIDE DEF e
    <3> QED BY <2>1, <2>2 DEF Assessment!Rule
  <2> QED BY <1>7, <2>2, <2>3, <2>4, <2>5 DEF CaseOK
<1> QED BY <1>6, <1>7

LEMMA StoreCaseStep ==
  ASSUME EvidenceConstants, EvidenceInv, NEW r \in Reviewer, Assessment!StoreCase(r)
  PROVE  EvidenceInv'
<1> PICK v : v = review[r]
  OBVIOUS
<1> DEFINE c == [observed |-> v.observed, known |-> v.known, at |-> Assessment!CaptureAt(v),
                 official |-> Assessment!OfficialState(v),
                 delivery |-> Assessment!DeliveryState(v),
                 decision |-> Assessment!Rule(Assessment!OfficialState(v),
                                              Assessment!DeliveryState(v))]
<1>1. review[r].step = "decide"
  BY DEF Assessment!StoreCase
<1>2. v.step = "decide" /\ ReadOK(v)
  BY <1>1 DEF EvidenceInv, ReviewOK, Assessment!Idle
<1>3. /\ cases' = Append(cases, c) /\ review' = [review EXCEPT ![r] = Assessment!Idle]
      /\ UNCHANGED <<clock, collected, financeRun, provenRun, captures>>
  BY DEF Assessment!StoreCase, Assessment!source
<1>4. c \in DecidedCase
  <2>1. Assessment!OfficialState(v) \in {"NOT_EVALUATED", "TRIGGERED", "CLEAR"}
    BY DEF Assessment!OfficialState, Assessment!OnHold, Assessment!Condition
  <2>2. Assessment!DeliveryState(v) \in {"NOT_EVALUATED", "TRIGGERED", "CLEAR"}
    BY DEF Assessment!DeliveryState, Assessment!DeliveryRate, Assessment!Condition
  <2>3. \A x, y : Assessment!Rule(x, y) \in {"PAUSE", "INSUFFICIENT_DATA", "CONTINUE"}
    BY DEF Assessment!Rule
  <2>4. v.observed \in Assessment!Instant /\ v.known \in Assessment!Instant \cup {None}
    BY <1>2 DEF ReadOK
  <2>5. Assessment!CaptureAt(v) \in Assessment!Instant \cup {None}
    BY <1>2 DEF ReadOK, Assessment!CaptureAt, Proves, Settled
  <2> QED BY <2>1, <2>2, <2>3, <2>4, <2>5 DEF DecidedCase
<1>5. /\ c.observed = v.observed /\ c.known = v.known /\ c.at = Assessment!CaptureAt(v)
      /\ c.official = Assessment!OfficialState(v) /\ c.delivery = Assessment!DeliveryState(v)
      /\ c.decision = Assessment!Rule(c.official, c.delivery)
  OBVIOUS
<1> HIDE DEF c
<1>6. CaseOK(c)
  BY <1>2, <1>5, DecidesByCapture
<1>7. cases \in Seq(DecidedCase) /\ Len(cases) \in Nat
  BY DEF EvidenceInv
<1>8. /\ cases' \in Seq(DecidedCase)
      /\ DOMAIN cases' = 1 .. Len(cases) + 1 /\ DOMAIN cases = 1 .. Len(cases)
      /\ \A i \in 1 .. Len(cases) : cases'[i] = cases[i]
      /\ cases'[Len(cases) + 1] = c
  BY <1>3, <1>4, <1>7
<1>9. ASSUME NEW i \in DOMAIN cases' PROVE CaseOK(cases'[i])
  <2>1. i \in 1 .. Len(cases) \/ i = Len(cases) + 1
    BY <1>7, <1>8
  <2> QED BY <1>6, <1>8, <2>1 DEF EvidenceInv
<1> QED BY <1>3, <1>8, <1>9, ReviewMoves

LEMMA RefuseStep ==
  ASSUME EvidenceInv, NEW r \in Reviewer, Assessment!Refuse(r)
  PROVE  EvidenceInv'
<1> PICK v : v = review[r]
  OBVIOUS
<1>1. /\ review[r].step = "decide" /\ review' = [review EXCEPT ![r].step = "refused"]
      /\ UNCHANGED <<clock, collected, financeRun, provenRun, captures, cases>>
  BY DEF Assessment!Refuse, Assessment!source
<1>2. ReadOK(v)
  BY <1>1 DEF EvidenceInv, ReviewOK, Assessment!Idle
<1> DEFINE w == [f \in Fields |-> IF f = "step" THEN "refused" ELSE v[f]]
<1>3. v = [f \in Fields |-> v[f]]
  BY <1>2 DEF ReadOK
<1>4. review' = [review EXCEPT ![r] = w]
  <2>1. [v EXCEPT !.step = "refused"] = w
    BY <1>3 DEF Fields
  <2>2. review = [q \in Reviewer |-> review[q]]
    BY DEF EvidenceInv
  <2> QED BY <1>1, <2>1, <2>2
<1>5. /\ w = [f \in Fields |-> w[f]] /\ w.step = "refused" /\ w.observed = v.observed
      /\ w.known = v.known /\ w.unread = v.unread /\ w.proven = v.proven
      /\ w.latest = v.latest
  BY DEF Fields
<1> HIDE DEF w
<1>6. ReadOK(w)
  BY <1>2, <1>5 DEF ReadOK
<1> PICK u : u = w
  OBVIOUS
<1>7. review' = [review EXCEPT ![r] = u] /\ u.step = "refused" /\ ReadOK(u)
  BY <1>4, <1>5, <1>6
<1> QED BY <1>1, <1>7, ReviewMoves DEF EvidenceInv

LEMMA EvidenceNext ==
  ASSUME EvidenceConstants, EvidenceInv, [Assessment!Next]_Assessment!vars
  PROVE  EvidenceInv'
<1>1. CASE UNCHANGED Assessment!vars
  <2>1. UNCHANGED <<clock, collected, financeRun, provenRun, captures, review, cases>>
    BY <1>1 DEF Assessment!vars, Assessment!source
  <2>2. FinanceOK' /\ Forward
    BY <2>1, NothingMoves DEF EvidenceInv, FinanceOK, Proves, Settled
  <2> QED BY <2>1, <2>2, StoredMoves
<1>2. ASSUME NEW r \in Reviewer,
             \/ Assessment!StartReview(r) \/ Assessment!ReadFacts(r) \/ Assessment!ReadOrdersRun(r)
             \/ Assessment!ReadFinanceRun(r) \/ Assessment!ReadProvenRun(r)
             \/ Assessment!ReadPrevious(r) \/ Assessment!ReadSummary(r)
             \/ Assessment!StoreCase(r) \/ Assessment!Refuse(r)
      PROVE  EvidenceInv'
  <2>1. CASE Assessment!ReadFacts(r)
    BY <2>1, ReadStep DEF Assessment!ReadFacts
  <2>2. CASE Assessment!ReadOrdersRun(r)
    BY <2>2, ReadStep DEF Assessment!ReadOrdersRun
  <2>3. CASE Assessment!ReadFinanceRun(r)
    BY <2>3, ReadStep DEF Assessment!ReadFinanceRun
  <2>4. CASE Assessment!ReadProvenRun(r)
    BY <2>4, ReadStep DEF Assessment!ReadProvenRun
  <2>5. CASE Assessment!ReadPrevious(r)
    BY <2>5, ReadStep DEF Assessment!ReadPrevious
  <2> QED BY <1>2, <2>1, <2>2, <2>3, <2>4, <2>5, StartReviewStep, SummaryStep, StoreCaseStep, RefuseStep
<1> QED BY <1>1, <1>2, SyncStep, FinalizeStep DEF Assessment!Next

\* Whatever syncs commit between the statements of a review: its case is decided by the
\* capture the shop knew when the review began, or by a newer one
\* (resolveVerifiedFinanceCaptureAt, evaluateOfficialOnHoldRule).
THEOREM LatestKnownDecided ==
  EvidenceConstants => (Assessment!Spec => []Assessment!LatestKnownDecides)
<1> SUFFICES ASSUME EvidenceConstants
             PROVE  Assessment!Spec => []Assessment!LatestKnownDecides
  OBVIOUS
<1>1. Assessment!Init => EvidenceInv
  BY EvidenceInit
<1>2. EvidenceInv /\ [Assessment!Next]_Assessment!vars => EvidenceInv'
  BY EvidenceNext
<1>3. EvidenceInv => Assessment!LatestKnownDecides
  BY DEF EvidenceInv, CaseOK, Assessment!LatestKnownDecides
<1> QED BY <1>1, <1>2, <1>3, PTL DEF Assessment!Spec

----------------------------------------------------------------------------
(* The adviser (AiCall)                                                   *)

Ai == INSTANCE AiCall

AiConstants == None # "INVALID_RESPONSE"

Code == {"TIMEOUT", "NETWORK_ERROR", "INVALID_RESPONSE", "RATE_LIMITED",
         "MODEL_UNAVAILABLE", "PROVIDER_UNAVAILABLE", "HTTP_ERROR"}

Answered == {"headers", "body", "cancel", "overflow", "decode"}

\* While models are asked, input and task allow it, and every model before this one
\* failed to answer.
AiInv ==
  /\ failures \in Seq(Code) /\ model \in Nat
  /\ step \in {"start", "ask", "done"} \cup Answered
  /\ step = "start" => failures = <<>> /\ model = 1
  /\ step # "done" => result = None
  /\ step \notin {"start", "done"} =>
       /\ Ai!Admissible(input) /\ client.preflight = None
       /\ Len(failures) = model - 1 /\ "INVALID_RESPONSE" \notin Ai!ToSet(failures)
  /\ step \in Answered => Ai!Asked \in client.allowed
  /\ Ai!VerdictIsEarned

LEMMA FailuresAre ==
  ASSUME NEW s \in Seq(Code), NEW c \in Code
  PROVE  /\ Append(s, c) \in Seq(Code) /\ Len(Append(s, c)) = Len(s) + 1
         /\ Ai!ToSet(Append(s, c)) = Ai!ToSet(s) \cup {c}
<1>1. Append(s, c) \in Seq(Code) /\ Len(Append(s, c)) = Len(s) + 1
  OBVIOUS
<1>2. /\ DOMAIN Append(s, c) = 1 .. Len(s) + 1 /\ DOMAIN s = 1 .. Len(s)
      /\ Append(s, c)[Len(s) + 1] = c
      /\ \A i \in 1 .. Len(s) : Append(s, c)[i] = s[i]
  OBVIOUS
<1>3. Len(s) \in Nat
  OBVIOUS
<1>4. ASSUME NEW x PROVE x \in Ai!ToSet(Append(s, c)) <=> x \in Ai!ToSet(s) \cup {c}
  BY <1>2, <1>3 DEF Ai!ToSet
<1> QED BY <1>1, <1>4

LEMMA AiInit == ASSUME Ai!Init PROVE AiInv
<1>1. <<>> \in Seq(Code)
  OBVIOUS
<1> QED BY <1>1 DEF Ai!Init, AiInv, Answered, Ai!VerdictIsEarned

\* A request that fails.
LEMMA FailsStep ==
  ASSUME AiInv, NEW code \in Code, step \in Answered, Ai!Fails(code),
         UNCHANGED <<client, input>>
  PROVE  AiInv'
<1>1. /\ failures' = Append(failures, code)
      /\ failures' \in Seq(Code) /\ Len(failures') = Len(failures) + 1
      /\ Ai!ToSet(failures') = Ai!ToSet(failures) \cup {code}
  BY FailuresAre DEF AiInv, Ai!Fails
<1>2. CASE Ai!CanUseFallback(code) /\ model < Len(client.requested)
  <2>1. model' = model + 1 /\ step' = "ask" /\ UNCHANGED result
    BY <1>2 DEF Ai!Fails
  <2>2. code # "INVALID_RESPONSE"
    BY <1>2 DEF Ai!CanUseFallback
  <2>3. /\ Ai!Admissible(input) /\ client.preflight = None /\ result = None
        /\ Len(failures) = model - 1 /\ "INVALID_RESPONSE" \notin Ai!ToSet(failures)
    BY DEF AiInv, Answered
  <2>4. Ai!Admissible(input)'
    BY <2>3 DEF Ai!Admissible
  <2> QED BY <1>1, <2>1, <2>2, <2>3, <2>4 DEF AiInv, Answered, Ai!VerdictIsEarned
<1>3. CASE ~ (Ai!CanUseFallback(code) /\ model < Len(client.requested))
  <2>1. step' = "done" /\ UNCHANGED model /\ result'.status = "UNAVAILABLE"
    BY <1>3 DEF Ai!Fails, Ai!Return, Ai!Unavailable
  <2> QED BY <1>1, <2>1 DEF AiInv, Answered, Ai!VerdictIsEarned
<1> QED BY <1>2, <1>3

LEMMA HttpFailureIs == ASSUME NEW http PROVE Ai!HttpFailure(http) \in Code
<1>1. CASE http = 429
  BY <1>1 DEF Ai!HttpFailure, Code
<1>2. CASE http # 429 /\ http = 404 /\ client.provider = "9router"
  BY <1>2 DEF Ai!HttpFailure, Code
<1>3. CASE http # 429 /\ ~ (http = 404 /\ client.provider = "9router") /\ http = 500
  BY <1>3 DEF Ai!HttpFailure, Code
<1>4. CASE http # 429 /\ ~ (http = 404 /\ client.provider = "9router") /\ http # 500
  BY <1>4 DEF Ai!HttpFailure, Code
<1> QED BY <1>1, <1>2, <1>3, <1>4

LEMMA StartAsk ==
  ASSUME AiConstants, AiInv, Ai!Start \/ Ai!Ask PROVE AiInv'
<1>1. CASE Ai!Start /\ Ai!Refused # None
  <2>1. step' = "done" /\ result'.status = "UNAVAILABLE" /\ UNCHANGED <<model, failures>>
    BY <1>1 DEF Ai!Start, Ai!Return, Ai!Unavailable
  <2> QED BY <2>1 DEF AiInv, Answered, Ai!VerdictIsEarned
<1>2. CASE Ai!Start /\ Ai!Refused = None
  <2>1. step' = "ask" /\ UNCHANGED <<client, input, model, failures, result>>
    BY <1>2 DEF Ai!Start, Ai!call
  <2>2. client.preflight = None /\ Ai!Admissible(input)
    BY <1>2 DEF Ai!Refused, AiConstants
  <2>3. Ai!Admissible(input)'
    BY <2>1, <2>2 DEF Ai!Admissible
  <2>4. Ai!ToSet(<<>>) = {} /\ Len(<<>>) = 0
    BY DEF Ai!ToSet
  <2>5. failures = <<>> /\ model = 1 /\ result = None
    BY <1>2 DEF Ai!Start, AiInv
  <2> QED BY <2>1, <2>2, <2>3, <2>4, <2>5 DEF AiInv, Answered, Ai!VerdictIsEarned
<1>3. CASE Ai!Ask /\ Ai!Asked \notin client.allowed
  <2>1. step' = "done" /\ result'.status = "UNAVAILABLE" /\ UNCHANGED <<model, failures>>
    BY <1>3 DEF Ai!Ask, Ai!Return, Ai!Unavailable
  <2> QED BY <2>1 DEF AiInv, Answered, Ai!VerdictIsEarned
<1>4. CASE Ai!Ask /\ Ai!Asked \in client.allowed
  <2>1. step' = "headers" /\ UNCHANGED <<client, input, model, failures, result>>
    BY <1>4 DEF Ai!Ask, Ai!call
  <2>2. Ai!Asked' \in client'.allowed
    BY <1>4, <2>1 DEF Ai!Asked
  <2>3. step = "ask" /\ result = None
    BY <1>4 DEF Ai!Ask, AiInv
  <2> QED BY <2>1, <2>2, <2>3 DEF AiInv, Answered, Ai!VerdictIsEarned, Ai!Admissible
<1> QED BY <1>1, <1>2, <1>3, <1>4

LEMMA DecodeStep == ASSUME AiInv, Ai!Decode PROVE AiInv'
<1> PICK b \in Ai!Bodies :
       /\ answer' = b
       /\ IF ~ b.whole \/ b.tainted THEN Ai!Fails("INVALID_RESPONSE")
          ELSE /\ UNCHANGED <<model, failures>>
               /\ Ai!Return(IF Ai!ActualModel(b.name) = None THEN Ai!Unavailable("INVALID_RESPONSE")
                            ELSE [status |-> "AVAILABLE", model |-> Ai!Asked,
                                  actual |-> Ai!ActualModel(b.name)])
  BY DEF Ai!Decode
<1>1. step = "decode" /\ UNCHANGED <<client, input>>
  BY DEF Ai!Decode, Ai!call
<1>2. CASE ~ b.whole \/ b.tainted
  BY <1>1, <1>2, FailsStep DEF Answered, Code
<1>3. CASE b.whole /\ ~ b.tainted /\ Ai!ActualModel(b.name) = None
  <2>1. step' = "done" /\ result'.status = "UNAVAILABLE" /\ UNCHANGED <<model, failures>>
    BY <1>3 DEF Ai!Return, Ai!Unavailable
  <2> QED BY <2>1 DEF AiInv, Answered, Ai!VerdictIsEarned
<1>4. CASE b.whole /\ ~ b.tainted /\ Ai!ActualModel(b.name) # None
  <2>1. /\ step' = "done" /\ UNCHANGED <<model, failures>>
        /\ result'.status = "AVAILABLE" /\ result'.model = Ai!Asked
        /\ result'.actual = Ai!ActualModel(b.name)
    BY <1>4 DEF Ai!Return
  <2>2. Ai!ActualModel(b.name) = b.name
    BY <1>4 DEF Ai!ActualModel
  <2>3. client.provider = "9router" => b.name \in Verified[Ai!Asked]
    BY <1>4 DEF Ai!ActualModel
  <2>4. Ai!Asked' = Ai!Asked
    BY <1>1, <2>1 DEF Ai!Asked
  <2>5. /\ Ai!Admissible(input) /\ client.preflight = None /\ Ai!Asked \in client.allowed
        /\ Len(failures) = model - 1 /\ "INVALID_RESPONSE" \notin Ai!ToSet(failures)
    BY <1>1 DEF AiInv, Answered
  <2>6. Ai!VerdictIsEarned'
    <3>1. Ai!Admissible(input)' /\ client'.preflight = None
      BY <1>1, <2>5 DEF Ai!Admissible
    <3>2. result'.model = Ai!Asked' /\ Ai!Asked' \in client'.allowed
      BY <1>1, <2>1, <2>4, <2>5
    <3>3. answer'.whole /\ ~ answer'.tainted /\ result'.actual = answer'.name
      BY <1>4, <2>1, <2>2
    <3>4. client'.provider = "9router" => answer'.name \in Verified[Ai!Asked']
      BY <1>1, <2>3, <2>4
    <3>5. Len(failures') = model' - 1 /\ "INVALID_RESPONSE" \notin Ai!ToSet(failures')
      BY <2>1, <2>5
    <3> QED BY <3>1, <3>2, <3>3, <3>4, <3>5 DEF Ai!VerdictIsEarned
  <2> QED BY <2>1, <2>6 DEF AiInv, Answered
<1> QED BY <1>2, <1>3, <1>4

\* A step of a request that goes on.
LEMMA GoesOn ==
  ASSUME AiInv, step \in Answered, step' \in Answered,
         UNCHANGED <<client, input, model, failures, result>>
  PROVE  AiInv'
<1>1. Ai!Asked' = Ai!Asked
  BY DEF Ai!Asked
<1>2. result = None
  BY DEF AiInv, Answered
<1> QED BY <1>1, <1>2 DEF AiInv, Answered, Ai!Admissible, Ai!VerdictIsEarned

LEMMA AiNext == ASSUME AiConstants, AiInv, [Ai!Next]_Ai!vars PROVE AiInv'
<1>1. CASE UNCHANGED Ai!vars
  BY <1>1 DEF Ai!vars, AiInv, Ai!Admissible, Ai!VerdictIsEarned, Ai!Asked
<1>2. CASE Ai!Timeout
  BY <1>2, FailsStep DEF Code, Ai!Timeout, Ai!TimesOut, Ai!Waiting, Answered, Ai!call
<1>3. CASE Ai!Tick
  BY <1>3, GoesOn DEF Ai!Tick, Ai!Waiting, Answered, Ai!call
<1>4. ASSUME NEW http \in {200, 404, 429, 403, 500}, Ai!Headers(http) PROVE AiInv'
  BY <1>4, GoesOn DEF Ai!Headers, Answered, Ai!call
<1>5. CASE Ai!Cancelled
  BY <1>5, FailsStep, HttpFailureIs DEF Ai!Cancelled, Answered, Ai!call
<1>6. CASE Ai!Piece
  BY <1>6, GoesOn DEF Ai!Piece, Answered, Ai!call
<1>7. CASE Ai!TooLarge
  BY <1>7, FailsStep DEF Code, Ai!TooLarge, Answered, Ai!call
<1>8. CASE Ai!EndOfBody
  BY <1>8, GoesOn DEF Ai!EndOfBody, Answered, Ai!call
<1>9. CASE Ai!Breaks
  BY <1>9, FailsStep DEF Code, Ai!Breaks, Answered, Ai!call
<1> QED BY <1>1, <1>2, <1>3, <1>4, <1>5, <1>6, <1>7, <1>8, <1>9, StartAsk, DecodeStep
        DEF Ai!Next, Ai!Own, Ai!Provider

\* A verdict is never made up: a recommendation is decoded from the answer of an allowed
\* model asked after every earlier one failed without answering badly, for a task that
\* may be sent (generateStructuredRecommendation).
THEOREM VerdictIsAnswered == AiConstants => (Ai!Spec => []Ai!VerdictIsEarned)
<1> SUFFICES ASSUME AiConstants PROVE Ai!Spec => []Ai!VerdictIsEarned
  OBVIOUS
<1>1. Ai!Init => AiInv
  BY AiInit
<1>2. AiInv /\ [Ai!Next]_Ai!vars => AiInv'
  BY AiNext
<1>3. AiInv => Ai!VerdictIsEarned
  BY DEF AiInv
<1> QED BY <1>1, <1>2, <1>3, PTL DEF Ai!Spec

----------------------------------------------------------------------------
(* Profiles and their shops (ProfileVerification)                         *)

Verification == INSTANCE ProfileVerification

ProfileRow == [state : Failure \cup {"UNVERIFIED", "READY", "SHOP_IDENTITY_CHANGED"},
               verified : TikTok \cup {None}, active : Profile \cup {None}]
ShopRow == [id : {"PROFILE", "COTIK"}, tiktok : TikTok \cup {None}]
Persisted == [verified : TikTok \cup {None}, active : Profile \cup {None}]
ShopFound == [number : Profile, tiktok : TikTok \cup {None}]

\* What a verification knows, step by step.
Creating == [step : {"create"}, profile : Profile, persisted : {None}]
Identifying == [step : {"identify"}, profile : Profile, persisted : Persisted]
LookingUp ==
  [step : {"lookup"}, profile : Profile, persisted : Persisted, identity : TikTok,
   todo : SUBSET {"linked", "owner"}, linked : ShopFound \cup {None},
   owner : ShopFound \cup {None}]
Rejecting == [step : {"reject"}, profile : Profile,
              state : Failure \cup {"SHOP_IDENTITY_CHANGED"}]
Storing == [step : {"shop"}, profile : Profile, identity : TikTok, insert : BOOLEAN]
Readying == [step : {"ready"}, profile : Profile, identity : TikTok]
Linking == [step : {"link", "write"}, profile : Profile]

\* None is no value, and a failure to see a shop is none of the states a verification
\* ends in by itself.
ProfileConstants ==
  /\ None \notin Profile \cup TikTok \cup ProfileRow \cup ShopRow \cup ShopFound
  /\ "READY" \notin Failure

RowsOK ==
  /\ profiles \in [Profile -> ProfileRow \cup {None}]
  /\ shops \in [Profile -> ShopRow \cup {None}]

Shows(p, id) == shops[p] # None /\ shops[p].tiktok = id

\* What was seen of a shop's identity still stands: an identity once stored is
\* never replaced, and the one a verification is about to store is new to a shop
\* without a row.
Stands(c) ==
  \/ c = Verification!Idle
  \/ c \in Creating
  \/ c \in Identifying /\ profiles[c.profile] # None
  \/ /\ c \in LookingUp /\ profiles[c.profile] # None
     /\ c.linked # None /\ c.linked.tiktok # None => Shows(c.profile, c.linked.tiktok)
  \/ c \in Rejecting /\ profiles[c.profile] # None
  \/ /\ c \in Storing /\ profiles[c.profile] # None
     /\ c.insert \/ Shows(c.profile, c.identity)
  \/ c \in Readying /\ profiles[c.profile] # None /\ Shows(c.profile, c.identity)
  \/ c \in Linking /\ profiles[c.profile] # None

\* A profile that is READY has the identity of the shop of its number, a linked one
\* is READY and linked to that shop, and no two shops have one identity.
LinkHolds(p) ==
  profiles[p] # None =>
    /\ profiles[p].state = "READY" =>
         profiles[p].verified \in TikTok /\ Shows(p, profiles[p].verified)
    /\ profiles[p].active # None => profiles[p].active = p /\ profiles[p].state = "READY"

OwnIdentity ==
  \A p, q \in Profile : \A id \in TikTok : Shows(p, id) /\ Shows(q, id) => p = q

ProfileInv ==
  /\ RowsOK
  /\ pc \in [Verifier -> {Verification!Idle} \cup Creating \cup Identifying \cup LookingUp
                        \cup Rejecting \cup Storing \cup Readying \cup Linking]
  /\ \A v \in Verifier : Stands(pc[v])
  /\ \A p \in Profile : LinkHolds(p)
  /\ OwnIdentity

----------------------------------------------------------------------------

LEMMA StandsKept ==
  ASSUME NEW c, Stands(c),
         \A p \in Profile : profiles[p] # None => profiles'[p] # None,
         \A p \in Profile, id \in TikTok : Shows(p, id) => Shows(p, id)'
  PROVE  Stands(c)'
<1>1. CASE c = Verification!Idle
  BY <1>1 DEF Stands
<1>2. CASE c \in Creating
  BY <1>2 DEF Stands
<1>3. CASE c \in Identifying /\ profiles[c.profile] # None
  BY <1>3 DEF Stands, Identifying
<1>4. CASE /\ c \in LookingUp /\ profiles[c.profile] # None
           /\ c.linked # None /\ c.linked.tiktok # None => Shows(c.profile, c.linked.tiktok)
  <2>1. c.profile \in Profile /\ (c.linked # None /\ c.linked.tiktok # None => c.linked.tiktok \in TikTok)
    BY <1>4 DEF LookingUp, ShopFound
  <2> QED BY <1>4, <2>1 DEF Stands
<1>5. CASE c \in Rejecting /\ profiles[c.profile] # None
  BY <1>5 DEF Stands, Rejecting
<1>6. CASE /\ c \in Storing /\ profiles[c.profile] # None
           /\ c.insert \/ Shows(c.profile, c.identity)
  <2>1. c.profile \in Profile /\ c.identity \in TikTok
    BY <1>6 DEF Storing
  <2> QED BY <1>6, <2>1 DEF Stands
<1>7. CASE c \in Readying /\ profiles[c.profile] # None /\ Shows(c.profile, c.identity)
  <2>1. c.profile \in Profile /\ c.identity \in TikTok
    BY <1>7 DEF Readying
  <2> QED BY <1>7, <2>1 DEF Stands
<1>8. CASE c \in Linking /\ profiles[c.profile] # None
  BY <1>8 DEF Stands, Linking
<1> QED BY <1>1, <1>2, <1>3, <1>4, <1>5, <1>6, <1>7, <1>8 DEF Stands

\* A step of one verification that leaves the rows alone.
LEMMA Goes ==
  ASSUME ProfileInv, NEW v \in Verifier, NEW c, pc' = [pc EXCEPT ![v] = c],
         c \in {Verification!Idle} \cup Creating \cup Identifying \cup LookingUp
               \cup Rejecting \cup Storing \cup Readying \cup Linking,
         RowsOK', \A p \in Profile : LinkHolds(p)', OwnIdentity', Stands(c)',
         \A p \in Profile : profiles[p] # None => profiles'[p] # None,
         \A p \in Profile, id \in TikTok : Shows(p, id) => Shows(p, id)'
  PROVE  ProfileInv'
<1>1. ASSUME NEW w \in Verifier PROVE Stands(pc[w])
  BY DEF ProfileInv
<1>2. ASSUME NEW w \in Verifier PROVE Stands(pc[w])'
  <2>1. CASE w = v
    <3>1. pc'[w] = c
      BY <2>1 DEF ProfileInv
    <3> QED BY <3>1 DEF Stands
  <2>2. CASE w # v
    <3> PICK d : d = pc[w]
      OBVIOUS
    <3>0. Stands(d)
      BY <1>1
    <3>1. pc'[w] = d
      BY <2>2 DEF ProfileInv
    <3>2. Stands(d)'
      BY <3>0, StandsKept
    <3> QED BY <3>1, <3>2 DEF Stands
  <2> QED BY <2>1, <2>2
<1>3. pc' \in [Verifier -> {Verification!Idle} \cup Creating \cup Identifying \cup LookingUp
                        \cup Rejecting \cup Storing \cup Readying \cup Linking]
  BY DEF ProfileInv
<1> QED BY <1>2, <1>3 DEF ProfileInv

\* What leaves the rows as they are.
LEMMA OnlyGoes ==
  ASSUME ProfileInv, NEW v \in Verifier, NEW c, Verification!Goto(v, c),
         c \in {Verification!Idle} \cup Creating \cup Identifying \cup LookingUp
               \cup Rejecting \cup Storing \cup Readying \cup Linking,
         Stands(c), UNCHANGED <<profiles, shops>>
  PROVE  ProfileInv'
<1>1. Stands(c)'
  BY StandsKept DEF Shows
<1>2. RowsOK' /\ (\A p \in Profile : LinkHolds(p)') /\ OwnIdentity'
  BY DEF ProfileInv, RowsOK, LinkHolds, OwnIdentity, Shows
<1>3. \A p \in Profile, id \in TikTok : Shows(p, id) => Shows(p, id)'
  BY DEF Shows
<1> QED BY <1>1, <1>2, <1>3, Goes DEF Verification!Goto

LEMMA ProfileInit ==
  ASSUME ProfileConstants, Verification!Init PROVE ProfileInv
<1>1. RowsOK
  BY DEF Verification!Init, RowsOK
<1>2. \A p \in Profile : profiles[p] = None /\ shops[p] = None
  BY DEF Verification!Init
<1>3. \A v \in Verifier : pc[v] = Verification!Idle
  BY DEF Verification!Init
<1> QED BY <1>1, <1>2, <1>3 DEF Verification!Init, ProfileInv, Stands, LinkHolds, OwnIdentity, Shows

LEMMA AbandonStep ==
  ASSUME ProfileInv, NEW v \in Verifier, Verification!Abandon(v) PROVE ProfileInv'
BY OnlyGoes DEF Verification!Abandon, Stands

LEMMA StartStep ==
  ASSUME ProfileConstants, ProfileInv, NEW v \in Verifier, NEW p \in Profile,
         Verification!Start(v, p)
  PROVE  ProfileInv'
<1>1. CASE profiles[p] = None
  <2> DEFINE c == [step |-> "create", profile |-> p, persisted |-> None]
  <2>1. c \in Creating
    BY DEF Creating
  <2>2. Verification!Goto(v, c)
    BY <1>1 DEF Verification!Start, Verification!Goto
  <2> HIDE DEF c
  <2>3. PICK d : d = c
    OBVIOUS
  <2> QED BY <2>1, <2>2, <2>3, OnlyGoes DEF Verification!Start, Stands
<1>2. CASE profiles[p] # None
  <2>0. profiles[p] \in ProfileRow
    BY <1>2 DEF ProfileInv, RowsOK
  <2>1. Verification!Persisted(p) \in Persisted
    BY <2>0 DEF Verification!Persisted, Persisted, ProfileRow
  <2>2. PICK c : c = [step |-> "identify", profile |-> p, persisted |-> Verification!Persisted(p)]
    OBVIOUS
  <2>3. c \in Identifying /\ c.profile = p
    BY <2>1, <2>2 DEF Identifying
  <2>4. Verification!Goto(v, c)
    BY <1>2, <2>2 DEF Verification!Start, Verification!Goto
  <2> QED BY <1>2, <2>3, <2>4, OnlyGoes DEF Verification!Start, Stands
<1> QED BY <1>1, <1>2

LEMMA InsertStep ==
  ASSUME ProfileConstants, ProfileInv, NEW v \in Verifier,
         Verification!createAdsPowerProfile(v)
  PROVE  ProfileInv'
<1> PICK p : p = pc[v].profile
  OBVIOUS
<1>1. pc[v] \in Creating
  BY DEF ProfileInv, Verification!createAdsPowerProfile, Verification!Idle, Creating, Identifying,
         LookingUp, Rejecting, Storing, Readying, Linking
<1>2. p \in Profile
  BY <1>1 DEF Creating
<1>3. CASE profiles[p] = None
  <2>0. PICK c : c = [step |-> "identify", profile |-> p,
                      persisted |-> [verified |-> None, active |-> None]]
    OBVIOUS
  <2>1. c \in Identifying /\ c.profile = p
    BY <1>2, <2>0 DEF Identifying, Persisted
  <2>2. Verification!Goto(v, c)
    BY <1>3, <2>0 DEF Verification!createAdsPowerProfile
  <2>3. /\ profiles' = [profiles EXCEPT ![p] = Verification!Fresh]
        /\ UNCHANGED shops
    BY <1>3 DEF Verification!createAdsPowerProfile
  <2>4. Verification!Fresh \in ProfileRow
    BY DEF Verification!Fresh, ProfileRow
  <2>5. RowsOK'
    BY <2>3, <2>4 DEF ProfileInv, RowsOK
  <2>6. /\ profiles'[p] = Verification!Fresh
        /\ \A q \in Profile : q # p => profiles'[q] = profiles[q]
    BY <1>2, <2>3 DEF ProfileInv, RowsOK
  <2>7. profiles'[p] # None
    BY <2>4, <2>6 DEF ProfileConstants
  <2>8. \A q \in Profile : LinkHolds(q)'
    BY <2>3, <2>6 DEF ProfileInv, LinkHolds, Shows, Verification!Fresh
  <2>9. OwnIdentity'
    BY <2>3 DEF ProfileInv, OwnIdentity, Shows
  <2>10. Stands(c)'
    BY <2>1, <2>7 DEF Stands
  <2> QED BY <2>1, <2>2, <2>3, <2>5, <2>6, <2>7, <2>8, <2>9, <2>10, Goes
          DEF Verification!Goto, Shows
<1>4. CASE profiles[p] # None
  <2>1. Verification!Goto(v, Verification!Idle) /\ UNCHANGED <<profiles, shops>>
    BY <1>4 DEF Verification!createAdsPowerProfile
  <2> QED BY <2>1, OnlyGoes DEF Stands
<1> QED BY <1>3, <1>4

LEMMA IdentifyStep ==
  ASSUME ProfileInv, NEW v \in Verifier, Verification!Identify(v) PROVE ProfileInv'
<1>1. pc[v] \in Identifying
  BY DEF ProfileInv, Verification!Identify, Verification!Idle, Creating, Identifying,
         LookingUp, Rejecting, Storing, Readying, Linking
<1>2. pc[v].profile \in Profile /\ pc[v].persisted \in Persisted
  BY <1>1 DEF Identifying
<1>3. profiles[pc[v].profile] # None
  <2>1. Stands(pc[v])
    BY DEF ProfileInv
  <2> QED BY <2>1, <1>1 DEF Stands, Verification!Idle, Creating, Identifying,
         LookingUp, Rejecting, Storing, Readying, Linking
<1>4. ASSUME NEW id \in TikTok,
             Verification!Goto(v, [step |-> "lookup", profile |-> pc[v].profile,
                      persisted |-> pc[v].persisted, identity |-> id,
                      todo |-> {"linked", "owner"}, linked |-> None, owner |-> None])
      PROVE  ProfileInv'
  <2>1. PICK c : c = [step |-> "lookup", profile |-> pc[v].profile,
                      persisted |-> pc[v].persisted, identity |-> id,
                      todo |-> {"linked", "owner"}, linked |-> None, owner |-> None]
    OBVIOUS
  <2>2. c \in LookingUp /\ c.profile = pc[v].profile /\ c.linked = None
    BY <1>2, <2>1 DEF LookingUp
  <2> QED BY <1>3, <1>4, <2>1, <2>2, OnlyGoes DEF Verification!Identify, Stands
<1>5. ASSUME NEW failure \in Failure,
             Verification!Goto(v, [step |-> "reject", profile |-> pc[v].profile,
                                   state |-> failure])
      PROVE  ProfileInv'
  <2>1. PICK c : c = [step |-> "reject", profile |-> pc[v].profile, state |-> failure]
    OBVIOUS
  <2>2. c \in Rejecting /\ c.profile = pc[v].profile
    BY <1>2, <2>1 DEF Rejecting
  <2> QED BY <1>3, <1>5, <2>1, <2>2, OnlyGoes DEF Verification!Identify, Stands
<1> QED BY <1>4, <1>5 DEF Verification!Identify

\* What a verification in its lookup knows.
LEMMA LookingUpFacts ==
  ASSUME ProfileInv, NEW v \in Verifier, pc[v].step = "lookup"
  PROVE  /\ pc[v] \in LookingUp /\ profiles[pc[v].profile] # None
         /\ pc[v].linked # None /\ pc[v].linked.tiktok # None
              => Shows(pc[v].profile, pc[v].linked.tiktok)
<1>1. Stands(pc[v])
  BY DEF ProfileInv
<1> QED BY <1>1 DEF Stands, Verification!Idle, Creating, Identifying,
         LookingUp, Rejecting, Storing, Readying, Linking

LEMMA LookupStep ==
  ASSUME ProfileConstants, ProfileInv, NEW v \in Verifier, NEW query \in {"linked", "owner"},
         Verification!Lookup(v, query)
  PROVE  ProfileInv'
<1>1. /\ pc[v] \in LookingUp /\ profiles[pc[v].profile] # None
      /\ pc[v].linked # None /\ pc[v].linked.tiktok # None
              => Shows(pc[v].profile, pc[v].linked.tiktok)
  BY LookingUpFacts DEF Verification!Lookup
<1>2. pc[v].profile \in Profile
  BY <1>1 DEF LookingUp
<1>3. ASSUME NEW p \in Profile, shops[p] # None
      PROVE  Verification!Found(p) \in ShopFound /\ Verification!Found(p).tiktok = shops[p].tiktok
  BY <1>3 DEF Verification!Found, ShopFound, ProfileInv, RowsOK, ShopRow
<1>4. CASE query = "linked"
  <2> PICK found : found = Verification!findShopByProfileId(pc[v].profile)
    OBVIOUS
  <2>1. /\ found \in ShopFound \cup {None}
        /\ found # None => Shows(pc[v].profile, found.tiktok)
    BY <1>2, <1>3 DEF Verification!findShopByProfileId, Shows
  <2>2. PICK c : c = [pc[v] EXCEPT !.todo = @ \ {query}, !.linked = found]
    OBVIOUS
  <2>3. c \in LookingUp /\ c.profile = pc[v].profile /\ c.linked = found
    BY <1>1, <2>1, <2>2 DEF LookingUp
  <2>4. Verification!Goto(v, c)
    BY <1>4, <2>2 DEF Verification!Lookup
  <2> QED BY <1>1, <2>1, <2>3, <2>4, OnlyGoes DEF Verification!Lookup, Stands
<1>5. CASE query = "owner"
  <2> PICK found : found = Verification!findShopByTikTokShopId(pc[v].identity)
    OBVIOUS
  <2> DEFINE owners == {p \in Profile : shops[p] # None /\ shops[p].tiktok = pc[v].identity}
  <2>1. found \in ShopFound \cup {None}
    <3>1. CASE owners = {}
      BY <3>1 DEF Verification!findShopByTikTokShopId
    <3>2. CASE owners # {}
      <4>1. (CHOOSE p \in owners : TRUE) \in owners
        BY <3>2
      <4>2. found = Verification!Found(CHOOSE p \in owners : TRUE)
        BY <3>2 DEF Verification!findShopByTikTokShopId
      <4> QED BY <4>1, <4>2, <1>3
    <3> QED BY <3>1, <3>2
  <2>2. PICK c : c = [pc[v] EXCEPT !.todo = @ \ {query}, !.owner = found]
    OBVIOUS
  <2>3. c \in LookingUp /\ c.profile = pc[v].profile /\ c.linked = pc[v].linked
    BY <1>1, <2>1, <2>2 DEF LookingUp
  <2>4. Verification!Goto(v, c)
    BY <1>5, <2>2 DEF Verification!Lookup
  <2> QED BY <1>1, <2>3, <2>4, OnlyGoes DEF Verification!Lookup, Stands
<1> QED BY <1>4, <1>5

LEMMA CompareStep ==
  ASSUME ProfileConstants, ProfileInv, NEW v \in Verifier, Verification!Compare(v)
  PROVE  ProfileInv'
<1>1. /\ pc[v] \in LookingUp /\ profiles[pc[v].profile] # None
      /\ pc[v].linked # None /\ pc[v].linked.tiktok # None
              => Shows(pc[v].profile, pc[v].linked.tiktok)
  BY LookingUpFacts DEF Verification!Compare
<1>2. pc[v].profile \in Profile /\ pc[v].identity \in TikTok
  BY <1>1 DEF LookingUp
<1>3. CASE Verification!IdentityChanged(v)
  <2>1. PICK c : c = [step |-> "reject", profile |-> pc[v].profile,
                      state |-> "SHOP_IDENTITY_CHANGED"]
    OBVIOUS
  <2>2. c \in Rejecting /\ c.profile = pc[v].profile
    BY <1>2, <2>1 DEF Rejecting
  <2>3. Verification!Goto(v, c)
    BY <1>3, <2>1 DEF Verification!Compare
  <2> QED BY <1>1, <2>2, <2>3, OnlyGoes DEF Verification!Compare, Stands
<1>4. CASE ~ Verification!IdentityChanged(v)
  <2>1. PICK c : c = [step |-> "shop", profile |-> pc[v].profile,
                      identity |-> pc[v].identity, insert |-> pc[v].linked = None]
    OBVIOUS
  <2>2. /\ c \in Storing /\ c.profile = pc[v].profile /\ c.identity = pc[v].identity
        /\ c.insert <=> pc[v].linked = None
    BY <1>2, <2>1 DEF Storing
  <2>3. Verification!Goto(v, c)
    BY <1>4, <2>1 DEF Verification!Compare
  <2>4. pc[v].linked # None => pc[v].linked.tiktok = pc[v].identity
    BY <1>4 DEF Verification!IdentityChanged, Verification!ShopChanged
  <2>5. c.insert \/ Shows(c.profile, c.identity)
    BY <1>1, <1>2, <2>2, <2>4 DEF ProfileConstants
  <2> QED BY <1>1, <2>2, <2>3, <2>5, OnlyGoes DEF Verification!Compare, Stands
<1> QED BY <1>3, <1>4

LEMMA RejectStep ==
  ASSUME ProfileConstants, ProfileInv, NEW v \in Verifier, Verification!Reject(v)
  PROVE  ProfileInv'
<1> PICK p, s : p = pc[v].profile /\ s = pc[v].state
  OBVIOUS
<1>1. pc[v] \in Rejecting
  BY DEF ProfileInv, Verification!Reject, Verification!Idle, Creating, Identifying,
         LookingUp, Rejecting, Storing, Readying, Linking
<1>2. p \in Profile /\ s \in Failure \cup {"SHOP_IDENTITY_CHANGED"}
  BY <1>1 DEF Rejecting
<1>3. profiles' = [profiles EXCEPT ![p] = Verification!Rejected(s)] /\ UNCHANGED shops
  BY DEF Verification!Reject
<1>4. Verification!Rejected(s) \in ProfileRow
  BY <1>2 DEF Verification!Rejected, ProfileRow
<1>5. /\ profiles'[p] = Verification!Rejected(s)
      /\ \A q \in Profile : q # p => profiles'[q] = profiles[q]
  BY <1>2, <1>3 DEF ProfileInv, RowsOK
<1>6. profiles'[p] # None
  BY <1>4, <1>5 DEF ProfileConstants
<1>7. RowsOK'
  BY <1>3, <1>4 DEF ProfileInv, RowsOK
<1>8. s # "READY"
  BY <1>2 DEF ProfileConstants
<1>9. \A q \in Profile : LinkHolds(q)'
  BY <1>3, <1>5, <1>8 DEF ProfileInv, LinkHolds, Shows, Verification!Rejected
<1>10. OwnIdentity'
  BY <1>3 DEF ProfileInv, OwnIdentity, Shows
<1>11. PICK c : c = Verification!Idle
  OBVIOUS
<1> QED BY <1>3, <1>5, <1>6, <1>7, <1>9, <1>10, <1>11, Goes
        DEF Verification!Reject, Verification!Goto, Stands, Shows

LEMMA StoreStep ==
  ASSUME ProfileConstants, ProfileInv, NEW v \in Verifier, Verification!StoreShop(v)
  PROVE  ProfileInv'
<1> PICK p, id : p = pc[v].profile /\ id = pc[v].identity
  OBVIOUS
<1>1. /\ pc[v] \in Storing /\ profiles[p] # None
      /\ pc[v].insert \/ Shows(p, id)
  <2>1. Stands(pc[v])
    BY DEF ProfileInv
  <2> QED BY <2>1 DEF Stands, Verification!StoreShop, Verification!Idle, Creating, Identifying,
         LookingUp, Rejecting, Storing, Readying, Linking
<1>2. p \in Profile /\ id \in TikTok
  BY <1>1 DEF Storing
<1>3. CASE ~ Verification!MayStore(p, id, pc[v].insert)
  <2>1. Verification!Goto(v, Verification!Idle) /\ UNCHANGED <<profiles, shops>>
    BY <1>3 DEF Verification!StoreShop
  <2> QED BY <2>1, OnlyGoes DEF Stands
<1>4. CASE Verification!MayStore(p, id, pc[v].insert)
  <2> PICK stored : stored = [id |-> "PROFILE", tiktok |-> id]
    OBVIOUS
  <2>1. /\ shops' = [shops EXCEPT ![p] = stored] /\ UNCHANGED profiles
    BY <1>4 DEF Verification!StoreShop
  <2>2. stored \in ShopRow /\ stored.tiktok = id
    BY <1>2 DEF ShopRow
  <2>3. stored # None
    BY <2>2 DEF ProfileConstants
  <2>4. shops'[p] = stored /\ \A q \in Profile : q # p => shops'[q] = shops[q]
    BY <1>2, <2>1 DEF ProfileInv, RowsOK
  <2>5. shops[p] = None \/ Shows(p, id)
    BY <1>1, <1>4 DEF Verification!MayStore
  <2>6. \A q \in Profile, x \in TikTok : Shows(q, x) => Shows(q, x)'
    BY <2>2, <2>3, <2>4, <2>5 DEF Shows
  <2>7. Shows(p, id)'
    BY <2>2, <2>3, <2>4 DEF Shows
  <2>8. RowsOK'
    BY <2>1, <2>2 DEF ProfileInv, RowsOK
  <2>9. \A q \in Profile : LinkHolds(q)'
    <3> TAKE q \in Profile
    <3>1. LinkHolds(q) /\ profiles'[q] = profiles[q]
      BY <2>1 DEF ProfileInv
    <3> QED BY <3>1, <2>6 DEF LinkHolds
  <2>10. OwnIdentity'
    <3> SUFFICES ASSUME NEW q \in Profile, NEW x \in TikTok, Shows(p, x)', Shows(q, x)', q # p
                 PROVE  FALSE
      <4>1. \A q, r \in Profile : q # p /\ r # p => \A x \in TikTok :
              Shows(q, x)' /\ Shows(r, x)' => q = r
        BY <2>4 DEF Shows, ProfileInv, OwnIdentity
      <4> QED BY <4>1 DEF OwnIdentity
    <3>1. x = id
      BY <2>2, <2>4 DEF Shows
    <3>2. shops[q] # None /\ shops[q].tiktok = id
      BY <2>4, <3>1 DEF Shows
    <3> QED BY <1>4, <3>2 DEF Verification!MayStore
  <2>11. PICK c : c = [step |-> "ready", profile |-> p, identity |-> id]
    OBVIOUS
  <2>12. c \in Readying /\ c.profile = p /\ c.identity = id
    BY <1>2, <2>11 DEF Readying
  <2>13. pc' = [pc EXCEPT ![v] = c]
    BY <1>4, <2>11 DEF Verification!StoreShop, Verification!Goto
  <2>14. Stands(c)'
    BY <1>1, <2>1, <2>7, <2>12 DEF Stands
  <2> QED BY <2>1, <2>6, <2>8, <2>9, <2>10, <2>12, <2>13, <2>14, Goes
<1> QED BY <1>3, <1>4

LEMMA ReadyStep ==
  ASSUME ProfileConstants, ProfileInv, NEW v \in Verifier, Verification!SetReady(v)
  PROVE  ProfileInv'
<1> PICK p, id : p = pc[v].profile /\ id = pc[v].identity
  OBVIOUS
<1>1. pc[v] \in Readying /\ profiles[p] # None /\ Shows(p, id)
  <2>1. Stands(pc[v])
    BY DEF ProfileInv
  <2> QED BY <2>1 DEF Stands, Verification!SetReady, Verification!Idle, Creating, Identifying,
         LookingUp, Rejecting, Storing, Readying, Linking
<1>2. p \in Profile /\ id \in TikTok
  BY <1>1 DEF Readying
<1>3. profiles[p] \in ProfileRow
  BY <1>1, <1>2 DEF ProfileInv, RowsOK
<1> PICK stored : stored = [profiles[p] EXCEPT !.state = "READY", !.verified = id]
  OBVIOUS
<1>4. /\ stored \in ProfileRow /\ stored.state = "READY" /\ stored.verified = id
      /\ stored.active = profiles[p].active
  BY <1>2, <1>3 DEF ProfileRow
<1>5. UNCHANGED shops /\ profiles' = [profiles EXCEPT ![p].state = "READY", ![p].verified = id]
  BY DEF Verification!SetReady
<1>6. profiles'[p] = stored /\ \A q \in Profile : q # p => profiles'[q] = profiles[q]
  BY <1>2, <1>5 DEF ProfileInv, RowsOK
<1>7. stored # None
  BY <1>4 DEF ProfileConstants
<1>8. RowsOK'
  <2>1. profiles' = [profiles EXCEPT ![p] = stored]
    BY <1>5
  <2>2. stored \in ProfileRow
    BY <1>4
  <2>3. profiles' \in [Profile -> ProfileRow \cup {None}]
    BY <2>1, <2>2 DEF ProfileInv, RowsOK
  <2> QED BY <1>5, <2>3 DEF ProfileInv, RowsOK
<1>9. Shows(p, id)' /\ \A q \in Profile, x \in TikTok : Shows(q, x) => Shows(q, x)'
  BY <1>1, <1>5 DEF Shows
<1>10. LinkHolds(p)'
  <2>1. profiles[p].active # None => profiles[p].active = p
    BY <1>1, <1>2 DEF ProfileInv, LinkHolds
  <2> QED BY <1>2, <1>4, <1>6, <1>9, <2>1 DEF LinkHolds
<1>11. ASSUME NEW q \in Profile PROVE LinkHolds(q)'
  <2>1. LinkHolds(q)
    BY DEF ProfileInv
  <2>2. q # p => profiles'[q] = profiles[q]
    BY <1>6
  <2> QED BY <1>5, <1>10, <2>1, <2>2 DEF LinkHolds, Shows
<1>12. OwnIdentity'
  BY <1>5 DEF ProfileInv, OwnIdentity, Shows
<1>13. PICK c : c = [step |-> "link", profile |-> p]
  OBVIOUS
<1>14. c \in Linking /\ c.profile = p
  BY <1>2, <1>13 DEF Linking
<1>15. pc' = [pc EXCEPT ![v] = c]
  BY <1>13 DEF Verification!SetReady, Verification!Goto
<1>16. Stands(c)'
  BY <1>6, <1>7, <1>14 DEF Stands
<1> QED BY <1>6, <1>7, <1>8, <1>9, <1>11, <1>12, <1>14, <1>15, <1>16, Goes

\* A verification about to link.
LEMMA LinkingFacts ==
  ASSUME ProfileInv, NEW v \in Verifier, pc[v].step \in {"link", "write"}
  PROVE  pc[v].profile \in Profile /\ profiles[pc[v].profile] # None
<1>1. Stands(pc[v])
  BY DEF ProfileInv
<1> QED BY <1>1 DEF Stands, Verification!Idle, Creating, Identifying,
         LookingUp, Rejecting, Storing, Readying, Linking

LEMMA CheckStep ==
  ASSUME ProfileInv, NEW v \in Verifier, Verification!CheckLink(v) PROVE ProfileInv'
<1> PICK p : p = pc[v].profile
  OBVIOUS
<1>1. p \in Profile /\ profiles[p] # None
  BY LinkingFacts DEF Verification!CheckLink
<1>2. PICK c : c = [step |-> "write", profile |-> p]
  OBVIOUS
<1>3. c \in Linking /\ c.profile = p
  BY <1>1, <1>2 DEF Linking
<1>4. Stands(c) /\ Stands(Verification!Idle)
  BY <1>1, <1>3 DEF Stands
<1>5. Verification!Goto(v, c) \/ Verification!Goto(v, Verification!Idle)
  BY <1>2 DEF Verification!CheckLink
<1> QED BY <1>3, <1>4, <1>5, OnlyGoes DEF Verification!CheckLink

LEMMA LinkStep ==
  ASSUME ProfileConstants, ProfileInv, NEW v \in Verifier, Verification!Link(v)
  PROVE  ProfileInv'
<1> PICK p : p = pc[v].profile
  OBVIOUS
<1>1. p \in Profile /\ profiles[p] # None
  BY LinkingFacts DEF Verification!Link
<1>2. Verification!Goto(v, Verification!Idle) /\ UNCHANGED shops
  BY DEF Verification!Link
<1>3. CASE profiles[p].state # "READY"
  <2>1. UNCHANGED profiles
    BY <1>3 DEF Verification!Link
  <2> QED BY <1>2, <2>1, OnlyGoes DEF Stands
<1>4. CASE profiles[p].state = "READY"
  <2>0. profiles[p] \in ProfileRow
    BY <1>1 DEF ProfileInv, RowsOK
  <2> PICK stored : stored = [profiles[p] EXCEPT !.active = p]
    OBVIOUS
  <2>1. /\ stored \in ProfileRow /\ stored.active = p /\ stored.state = "READY"
        /\ stored.verified = profiles[p].verified
    BY <1>1, <1>4, <2>0 DEF ProfileRow
  <2>2. profiles' = [profiles EXCEPT ![p].active = p]
    BY <1>4 DEF Verification!Link
  <2>3. profiles'[p] = stored /\ \A q \in Profile : q # p => profiles'[q] = profiles[q]
    BY <1>1, <2>2 DEF ProfileInv, RowsOK
  <2>4. stored # None
    BY <2>1 DEF ProfileConstants
  <2>5. RowsOK'
    BY <1>1, <1>2, <2>1, <2>2, <2>3 DEF ProfileInv, RowsOK
  <2>6. LinkHolds(p)'
    BY <1>1, <1>2, <1>4, <2>1, <2>3 DEF ProfileInv, LinkHolds, Shows
  <2>7. ASSUME NEW q \in Profile PROVE LinkHolds(q)'
    <3>1. LinkHolds(q)
      BY DEF ProfileInv
    <3>2. q # p => profiles'[q] = profiles[q]
      BY <2>3
    <3> QED BY <1>2, <2>6, <3>1, <3>2 DEF LinkHolds, Shows
  <2>8. OwnIdentity'
    BY <1>2 DEF ProfileInv, OwnIdentity, Shows
  <2>9. PICK c : c = Verification!Idle
    OBVIOUS
  <2> QED BY <1>2, <2>3, <2>4, <2>5, <2>7, <2>8, <2>9, Goes DEF Verification!Goto, Stands, Shows
<1> QED BY <1>3, <1>4

LEMMA AddShopStep ==
  ASSUME ProfileConstants, ProfileInv, NEW p \in Profile, NEW id \in {"PROFILE", "COTIK"},
         Verification!AddShop(p, id)
  PROVE  ProfileInv'
<1> PICK stored : stored = [id |-> id, tiktok |-> None]
  OBVIOUS
<1>1. stored \in ShopRow /\ stored.tiktok = None
  BY DEF ShopRow
<1>2. shops' = [shops EXCEPT ![p] = stored] /\ UNCHANGED <<profiles, pc>>
  BY DEF Verification!AddShop
<1>3. shops'[p] = stored /\ \A q \in Profile : q # p => shops'[q] = shops[q]
  BY <1>2 DEF ProfileInv, RowsOK
<1>4. RowsOK'
  BY <1>1, <1>2 DEF ProfileInv, RowsOK
<1>5. \A q \in Profile, x \in TikTok : Shows(q, x) => Shows(q, x)'
  BY <1>3 DEF Verification!AddShop, Shows
<1>6. \A q \in Profile, x \in TikTok : Shows(q, x)' => Shows(q, x)
  BY <1>1, <1>3 DEF Shows, ProfileConstants
<1>7. \A q \in Profile : LinkHolds(q)'
  BY <1>2, <1>5 DEF ProfileInv, LinkHolds
<1>8. OwnIdentity'
  BY <1>6 DEF ProfileInv, OwnIdentity
<1>9. ASSUME NEW v \in Verifier PROVE Stands(pc[v])'
  <2> PICK c : c = pc[v]
    OBVIOUS
  <2>1. Stands(c)
    BY DEF ProfileInv
  <2>2. Stands(c)'
    BY <1>2, <1>5, <2>1, StandsKept
  <2> QED BY <1>2, <2>2
<1> QED BY <1>2, <1>4, <1>7, <1>8, <1>9 DEF ProfileInv

LEMMA ProfileNext ==
  ASSUME ProfileConstants, ProfileInv, [Verification!Next]_Verification!vars
  PROVE  ProfileInv'
<1>1. CASE UNCHANGED Verification!vars
  BY <1>1 DEF Verification!vars, ProfileInv, RowsOK, LinkHolds, OwnIdentity, Stands, Shows
<1>2. ASSUME NEW v \in Verifier, NEW p \in Profile, Verification!Start(v, p) PROVE ProfileInv'
  BY <1>2, StartStep
<1>3. ASSUME NEW v \in Verifier, NEW query \in {"linked", "owner"}, Verification!Lookup(v, query)
      PROVE  ProfileInv'
  BY <1>3, LookupStep
<1>4. ASSUME NEW v \in Verifier,
             \/ Verification!createAdsPowerProfile(v) \/ Verification!Identify(v)
             \/ Verification!Compare(v) \/ Verification!Reject(v) \/ Verification!StoreShop(v)
             \/ Verification!SetReady(v) \/ Verification!CheckLink(v) \/ Verification!Link(v)
             \/ Verification!Abandon(v)
      PROVE  ProfileInv'
  BY <1>4, InsertStep, IdentifyStep, CompareStep, RejectStep, StoreStep, ReadyStep, CheckStep,
     LinkStep, AbandonStep
<1>5. ASSUME NEW p \in Profile, NEW id \in {"PROFILE", "COTIK"}, Verification!AddShop(p, id)
      PROVE  ProfileInv'
  BY <1>5, AddShopStep
<1> QED BY <1>1, <1>2, <1>3, <1>4, <1>5 DEF Verification!Next

\* A linked profile has proved the identity of its shop, and no other shop has it,
\* for any number of verifications, profiles and shops (verifySelectedProfile,
\* linkAdsPowerProfileToShop): what makes it true is that an identity once stored for
\* a shop is never replaced, and that a profile is READY only with that of its shop.
THEOREM LinkIsProven ==
  ProfileConstants => (Verification!Spec => []Verification!LinkProvesIdentity)
<1> SUFFICES ASSUME ProfileConstants PROVE Verification!Spec => []Verification!LinkProvesIdentity
  OBVIOUS
<1>1. Verification!Init => ProfileInv
  BY ProfileInit
<1>2. ProfileInv /\ [Verification!Next]_Verification!vars => ProfileInv'
  BY ProfileNext
<1>3. ProfileInv => Verification!LinkProvesIdentity
  <2> SUFFICES ASSUME ProfileInv, NEW p \in Profile,
                      profiles[p] # None, profiles[p].active # None
               PROVE  /\ shops[profiles[p].active].tiktok = profiles[p].verified
                      /\ Verification!Cardinality({q \in Profile : shops[q] # None
                              /\ shops[q].tiktok = profiles[p].verified}) = 1
    BY DEF Verification!LinkProvesIdentity
  <2>1. /\ profiles[p].active = p /\ profiles[p].verified \in TikTok
        /\ Shows(p, profiles[p].verified)
    BY DEF ProfileInv, LinkHolds
  <2>2. {q \in Profile : shops[q] # None /\ shops[q].tiktok = profiles[p].verified} = {p}
    BY <2>1 DEF ProfileInv, OwnIdentity, Shows
  <2>3. Cardinality({p}) = 1
    BY FS_Singleton
  <2>4. \A S : Verification!Cardinality(S) = Cardinality(S)
    BY DEF Verification!Cardinality, Cardinality
  <2> QED BY <2>1, <2>2, <2>3, <2>4 DEF Shows
<1> QED BY <1>1, <1>2, <1>3, PTL DEF Verification!Spec

----------------------------------------------------------------------------
(* The tracking sheet (TrackingSheet)                                     *)

Tab == INSTANCE TrackingSheet

TabConstants == IsFiniteSet(Row)

Numbers == Tab!Of("tracking")
Reading == [group : Tab!Group, status : Tab!IntentStatus]
Results == UNION {[S -> Tab!Text] : S \in SUBSET Row}
Steps == {"idle", "read", "stage", "cycle", "reconcile", "readback", "write"}

TabTypes ==
  /\ sheet \in [Row -> Cell]
  /\ tracking \in [Tab!Order -> Numbers \cup {None}]
  /\ pc \in [Caller -> Steps]
  /\ view \in [Caller -> [Row -> Cell] \cup {Tab!NoView}]
  /\ todo \in [Caller -> SUBSET Tab!Group]
  /\ cur \in [Caller -> Reading \cup {Tab!NotReading}]
  /\ writes \in [Caller -> Results]
  /\ since \in [Caller -> [Tab!Order -> SUBSET Numbers]]

Same(v, g, numbers) == \E t \in numbers : Tab!NonBlank(v, g, "tracking") = {t}
GroupOf(v, r) == [shop |-> v[r].shop, order |-> v[r].order]

\* The rows a call has reported done.
DoneRows(c) ==
  \A r \in DOMAIN writes[c] : writes[c][r] = "DONE" =>
    view[c][r].order \in Tab!Order /\ Same(view[c], GroupOf(view[c], r), since[c][view[c][r].order])

\* Since it read the sheet a call has seen every number COTIK holds, and the group it
\* reads back has one tracking number.
CallOK(c) ==
  /\ pc[c] \in {"idle", "read"} => DOMAIN writes[c] = {}
  /\ pc[c] \notin {"idle", "read"} =>
       /\ view[c] \in [Row -> Cell]
       /\ \A o \in Tab!Order : tracking[o] # None => tracking[o] \in since[c][o]
  /\ pc[c] = "readback" =>
       /\ cur[c] \in Reading
       /\ cur[c].status \in {"CONFIRMED", "FAILED", "ABORTED"}
       /\ cur[c].status = "CONFIRMED" => Tab!Ready(view[c], cur[c].group)
  /\ DoneRows(c)

TabInv == TabTypes /\ \A c \in Caller : CallOK(c)

LEMMA NoResults == Tab!NoWrites \in Results /\ DOMAIN Tab!NoWrites = {}
<1>1. Tab!NoWrites \in [{} -> Tab!Text] /\ {} \in SUBSET Row
  BY DEF Tab!NoWrites
<1> QED BY <1>1 DEF Results

LEMMA ResultsAre ==
  ASSUME NEW f
  PROVE  f \in Results <=> /\ f \in [DOMAIN f -> Tab!Text] /\ DOMAIN f \subseteq Row
BY DEF Results

LEMMA TabInit == ASSUME Tab!Init PROVE TabInv
<1>1. TabTypes
  BY NoResults DEF Tab!Init, TabTypes, Steps
<1>2. ASSUME NEW c \in Caller PROVE CallOK(c)
  <2>1. writes[c] = Tab!NoWrites /\ pc[c] = "idle"
    BY DEF Tab!Init
  <2> QED BY <2>1, NoResults DEF CallOK, DoneRows
<1> QED BY <1>1, <1>2 DEF TabInv

\* A group all of whose rows have one number, as COTIK holds it, was seen.
LEMMA ReadyIsOne ==
  ASSUME TabConstants, NEW v \in [Row -> Cell], NEW g \in Tab!Group, Tab!Ready(v, g)
  PROVE  /\ Tab!NonBlank(v, g, "tracking") = {Tab!TrackingOf(v, g)}
         /\ Tab!TrackingOf(v, g) # None
<1> DEFINE N == Tab!NonBlank(v, g, "tracking")
           column == [r \in Row |-> v[r].tracking]
<1>1. IsFiniteSet(N)
  <2>1. IsFiniteSet(Row)
    BY DEF TabConstants
  <2>2. IsFiniteSet({v[r].tracking : r \in Row})
    <3> DEFINE S == {v[r].tracking : r \in Row}
    <3>1. column \in Surjection(Row, S)
      BY DEF Surjection
    <3> HIDE DEF column, S
    <3>2. IsFiniteSet(S)
      BY <2>1, <3>1, FS_Surjection
    <3> QED BY <3>2 DEF S
  <2>3. N \subseteq {v[r].tracking : r \in Row}
    BY DEF Tab!NonBlank, Tab!RowsOf, Tab!Dated
  <2> HIDE DEF N
  <2> QED BY <2>2, <2>3, FS_Subset
<1>2. Cardinality(N) = 1
  <2>1. Tab!Cardinality(N) = 1
    BY DEF Tab!Ready
  <2>2. \A S : Tab!Cardinality(S) = Cardinality(S)
    BY DEF Tab!Cardinality, Cardinality
  <2> QED BY <2>1, <2>2
<1>3. PICK t : N = {t}
  <2> HIDE DEF N
  <2> QED BY <1>1, <1>2, FS_Singleton
<1>4. Tab!TrackingOf(v, g) = t
  BY <1>3 DEF Tab!TrackingOf
<1>5. None \notin N
  BY DEF Tab!NonBlank
<1> QED BY <1>3, <1>4, <1>5

\* A step of one call, or of none of its own.
LEMMA OneCall ==
  ASSUME TabInv, NEW c \in Caller, TabTypes', CallOK(c)', UNCHANGED tracking,
         \A q \in Caller \ {c} :
           /\ pc'[q] = pc[q] /\ view'[q] = view[q] /\ cur'[q] = cur[q]
           /\ writes'[q] = writes[q] /\ since'[q] = since[q]
  PROVE  TabInv'
<1>1. ASSUME NEW q \in Caller, q # c PROVE CallOK(q)'
  BY <1>1 DEF TabInv, CallOK, DoneRows
<1> QED BY <1>1 DEF TabInv

LEMMA EndsCall ==
  ASSUME TabInv, NEW c \in Caller, Tab!EndCall(c), UNCHANGED <<sheet, tracking>>
  PROVE  TabInv'
<1>1. TabTypes'
  BY NoResults DEF TabInv, TabTypes, Tab!EndCall, Tab!Goto, Steps
<1>2. pc'[c] = "idle" /\ writes'[c] = Tab!NoWrites
  BY DEF TabInv, TabTypes, Tab!EndCall, Tab!Goto
<1>3. CallOK(c)'
  BY <1>2, NoResults DEF CallOK, DoneRows
<1> QED BY <1>1, <1>3, OneCall DEF TabInv, TabTypes, Tab!EndCall, Tab!Goto

LEMMA BeginStep ==
  ASSUME TabInv, NEW c \in Caller, NEW k, Tab!Begin(c, k) PROVE TabInv'
<1>1. TabTypes' /\ UNCHANGED <<tracking, view, todo, cur, writes, since>>
  BY DEF TabInv, TabTypes, Tab!Begin, Tab!outside, Tab!sheetVars, Tab!Goto, Steps
<1>2. pc[c] = "idle" /\ pc'[c] = "read" /\ \A q \in Caller \ {c} : pc'[q] = pc[q]
  BY DEF TabInv, TabTypes, Tab!Begin, Tab!At, Tab!Goto
<1>3. CallOK(c)'
  BY <1>1, <1>2 DEF TabInv, CallOK, DoneRows
<1> QED BY <1>1, <1>2, <1>3, OneCall

LEMMA ReadSheetStep ==
  ASSUME TabInv, NEW c \in Caller, Tab!ReadSheet(c) PROVE TabInv'
<1> DEFINE skipped == [r \in Tab!SkippedRows(sheet) |-> "NOT_ACCEPTED"]
           held == [o \in Tab!Order |-> {tracking[o]} \ {None}]
<1>1. /\ pc' = [pc EXCEPT ![c] = IF kind[c] = "reconcile-sheet-date"
                                 THEN "reconcile" ELSE "stage"]
      /\ view' = [view EXCEPT ![c] = sheet]
      /\ todo' = [todo EXCEPT ![c] = Tab!Groups(sheet)]
      /\ writes' = [writes EXCEPT ![c] = skipped]
      /\ since' = [since EXCEPT ![c] = held]
      /\ UNCHANGED <<sheet, tracking, cur>>
  BY DEF Tab!ReadSheet, Tab!Goto, Tab!outside, Tab!sheetVars
<1>2. skipped \in Results
  <2>1. Tab!SkippedRows(sheet) \subseteq Row
    BY DEF TabInv, TabTypes, Tab!SkippedRows, Tab!Dated
  <2> QED BY <2>1, ResultsAre DEF Tab!Text
<1>3. held \in [Tab!Order -> SUBSET Numbers]
  BY DEF TabInv, TabTypes
<1>4. Tab!Groups(sheet) \in SUBSET Tab!Group
  BY DEF Tab!Groups
<1>5. \A r \in DOMAIN skipped : skipped[r] # "DONE"
  OBVIOUS
<1>6. \A o \in Tab!Order : tracking[o] # None => tracking[o] \in held[o]
  OBVIOUS
<1> HIDE DEF skipped, held
<1>7. TabTypes'
  BY <1>1, <1>2, <1>3, <1>4 DEF TabInv, TabTypes, Steps
<1>8. /\ pc'[c] \in {"reconcile", "stage"} /\ view'[c] = sheet /\ writes'[c] = skipped
      /\ since'[c] = held
  BY <1>1 DEF TabInv, TabTypes
<1>9. CallOK(c)'
  BY <1>1, <1>5, <1>6, <1>8 DEF CallOK, DoneRows, TabInv, TabTypes
<1> QED BY <1>1, <1>7, <1>9, OneCall DEF TabInv, TabTypes

\* A step that leaves view, results and what was seen alone, and starts no read-back.
LEMMA PlainStep ==
  ASSUME TabInv, NEW c \in Caller, NEW label \in Steps \ {"idle", "read", "readback"},
         NEW groups \in SUBSET Tab!Group, NEW reading \in Reading \cup {Tab!NotReading},
         pc[c] \notin {"idle", "read"},
         pc' = [pc EXCEPT ![c] = label], todo' = [todo EXCEPT ![c] = groups],
         cur' = [cur EXCEPT ![c] = reading],
         UNCHANGED <<sheet, tracking, view, writes, since>>
  PROVE  TabInv'
<1>1. TabTypes'
  BY DEF TabInv, TabTypes
<1>2. pc'[c] = label
  BY DEF TabInv, TabTypes
<1>3. CallOK(c)'
  BY <1>2 DEF TabInv, CallOK, DoneRows
<1> QED BY <1>1, <1>3, OneCall DEF TabInv, TabTypes

\* A result noted for a group's rows is none, or one that was read back.
LEMMA Noted ==
  ASSUME TabInv, NEW c \in Caller, NEW g \in Tab!Group, NEW text \in Tab!Text,
         pc[c] \notin {"idle", "read"},
         Tab!Note(c, g, text), UNCHANGED <<view, since>>,
         text = "DONE" => Same(view[c], g, since[c][g.order])
  PROVE  /\ writes' \in [Caller -> Results]
         /\ DoneRows(c)'
         /\ \A q \in Caller \ {c} : writes'[q] = writes[q]
<1> DEFINE group == Tab!RowsOf(view[c], g)
           noted == [r \in DOMAIN writes[c] \cup group |->
                      IF r \in group THEN text ELSE writes[c][r]]
<1>1. writes' = [writes EXCEPT ![c] = noted]
  BY DEF Tab!Note
<1>2. view[c] \in [Row -> Cell] /\ writes[c] \in Results
  BY DEF TabInv, TabTypes, CallOK
<1>3. group \subseteq Row
  BY <1>2 DEF Tab!RowsOf, Tab!Dated
<1>4. DOMAIN writes[c] \subseteq Row /\ \A r \in DOMAIN writes[c] : writes[c][r] \in Tab!Text
  BY <1>2, ResultsAre
<1>5. noted \in Results
  <2>1. noted \in [DOMAIN noted -> Tab!Text] /\ DOMAIN noted \subseteq Row
    BY <1>3, <1>4
  <2> HIDE DEF noted
  <2> QED BY <2>1, ResultsAre
<1>6. ASSUME NEW r \in DOMAIN noted, noted[r] = "DONE"
      PROVE  /\ view[c][r].order \in Tab!Order
             /\ Same(view[c], GroupOf(view[c], r), since[c][view[c][r].order])
  <2>1. CASE r \in group
    <3>1. view[c][r].order = g.order /\ view[c][r].shop = g.shop /\ g.order \in Tab!Order
      BY <2>1 DEF Tab!RowsOf, Tab!Group
    <3>2. GroupOf(view[c], r) = g
      BY <3>1 DEF GroupOf, Tab!Group
    <3>3. text = "DONE"
      BY <1>6, <2>1
    <3> QED BY <3>1, <3>2, <3>3
  <2>2. CASE r \notin group
    <3>1. r \in DOMAIN writes[c] /\ writes[c][r] = "DONE"
      BY <1>6, <2>2
    <3> QED BY <3>1 DEF TabInv, CallOK, DoneRows
  <2> QED BY <2>1, <2>2
<1> HIDE DEF noted
<1>7. writes' \in [Caller -> Results] /\ writes'[c] = noted
  BY <1>1, <1>5 DEF TabInv, TabTypes
<1>8. DoneRows(c)'
  BY <1>6, <1>7 DEF DoneRows, Same, GroupOf
<1> QED BY <1>1, <1>7, <1>8 DEF TabInv, TabTypes

LEMMA FindIntentStep ==
  ASSUME TabInv, NEW c \in Caller, NEW g \in Tab!Group, Tab!FindIntent(c, g) PROVE TabInv'
<1> DEFINE v == view[c]
           i == IF Tab!Stageable(v, g) THEN Tab!FindPostIntent(v, g) ELSE None
           closed == IF i = None THEN "ABSENT" ELSE intent[i]
<1>1. /\ pc[c] = "reconcile" /\ UNCHANGED <<sheet, tracking, view, since>>
      /\ todo' = [todo EXCEPT ![c] = todo[c] \ {g}]
  BY DEF Tab!FindIntent, Tab!At, Tab!Visited, Tab!outside, Tab!sheetVars
<1>2. todo[c] \in SUBSET Tab!Group
  BY DEF TabInv, TabTypes
<1>3. todo' \in [Caller -> SUBSET Tab!Group]
  BY <1>1, <1>2 DEF TabInv, TabTypes
<1>4. CASE closed \in {"CONFIRMED", "FAILED", "ABORTED"}
  <2> DEFINE reading == [group |-> g, status |-> closed]
  <2>1. /\ pc' = [pc EXCEPT ![c] = "readback"]
        /\ cur' = [cur EXCEPT ![c] = reading] /\ UNCHANGED writes
    BY <1>4 DEF Tab!FindIntent, Tab!Goto
  <2>2. reading \in Reading /\ reading.group = g
    BY <1>4 DEF Reading, Tab!IntentStatus
  <2>3. Tab!Ready(v, g)
    BY <1>4 DEF Tab!Stageable
  <2> HIDE DEF reading, v
  <2>4. TabTypes'
    BY <1>1, <1>3, <2>1, <2>2 DEF TabInv, TabTypes, Steps
  <2>5. pc'[c] = "readback" /\ cur'[c] = reading
    BY <2>1 DEF TabInv, TabTypes
  <2>6. CallOK(c)'
    <3>1. Tab!Ready(view'[c], cur'[c].group) /\ cur'[c] \in Reading
      BY <1>1, <2>2, <2>3, <2>5 DEF v
    <3>2. cur'[c].status = closed
      BY <2>5 DEF reading
    <3>3. DoneRows(c)'
      BY <1>1, <2>1 DEF TabInv, CallOK, DoneRows
    <3>4. /\ view'[c] \in [Row -> Cell]
          /\ \A o \in Tab!Order : tracking'[o] # None => tracking'[o] \in since'[c][o]
      BY <1>1 DEF TabInv, CallOK
    <3> HIDE DEF closed
    <3> QED BY <1>4, <2>5, <3>1, <3>2, <3>3, <3>4 DEF CallOK
  <2> QED BY <1>1, <2>1, <2>4, <2>6, OneCall DEF TabInv, TabTypes
<1>5. CASE closed \notin {"CONFIRMED", "FAILED", "ABORTED"}
  <2>1. Tab!Note(c, g, "NOT_ACCEPTED") /\ UNCHANGED <<pc, cur>>
    BY <1>5 DEF Tab!FindIntent
  <2>2. /\ writes' \in [Caller -> Results] /\ DoneRows(c)'
        /\ \A q \in Caller \ {c} : writes'[q] = writes[q]
    BY <1>1, <2>1, Noted DEF Tab!Text
  <2>3. TabTypes'
    BY <1>1, <1>3, <2>1, <2>2 DEF TabInv, TabTypes
  <2>4. CallOK(c)'
    BY <1>1, <2>1, <2>2 DEF TabInv, CallOK
  <2> QED BY <1>1, <2>1, <2>2, <2>3, <2>4, OneCall
<1> QED BY <1>4, <1>5

LEMMA ReadBackStep ==
  ASSUME TabConstants, TabInv, NEW c \in Caller, NEW yes \in BOOLEAN, Tab!ReadBack(c, yes)
  PROVE  TabInv'
<1> DEFINE g == cur[c].group
           text == Tab!TextFor(cur[c].status, yes)
<1>1. /\ pc[c] = "readback" /\ UNCHANGED <<sheet, tracking, view, since, todo>>
      /\ pc' = [pc EXCEPT ![c] = "reconcile"]
      /\ cur' = [cur EXCEPT ![c] = Tab!NotReading]
      /\ yes => tracking[g.order] = Tab!TrackingOf(view[c], g)
  BY DEF Tab!ReadBack, Tab!At, Tab!Goto, Tab!outside, Tab!sheetVars
<1>2. /\ g \in Tab!Group /\ view[c] \in [Row -> Cell]
      /\ cur[c].status = "CONFIRMED" => Tab!Ready(view[c], g)
  BY <1>1 DEF TabInv, CallOK, Reading
<1>3. CASE text = None
  <2>1. UNCHANGED writes
    BY <1>3 DEF Tab!ReadBack
  <2>2. TabTypes'
    BY <1>1, <2>1 DEF TabInv, TabTypes, Steps
  <2>3. pc'[c] = "reconcile"
    BY <1>1 DEF TabInv, TabTypes
  <2>4. CallOK(c)'
    BY <1>1, <2>1, <2>3 DEF TabInv, CallOK, DoneRows
  <2> QED BY <1>1, <2>1, <2>2, <2>4, OneCall DEF TabInv, TabTypes
<1>4. CASE text # None
  <2>1. Tab!Note(c, g, text)
    BY <1>4 DEF Tab!ReadBack
  <2>2. text \in Tab!Text /\ (text = "DONE" => cur[c].status = "CONFIRMED" /\ yes)
    <3>1. cur[c].status \in {"CONFIRMED", "FAILED", "ABORTED"}
      BY <1>1 DEF TabInv, CallOK
    <3> QED BY <1>4, <3>1 DEF Tab!TextFor, Tab!Text
  <2>3. ASSUME text = "DONE" PROVE Same(view[c], g, since[c][g.order])
    <3>1. Tab!Ready(view[c], g) /\ tracking[g.order] = Tab!TrackingOf(view[c], g)
      BY <1>1, <1>2, <2>2, <2>3
    <3>2. /\ Tab!NonBlank(view[c], g, "tracking") = {Tab!TrackingOf(view[c], g)}
          /\ Tab!TrackingOf(view[c], g) # None
      BY <1>2, <3>1, ReadyIsOne
    <3>3. g.order \in Tab!Order
      BY <1>2 DEF Tab!Group
    <3>4. tracking[g.order] \in since[c][g.order]
      BY <1>1, <3>1, <3>2, <3>3 DEF TabInv, CallOK
    <3> QED BY <3>1, <3>2, <3>4 DEF Same
  <2>4. /\ writes' \in [Caller -> Results] /\ DoneRows(c)'
        /\ \A q \in Caller \ {c} : writes'[q] = writes[q]
    <3> HIDE DEF g, text
    <3> QED BY <1>1, <1>2, <2>1, <2>2, <2>3, Noted
  <2>5. TabTypes'
    BY <1>1, <2>4 DEF TabInv, TabTypes, Steps
  <2>6. pc'[c] = "reconcile"
    BY <1>1 DEF TabInv, TabTypes
  <2>7. CallOK(c)'
    BY <1>1, <2>4, <2>6 DEF TabInv, CallOK
  <2> QED BY <1>1, <2>4, <2>5, <2>7, OneCall DEF TabInv, TabTypes
<1> QED BY <1>3, <1>4

LEMMA EndReconcileStep ==
  ASSUME TabInv, NEW c \in Caller, NEW yes \in BOOLEAN, Tab!EndReconcile(c, yes)
  PROVE  TabInv'
<1>1. UNCHANGED <<sheet, tracking>> /\ pc[c] = "reconcile"
  BY DEF Tab!EndReconcile, Tab!At, Tab!outside, Tab!sheetVars
<1>2. CASE yes /\ writes[c] # Tab!NoWrites
  <2>1. pc' = [pc EXCEPT ![c] = "write"] /\ UNCHANGED <<view, todo, cur, writes, since>>
    BY <1>2 DEF Tab!EndReconcile, Tab!Goto
  <2>2. pc'[c] = "write"
    BY <2>1 DEF TabInv, TabTypes
  <2>3. TabTypes'
    BY <1>1, <2>1 DEF TabInv, TabTypes, Steps
  <2>4. CallOK(c)'
    BY <1>1, <2>1, <2>2 DEF TabInv, CallOK, DoneRows
  <2> QED BY <1>1, <2>1, <2>3, <2>4, OneCall DEF TabInv, TabTypes
<1>3. CASE ~ (yes /\ writes[c] # Tab!NoWrites)
  BY <1>1, <1>3, EndsCall DEF Tab!EndReconcile
<1> QED BY <1>2, <1>3

LEMMA WriteResultStep ==
  ASSUME TabInv, NEW c \in Caller, NEW r \in Row, Tab!WriteResult(c, r)
  PROVE  TabInv'
<1>1. UNCHANGED <<sheet, tracking>> /\ pc[c] = "write"
  BY DEF Tab!WriteResult, Tab!At
<1>2. CASE DOMAIN writes[c] = {r}
  BY <1>1, <1>2, EndsCall DEF Tab!WriteResult
<1>3. CASE DOMAIN writes[c] # {r}
  <2> DEFINE rest == [q \in DOMAIN writes[c] \ {r} |-> writes[c][q]]
  <2>1. writes' = [writes EXCEPT ![c] = rest] /\ UNCHANGED <<pc, view, todo, cur, since>>
    BY <1>3 DEF Tab!WriteResult
  <2>2. writes[c] \in Results
    BY DEF TabInv, TabTypes
  <2>3. DOMAIN writes[c] \subseteq Row /\ \A q \in DOMAIN writes[c] : writes[c][q] \in Tab!Text
    BY <2>2, ResultsAre
  <2>4. rest \in Results
    <3>1. rest \in [DOMAIN rest -> Tab!Text] /\ DOMAIN rest \subseteq Row
      BY <2>3
    <3> HIDE DEF rest
    <3> QED BY <3>1, ResultsAre
  <2>5. \A q \in DOMAIN rest : q \in DOMAIN writes[c] /\ rest[q] = writes[c][q]
    OBVIOUS
  <2> HIDE DEF rest
  <2>6. TabTypes' /\ writes'[c] = rest
    BY <1>1, <2>1, <2>4 DEF TabInv, TabTypes
  <2>7. DoneRows(c)'
    BY <2>1, <2>5, <2>6 DEF TabInv, CallOK, DoneRows
  <2>8. CallOK(c)'
    BY <1>1, <2>1, <2>7 DEF TabInv, CallOK
  <2> QED BY <1>1, <2>1, <2>6, <2>8, OneCall DEF TabInv, TabTypes
<1> QED BY <1>2, <1>3

\* COTIK takes a number, or loses it: every call that has read the sheet has seen it.
LEMMA HoldsStep ==
  ASSUME TabInv, NEW o \in Tab!Order, NEW t \in Numbers \cup {None}, Tab!CotikHolds(o, t),
         UNCHANGED <<sheet, pc, view, todo, cur, writes>>
  PROVE  TabInv'
<1>1. /\ tracking' = [tracking EXCEPT ![o] = t]
      /\ since' = [c \in Caller |->
           IF pc[c] \in {"idle", "read"} THEN since[c]
           ELSE [since[c] EXCEPT ![o] = since[c][o] \cup ({t} \ {None})]]
  BY DEF Tab!CotikHolds
<1>2. ASSUME NEW c \in Caller
      PROVE  /\ since'[c] \in [Tab!Order -> SUBSET Numbers]
             /\ \A n \in Tab!Order : since[c][n] \subseteq since'[c][n]
             /\ pc[c] \notin {"idle", "read"} /\ t # None => t \in since'[c][o]
  <2>1. since[c] \in [Tab!Order -> SUBSET Numbers]
    BY DEF TabInv, TabTypes
  <2>2. CASE pc[c] \in {"idle", "read"}
    BY <1>1, <2>1, <2>2
  <2>3. CASE pc[c] \notin {"idle", "read"}
    <3>1. since'[c] = [since[c] EXCEPT ![o] = since[c][o] \cup ({t} \ {None})]
      BY <1>1, <2>3
    <3>2. since[c][o] \cup ({t} \ {None}) \in SUBSET Numbers
      BY <2>1
    <3> QED BY <2>1, <3>1, <3>2
  <2> QED BY <2>2, <2>3
<1>3. TabTypes'
  <2>1. since' \in [Caller -> [Tab!Order -> SUBSET Numbers]]
    BY <1>1, <1>2
  <2> QED BY <1>1, <2>1 DEF TabInv, TabTypes
<1>4. ASSUME NEW c \in Caller PROVE CallOK(c)'
  <2>1. CallOK(c) /\ tracking \in [Tab!Order -> Numbers \cup {None}]
    BY DEF TabInv, TabTypes
  <2>2. DoneRows(c)'
    <3> SUFFICES ASSUME NEW r \in DOMAIN writes[c], writes[c][r] = "DONE"
                 PROVE  /\ view[c][r].order \in Tab!Order
                        /\ Same(view[c], GroupOf(view[c], r), since'[c][view[c][r].order])
      BY DEF DoneRows, Same, GroupOf
    <3>1. PICK n \in since[c][view[c][r].order] :
            Tab!NonBlank(view[c], GroupOf(view[c], r), "tracking") = {n}
      BY <2>1 DEF CallOK, DoneRows, Same
    <3>2. pc[c] \notin {"idle", "read"} /\ view[c] \in [Row -> Cell]
      BY <2>1 DEF CallOK
    <3>3. view[c][r].order \in Tab!Order
      BY <2>1 DEF CallOK, DoneRows
    <3>4. n \in since'[c][view[c][r].order]
      BY <1>2, <3>1, <3>3
    <3> QED BY <3>1, <3>3, <3>4 DEF Same
  <2>3. ASSUME pc[c] \notin {"idle", "read"}, NEW n \in Tab!Order, tracking'[n] # None
        PROVE  tracking'[n] \in since'[c][n]
    BY <1>1, <1>2, <2>1, <2>3 DEF CallOK
  <2> QED BY <2>1, <2>2, <2>3 DEF CallOK
<1> QED BY <1>3, <1>4 DEF TabInv

LEMMA TabNext ==
  ASSUME TabConstants, TabInv, [Tab!Next]_Tab!vars PROVE TabInv'
<1>1. CASE UNCHANGED Tab!vars
  BY <1>1 DEF Tab!vars, Tab!sheetVars, Tab!calls, TabInv, TabTypes, CallOK, DoneRows
<1>2. ASSUME NEW c \in Caller, Tab!CallStep(c) PROVE TabInv'
  <2>1. ASSUME NEW k, Tab!Begin(c, k) PROVE TabInv'
    BY <2>1, BeginStep
  <2>2. CASE Tab!ReadSheet(c)
    BY <2>2, ReadSheetStep
  <2>3. ASSUME NEW g \in Tab!Group, Tab!StageGroup(c, g) PROVE TabInv'
    <3>1. /\ pc[c] = "stage" /\ UNCHANGED <<sheet, tracking, pc, view, cur, writes, since>>
          /\ todo' = [todo EXCEPT ![c] = todo[c] \ {g}]
      BY <2>3 DEF Tab!StageGroup, Tab!At, Tab!Visited, Tab!sheetVars
    <3>2. /\ pc' = [pc EXCEPT ![c] = "stage"] /\ cur' = [cur EXCEPT ![c] = cur[c]]
          /\ todo[c] \ {g} \in SUBSET Tab!Group /\ cur[c] \in Reading \cup {Tab!NotReading}
      BY <3>1 DEF TabInv, TabTypes
    <3> QED BY <3>1, <3>2, PlainStep DEF Steps
  <2>4. ASSUME NEW g \in Tab!Group, Tab!FindIntent(c, g) PROVE TabInv'
    BY <2>4, FindIntentStep
  <2>5. CASE Tab!EndStage(c)
    <3>1. UNCHANGED <<sheet, tracking>> /\ pc[c] = "stage"
      BY <2>5 DEF Tab!EndStage, Tab!At, Tab!outside, Tab!sheetVars
    <3>2. CASE kind[c] = "execute"
      <4>1. pc' = [pc EXCEPT ![c] = "cycle"] /\ UNCHANGED <<view, todo, cur, writes, since>>
        BY <2>5, <3>2 DEF Tab!EndStage, Tab!Goto
      <4>2. /\ todo' = [todo EXCEPT ![c] = todo[c]] /\ cur' = [cur EXCEPT ![c] = cur[c]]
            /\ todo[c] \in SUBSET Tab!Group /\ cur[c] \in Reading \cup {Tab!NotReading}
        BY <4>1 DEF TabInv, TabTypes
      <4> QED BY <3>1, <4>1, <4>2, PlainStep DEF Steps
    <3>3. CASE kind[c] # "execute"
      BY <2>5, <3>1, <3>3, EndsCall DEF Tab!EndStage
    <3> QED BY <3>2, <3>3
  <2>6. CASE Tab!CycleReturns(c)
    <3>1. /\ pc[c] = "cycle" /\ pc' = [pc EXCEPT ![c] = "reconcile"]
          /\ todo' = [todo EXCEPT ![c] = Tab!Groups(view[c])]
          /\ UNCHANGED <<sheet, tracking, view, cur, writes, since>>
      BY <2>6 DEF Tab!CycleReturns, Tab!At, Tab!Goto, Tab!outside, Tab!sheetVars
    <3>2. /\ cur' = [cur EXCEPT ![c] = cur[c]] /\ cur[c] \in Reading \cup {Tab!NotReading}
          /\ Tab!Groups(view[c]) \in SUBSET Tab!Group
      BY <3>1 DEF TabInv, TabTypes, Tab!Groups
    <3> QED BY <3>1, <3>2, PlainStep DEF Steps
  <2>7. ASSUME NEW yes \in BOOLEAN, Tab!ReadBack(c, yes) PROVE TabInv'
    BY <2>7, ReadBackStep
  <2>8. ASSUME NEW yes \in BOOLEAN, Tab!EndReconcile(c, yes) PROVE TabInv'
    BY <2>8, EndReconcileStep
  <2>9. CASE Tab!AccountUnavailable(c)
    <3>1. /\ pc[c] = "readback" /\ pc' = [pc EXCEPT ![c] = "reconcile"]
          /\ cur' = [cur EXCEPT ![c] = Tab!NotReading]
          /\ UNCHANGED <<sheet, tracking, view, todo, writes, since>>
      BY <2>9 DEF Tab!AccountUnavailable, Tab!At, Tab!Goto, Tab!outside, Tab!sheetVars
    <3>2. todo' = [todo EXCEPT ![c] = todo[c]] /\ todo[c] \in SUBSET Tab!Group
      BY <3>1 DEF TabInv, TabTypes
    <3> QED BY <3>1, <3>2, PlainStep DEF Steps
  <2>10. ASSUME NEW r \in Row, Tab!WriteResult(c, r) PROVE TabInv'
    BY <2>10, WriteResultStep
  <2>11. CASE Tab!CallFails(c)
    BY <2>11, EndsCall DEF Tab!CallFails, Tab!outside, Tab!sheetVars
  <2> QED BY <1>2, <2>1, <2>2, <2>3, <2>4, <2>5, <2>6, <2>7, <2>8, <2>9, <2>10, <2>11
          DEF Tab!CallStep
<1>3. ASSUME NEW r \in Row, NEW cell \in Cell, Tab!ClearResult(r) \/ Tab!EditRow(r, cell)
      PROVE TabInv'
  <2>1. sheet' \in [Row -> Cell] /\ UNCHANGED <<tracking, pc, view, todo, cur, writes, since>>
    BY <1>3 DEF Tab!ClearResult, Tab!EditRow, Tab!calls, TabInv, TabTypes
  <2> QED BY <2>1 DEF TabInv, TabTypes, CallOK, DoneRows
<1>4. ASSUME NEW r \in Row, Tab!ClearResult(r) PROVE TabInv'
  BY <1>4 DEF Tab!ClearResult, Tab!calls, TabInv, TabTypes, CallOK, DoneRows
<1>5. ASSUME NEW on, Tab!SetSwitches(on) PROVE TabInv'
  BY <1>5 DEF Tab!SetSwitches, Tab!sheetVars, Tab!calls, TabInv, TabTypes, CallOK, DoneRows
<1>6. ASSUME NEW i \in Tab!Intent, Tab!PostLands(i) PROVE TabInv'
  <2>1. i.order \in Tab!Order /\ i.tracking \in Numbers
    BY DEF Tab!Intent, Numbers
  <2> QED BY <1>6, <2>1, HoldsStep DEF Tab!PostLands, Tab!sheetVars, Tab!calls
<1>7. ASSUME NEW i, NEW s, Tab!CycleMoves(i, s) PROVE TabInv'
  BY <1>7 DEF Tab!CycleMoves, Tab!sheetVars, Tab!calls, TabInv, TabTypes, CallOK, DoneRows
<1>8. ASSUME NEW o \in Tab!Order, Tab!RemovedByHand(o) PROVE TabInv'
  BY <1>8, HoldsStep DEF Tab!RemovedByHand, Tab!sheetVars, Tab!calls
<1> QED BY <1>1, <1>2, <1>3, <1>4, <1>5, <1>6, <1>7, <1>8 DEF Tab!Next

\* A row is reported done only for the one number its order's rows have, when COTIK
\* held it at some moment since the sheet was read (cotik-tracking-workflow.ts
\* reconcileAutoTrackingSheetSnapshot), for any sheet, whatever people edit.
THEOREM DoneWasSeen == TabConstants => (Tab!Spec => []Tab!DoneIsCurrent)
<1> SUFFICES ASSUME TabConstants PROVE Tab!Spec => []Tab!DoneIsCurrent
  OBVIOUS
<1>1. Tab!Init => TabInv
  BY TabInit
<1>2. TabInv /\ [Tab!Next]_Tab!vars => TabInv'
  BY TabNext
<1>3. TabInv => Tab!DoneIsCurrent
  BY DEF TabInv, CallOK, DoneRows, Same, GroupOf, Tab!DoneIsCurrent
<1> QED BY <1>1, <1>2, <1>3, PTL DEF Tab!Spec

=============================================================================
