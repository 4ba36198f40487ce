----------------------------- MODULE RiskRules -----------------------------
(***************************************************************************)
(* The two rules a review applies to a shop, as operators: the legacy risk *)
(* evaluation (packages/domain/src/risk-control.ts) and the Official On    *)
(* Hold rule (target-rule.ts), with what they share: thresholds, the       *)
(* delivery rate (delivery-rate.ts) and the health of the finance evidence *)
(* (finance-health.ts).                                                    *)
(*                                                                         *)
(* Amounts are integers of some unit.  A rate is a numerator over Scale:   *)
(* the rate of d delivered orders out of n is below r when                 *)
(* d * Scale < r * n, which is what the quotients compare to.              *)
(***************************************************************************)
EXTENDS Integers

CONSTANT Scale  \* rates are thresholds / Scale

\* The thresholds of a policy: when to stop a shop and when it may resume.
\* RiskThresholdsSchema rejects a resume threshold on the stop side.
Sound(t) == t.resumeRate >= t.stopRate /\ t.resumeValue <= t.stopValue

(***************************************************************************)
(* Facts of a shop: `waiting' orders not shipped yet, `moving' orders in   *)
(* transit, delivered or completed, `unknown' orders of unknown status,    *)
(* `foreign' of the first two in another currency than the policy's, and   *)
(* `value' of the first two in that currency.  Orders of other statuses    *)
(* (cancelled, unpaid) count in neither rule.                              *)
(***************************************************************************)
Total(f) == f.waiting + f.moving
HasRate(f) == f.unknown = 0 /\ Total(f) > 0
RateBelow(f, rate) == f.moving * Scale < rate * Total(f)

\* evaluateRiskControlFacts, with the thresholds of the policy it is given,
\* what was last observed of holiday mode and the safe cycles so far.
StopsByValue(f, t) == f.value >= t.stopValue
SampleSufficient(f, t) == HasRate(f) /\ Total(f) >= t.minimum
StopsByRate(f, t) == SampleSufficient(f, t) /\ RateBelow(f, t.stopRate)
Stops(f, t) == StopsByValue(f, t) \/ StopsByRate(f, t)
Sufficient(f, t) == SampleSufficient(f, t) /\ f.foreign = 0
Resumes(f, t) ==
    /\ Sufficient(f, t)
    /\ f.value < t.resumeValue
    /\ ~ RateBelow(f, t.resumeRate)

RiskDecision(f, t, holiday, cycles) ==
    LET safe == ~ Stops(f, t) /\ Resumes(f, t) /\ holiday = "ON"
    IN  [desired |->
            IF Stops(f, t) THEN "HOLIDAY_MODE_ON"
            ELSE IF ~ Sufficient(f, t) THEN "INSUFFICIENT_DATA"
            ELSE IF \/ holiday # "ON"
                    \/ safe /\ cycles + 1 >= t.stableCycles
                 THEN "HOLIDAY_MODE_OFF"
                 ELSE "HOLIDAY_MODE_ON",
         cycles |-> IF safe THEN cycles + 1 ELSE 0]

(***************************************************************************)
(* Finance evidence: `complete' and `reconciled' are "YES", "NO" or        *)
(* "UNKNOWN"; `proven' the proof status of the capture; `age' is "FRESH",  *)
(* "STALE" or, for a missing or future capture, "UNKNOWN".                 *)
(***************************************************************************)
Health(e) ==
    IF e.complete = "NO" THEN "INCOMPLETE"
    ELSE IF e.complete = "UNKNOWN" THEN "UNKNOWN"
    ELSE IF e.reconciled = "NO" THEN "RECONCILIATION_FAILED"
    ELSE IF e.reconciled = "UNKNOWN" \/ ~ e.proven THEN "UNKNOWN"
    ELSE e.age

Available(e) ==
    e.proven /\ e.complete = "YES" /\ e.reconciled = "YES" /\ e.age # "UNKNOWN"

\* A condition of the Official On Hold rule.
Condition(evaluated, triggered) ==
    IF ~ evaluated THEN "NOT_EVALUATED" ELSE IF triggered THEN "TRIGGERED" ELSE "CLEAR"

OnHold(e, t) ==
    Condition(Available(e) /\ Health(e) \in {"FRESH", "STALE"} /\ e.amount >= 0,
              e.amount >= t.stopValue)

AnySample(f, t) == FALSE  \* mutant

\* Orders are too few for the rate to be a rule (not so when unknown ones
\* hide how many they are: then there is no rate).
TooSmall(f, t) == f.unknown = 0 /\ Total(f) < t.minimum

\* `official': every fact is Seller Center's own; `quality': how fresh the
\* order run behind the facts is.
DeliveryRate(f, official, quality, t) ==
    Condition(/\ official /\ quality \in {"FRESH", "STALE"}
              /\ ~ TooSmall(f, t) /\ HasRate(f),
              RateBelow(f, t.stopRate))

\* evaluateOfficialOnHoldRule: either trigger pauses, both must be clear to
\* continue.
Rule(onHold, delivery) ==
    IF "TRIGGERED" \in {onHold, delivery} THEN "PAUSE"
    ELSE IF "NOT_EVALUATED" \in {onHold, delivery} THEN "INSUFFICIENT_DATA"
    ELSE "CONTINUE"
=============================================================================
