----------------------------- MODULE RiskPolicy -----------------------------
(***************************************************************************)
(* Risk policies (packages/domain/src/risk-policy.ts, packages/db/src/     *)
(* queries/risk-policy.ts) and the review that applies one (workflow.ts).  *)
(* A policy is never edited: GLOBAL revisions are complete, a SHOP         *)
(* revision overrides some thresholds or, disabled, none, and every        *)
(* revision says from when it is effective, which may lie in the past or   *)
(* in the future.  A review reads the winning revision of each scope with  *)
(* a query of its own, merges the two and evaluates both rules.            *)
(*                                                                         *)
(* One shop: revisions of other shops are never read for it.               *)
(***************************************************************************)
EXTENDS RiskRules, Sequences, FiniteSets

CONSTANTS
    Thresholds,     \* complete thresholds a revision may set: see RiskRules
    Overrides,      \* partial ones, with Inherit where GLOBAL is kept
    INITIAL_GLOBAL, \* the published defaults, before any GLOBAL revision
    Facts,          \* facts a review may read: see RiskRules
    Evidence,       \* finance evidence it may read: see RiskRules
    MaxRevisions,   \* bound: revisions appended
    MaxClock,       \* bound: last instant
    Inherit         \* a threshold a SHOP revision leaves to GLOBAL

VARIABLES
    revisions,  \* risk_policy_revisions, by sequence
    now,        \* the clock
    review,     \* a review's step, its effectiveAt and the revisions it read
    outcome     \* what the last review found

vars == <<revisions, now, review, outcome>>

Keys == DOMAIN INITIAL_GLOBAL
Instant == 0 .. MaxClock
Nothing == [kind |-> "NONE"]

Init ==
    /\ revisions = <<>>
    /\ now = 0
    /\ review = [step |-> "idle"]
    /\ outcome = Nothing

----------------------------------------------------------------------------
(* Revisions                                                               *)

AppendRevision(scope, enabled, thresholds, from) ==
    /\ Len(revisions) < MaxRevisions
    /\ revisions' = Append(revisions, [scope |-> scope, enabled |-> enabled,
                                       thresholds |-> thresholds, from |-> from])
    /\ UNCHANGED <<now, review, outcome>>

appendGlobalRiskPolicyRevision(thresholds, from) ==
    /\ Sound(thresholds)
    /\ AppendRevision("GLOBAL", TRUE, thresholds, from)

\* Only the types of an override are checked: what it is merged with is not
\* known yet.
appendShopRiskPolicyOverrideRevision(thresholds, from) ==
    AppendRevision("SHOP", TRUE, thresholds, from)

disableShopRiskPolicyOverride(from) ==
    AppendRevision("SHOP", FALSE, [key \in Keys |-> Inherit], from)

----------------------------------------------------------------------------
(* A review                                                                *)

\* The revision of a scope in effect at an instant: the latest effectiveFrom,
\* and of equal ones the latest sequence; 0 when there is none.
Winner(scope, at) ==
    LET effective == {i \in DOMAIN revisions :
                         revisions[i].scope = scope /\ revisions[i].from <= at}
    IN  IF effective = {} THEN 0
        ELSE CHOOSE i \in effective :
                \A j \in effective \ {i} :
                    \/ revisions[j].from < revisions[i].from
                    \/ revisions[j].from = revisions[i].from /\ j < i

StartReview ==
    /\ review.step = "idle"
    /\ review' = [step |-> "read", at |-> now, global |-> -1, shop |-> -1]
    /\ outcome' = Nothing
    /\ UNCHANGED <<revisions, now>>

\* The two queries of one Promise.all, each on a connection of its own.
ReadScope(scope, field) ==
    /\ review.step = "read" /\ review[field] = -1
    /\ review' = [review EXCEPT ![field] = Winner(scope, review.at)]
    /\ UNCHANGED <<revisions, now, outcome>>

Merged(global, shop) ==
    LET base == IF global = 0 THEN INITIAL_GLOBAL ELSE revisions[global].thresholds
    IN  IF shop = 0 \/ ~ revisions[shop].enabled THEN base
        ELSE [key \in Keys |->
                 IF revisions[shop].thresholds[key] = Inherit THEN base[key]
                 ELSE revisions[shop].thresholds[key]]

\* The merged thresholds are validated again; resolving an unsound merge
\* throws, and the review with it.
Accepted(thresholds) == Sound(thresholds)

\* The review evaluates the facts and the finance evidence it has read with
\* the policy it resolved.
Evaluate(f, e, official, quality) ==
    /\ review.step = "read" /\ review.global # -1 /\ review.shop # -1
    /\ LET t == Merged(review.global, review.shop)
       IN  outcome' =
             IF Accepted(t)
             THEN [kind |-> "REVIEWED", stops |-> Stops(f, t), resumes |-> Resumes(f, t),
                   stopsByRate |-> StopsByRate(f, t),
                   onHold |-> OnHold(e, t),
                   delivery |-> DeliveryRate(f, official, quality, t),
                   rule |-> Rule(OnHold(e, t), DeliveryRate(f, official, quality, t))]
             ELSE [kind |-> "REJECTED"]
    /\ review' = [step |-> "idle"]
    /\ UNCHANGED <<revisions, now>>

Tick ==
    /\ now < MaxClock
    /\ now' = now + 1
    /\ UNCHANGED <<revisions, review, outcome>>

Next ==
    \/ \E t \in Thresholds, from \in Instant : appendGlobalRiskPolicyRevision(t, from)
    \/ \E t \in Overrides, from \in Instant : appendShopRiskPolicyOverrideRevision(t, from)
    \/ \E from \in Instant : disableShopRiskPolicyOverride(from)
    \/ StartReview
    \/ ReadScope("GLOBAL", "global")
    \/ ReadScope("SHOP", "shop")
    \/ \E f \in Facts, e \in Evidence, official \in BOOLEAN,
          quality \in {"FRESH", "STALE", "UNKNOWN"} : Evaluate(f, e, official, quality)
    \/ Tick

Spec == Init /\ [][Next]_vars

----------------------------------------------------------------------------
(* Properties                                                              *)

\* The types of the variables.
TypeOK ==
    /\ revisions \in Seq([scope : {"GLOBAL", "SHOP"}, enabled : BOOLEAN,
                           thresholds : Thresholds \cup Overrides \cup {[key \in Keys |-> Inherit]}, from : Instant])
    /\ now \in Instant
    /\ \/ review = [step |-> "idle"]
       \/ review \in [step : {"read"}, at : Instant, global : -1 .. MaxRevisions,
                       shop : -1 .. MaxRevisions]
    /\ outcome.kind \in {"NONE", "REVIEWED", "REJECTED"}

\* Whatever revisions were appended, in whatever order and effective from
\* whenever, and however the two reads fell between them: no review finds a
\* shop that must stop and may resume at once.
StopIsNeverResume ==
    outcome.kind = "REVIEWED" => ~ (outcome.stops /\ outcome.resumes)

\* The legacy evaluation, kept for the figures of a case, and the Official On
\* Hold rule that decides never contradict each other about the delivery
\* rate: a condition the rule has evaluated is the one the evaluation found.
RulesAgreeOnDelivery ==
    outcome.kind = "REVIEWED" =>
        /\ outcome.delivery = "TRIGGERED" => outcome.stopsByRate
        /\ outcome.delivery = "CLEAR" => ~ outcome.stopsByRate
=============================================================================
