--------------------------- MODULE ReviewEvidence ---------------------------
(***************************************************************************)
(* What a review of one shop decides on, and whether it may be stored:     *)
(* loadReviewStartSource (packages/decision-workflow/src/persisted.ts),    *)
(* startReview (workflow.ts), the context it freezes                       *)
(* (decision-intelligence.ts, domain/src/contracts/frozen-context.ts) and  *)
(* the schemas the case has to pass (domain/src/decisions.ts).             *)
(*                                                                         *)
(* A review dates its case first and reads afterwards: the order facts,    *)
(* the latest order run, the latest finance run, the latest proven one and *)
(* the previous case by statements of one Promise.all, each at an instant  *)
(* of its own, then the finance capture the runs name.  Syncs of Seller    *)
(* Center and of COTIK commit between any two of them.  The policy, the AI *)
(* task and who answers the review are the business of RiskPolicy and      *)
(* DecisionCases; here the policy is one, of one currency.                 *)
(***************************************************************************)
EXTENDS RiskRules, Sequences, FiniteSets

CONSTANTS
    Reviewer,
    Order,
    Kind,       \* what Seller Center or COTIK may say of an order: [status, usd]
    Amount,     \* the On Hold amounts of Seller Center
    Policy,     \* the thresholds in effect
    Window,     \* how long a sync counts as fresh
    MaxClock, MaxSyncs, MaxCases,
    None

VARIABLES
    clock,
    rows,       \* orders, by id
    ordersRun,  \* the latest SUCCEEDED run of mode ORDERS
    collected,  \* the finance batch a sync has read and not yet stored
    financeRun, \* the latest SUCCEEDED run of mode FINANCE
    provenRun,  \* the latest of these that is complete and reconciled
    captures,   \* finance_captures: the official amount, by instant
    review,
    cases,      \* decision_cases of the shop, oldest first
    syncs       \* syncs so far, for the bound

source == <<rows, ordersRun, collected, financeRun, provenRun, captures>>
vars == <<clock, source, review, cases, syncs>>

Instant == 0 .. MaxClock
Row == [kind : Kind, official : BOOLEAN, first : Instant]
OrdersRun == [complete : BOOLEAN, at : Instant]
FinanceRun ==
    [complete : BOOLEAN, reconciled : BOOLEAN, captured : Instant, finished : Instant]
Idle == [step |-> "idle"]
Statements == {"facts", "orders", "latest", "proven", "previous"}

Init ==
    /\ clock = 0
    /\ rows = [o \in Order |-> None]
    /\ ordersRun = None
    /\ collected = None
    /\ financeRun = None
    /\ provenRun = None
    /\ captures = [t \in Instant |-> None]
    /\ review = [r \in Reviewer |-> Idle]
    /\ cases = <<>>
    /\ syncs = 0

----------------------------------------------------------------------------
(* Syncs                                                                   *)

Tick ==
    /\ clock < MaxClock
    /\ clock' = clock + 1
    /\ UNCHANGED <<source, review, cases, syncs>>

\* A batch of orders is stored with the source it comes from; an order keeps
\* the instant it was first seen at.
WriteOrder(o, kind, official) ==
    /\ syncs < MaxSyncs
    /\ rows' = [rows EXCEPT ![o] =
          [kind |-> kind, official |-> official,
           first |-> IF rows[o] = None THEN clock ELSE rows[o].first]]
    /\ syncs' = syncs + 1
    /\ UNCHANGED <<clock, ordersRun, collected, financeRun, provenRun, captures, review,
                   cases>>

\* An order sync of Seller Center ends, complete or not.
CompleteOrders(complete) ==
    /\ syncs < MaxSyncs
    /\ ordersRun' = [complete |-> complete, at |-> clock]
    /\ syncs' = syncs + 1
    /\ UNCHANGED <<clock, rows, collected, financeRun, provenRun, captures, review, cases>>

\* A finance sync dates its snapshot when the statistic is read, and stores
\* it after the statements behind it.  A sync takes longer than an instant: no
\* two snapshots are of the same one.
Collect(complete, reconciled, amount) ==
    /\ collected = None /\ syncs < MaxSyncs
    /\ financeRun # None => financeRun.captured < clock
    /\ collected' = [complete |-> complete, reconciled |-> reconciled,
                     amount |-> amount, at |-> clock]
    /\ syncs' = syncs + 1
    /\ UNCHANGED <<clock, rows, ordersRun, financeRun, provenRun, captures, review, cases>>

\* finalizeFinanceSyncRun: any batch ends its run; a complete and reconciled
\* one becomes the capture of its instant.
Finalize ==
    /\ collected # None
    /\ LET run == [complete |-> collected.complete, reconciled |-> collected.reconciled,
                   captured |-> collected.at, finished |-> clock]
       IN  /\ financeRun' = run
           /\ IF run.complete /\ run.reconciled
              THEN /\ provenRun' = run
                   /\ captures' = [captures EXCEPT ![collected.at] = collected.amount]
              ELSE UNCHANGED <<provenRun, captures>>
    /\ collected' = None
    /\ UNCHANGED <<clock, rows, ordersRun, review, cases, syncs>>

----------------------------------------------------------------------------
(* Reading                                                                 *)

Population(kinds) == Cardinality({o \in Order : rows[o] # None /\ rows[o].kind \in kinds})
OfStatus(statuses) == {kind \in Kind : kind.status \in statuses}
Operational == OfStatus({"waiting", "moving"})

\* getFullPersistedRiskOrderFacts: the population grouped and summed; an order
\* in the policy's currency counts 1.  `first' is the earliest instant an order
\* was seen at, `official' whether all of them come from Seller Center.
Facts ==
    LET stored == {rows[o] : o \in Order} \ {None}
    IN  [waiting  |-> Population(OfStatus({"waiting"})),
         moving   |-> Population(OfStatus({"moving"})),
         unknown  |-> Population(OfStatus({"unknown"})),
         foreign  |-> Population({kind \in Operational : ~ kind.usd}),
         value    |-> Population({kind \in Operational : kind.usd}),
         some     |-> stored # {},
         official |-> \A row \in stored : row.official,
         first    |-> IF stored = {} THEN None
                      ELSE CHOOSE t \in Instant :
                             /\ \E row \in stored : row.first = t
                             /\ \A row \in stored : t <= row.first]

\* The latest context of the shop: that of the case observed last.
Previous ==
    IF cases = <<>> THEN None
    ELSE CHOOSE t \in Instant :
           /\ \E i \in DOMAIN cases : cases[i].observed = t
           /\ \A i \in DOMAIN cases : cases[i].observed <= t

\* The newest capture the shop has.
Known == IF provenRun = None THEN None ELSE provenRun.captured

StartReview(r) ==
    /\ review[r] = Idle
    /\ review' = [review EXCEPT ![r] =
          [step |-> "load", observed |-> clock, known |-> Known, unread |-> Statements,
           facts |-> None, orders |-> None, latest |-> None, proven |-> None,
           previous |-> None, amount |-> None]]
    /\ UNCHANGED <<clock, source, cases, syncs>>

\* One statement of the Promise.all: what it reads is what is stored now.
Read(r, field, value) ==
    /\ review[r].step = "load" /\ field \in review[r].unread
    /\ review' = [review EXCEPT ![r][field] = value, ![r].unread = @ \ {field}]
    /\ UNCHANGED <<clock, source, cases, syncs>>

ReadFacts(r) == Read(r, "facts", Facts)
ReadOrdersRun(r) == Read(r, "orders", ordersRun)
ReadFinanceRun(r) == Read(r, "latest", financeRun)
ReadProvenRun(r) == Read(r, "proven", provenRun)
ReadPrevious(r) == Read(r, "previous", Previous)

LatestCaptureAt(v) ==  \* mutant
    IF v.latest # None /\ v.latest.complete THEN v.latest.captured
    ELSE IF v.proven # None THEN v.proven.captured
    ELSE None

\* resolveVerifiedFinanceCaptureAt: the instant of the latest proven run, or
\* else that of the latest run, if it is complete.
CaptureAt(v) ==
    IF v.proven # None THEN v.proven.captured
    ELSE IF v.latest # None /\ v.latest.complete THEN v.latest.captured
    ELSE None

\* getFinanceSummary: the capture of that instant, proven by its run, or none.
ReadSummary(r) ==
    LET v == review[r]
    IN  /\ v.step = "load" /\ v.unread = {}
        /\ review' = [review EXCEPT
              ![r].amount = IF CaptureAt(v) = None THEN None ELSE captures[CaptureAt(v)],
              ![r].step = "decide"]
        /\ UNCHANGED <<clock, source, cases, syncs>>

----------------------------------------------------------------------------
(* Deciding: `v' is a review that has read everything.                     *)

\* resolveDecisionFinanceHealth: the run of the evidence is the latest proven
\* one, or else the latest; its capture is dated against the case.
Selected(v) == IF v.proven # None THEN v.proven ELSE v.latest

Age(v, run) ==
    IF run = None \/ run.captured > v.observed THEN "UNKNOWN"
    ELSE IF v.observed - run.captured > Window THEN "STALE"
    ELSE "FRESH"

Evidence(v) ==
    LET run == Selected(v)
    IN  [complete   |-> IF run = None THEN "UNKNOWN" ELSE IF run.complete THEN "YES" ELSE "NO",
         reconciled |-> IF run # None /\ run.reconciled THEN "YES" ELSE "NO",
         proven     |-> v.amount # None,
         age        |-> Age(v, run),
         amount     |-> IF v.amount = None THEN -1 ELSE v.amount]

\* resolveDecisionDeliveryHealth: the facts count as Seller Center's own when
\* its latest run was complete and no order of another source is among them.
OrdersComplete(v) == v.orders # None /\ v.orders.complete /\ v.facts.official

Quality(v) ==
    IF ~ OrdersComplete(v) THEN "UNKNOWN"
    ELSE IF v.observed - v.orders.at > Window THEN "STALE"
    ELSE "FRESH"

\* The two conditions of the Official On Hold rule.
OfficialState(v) == OnHold(Evidence(v), Policy)
DeliveryState(v) == DeliveryRate(v.facts, OrdersComplete(v) /\ v.facts.some, Quality(v), Policy)

\* assessDecisionFreshness: of timestamps alone.
Fresh(v) ==
    /\ v.orders # None /\ v.observed - v.orders.at <= Window
    /\ v.latest # None /\ v.observed - v.latest.finished <= Window
    /\ v.amount # None /\ v.observed - CaptureAt(v) <= Window

\* DecisionCoverageSnapshotSchema: FRESH requires complete, reconciled facts.
CoverageAccepted(v) ==
    Fresh(v) => OrdersComplete(v) /\ v.latest.complete /\ v.amount # None

\* validateFrozenDecisionContext: the triggers of the legacy evaluation are
\* what the published figures say.  Exposure is not published when an order is
\* of unknown status or in a foreign currency; the latter also make the data
\* insufficient for the rate.
ContextAccepted(v) ==
    LET f == v.facts
    IN  /\ StopsByValue(f, Policy) => f.unknown = 0 /\ f.foreign = 0
        /\ StopsByRate(f, Policy) => f.foreign = 0

\* validatePrevious: the case compared to is not of the future.
PreviousAccepted(v) == v.previous # None => v.previous <= v.observed

\* DecisionMetricsSnapshotSchema: a period from the first order to the case.
PeriodAccepted(v) == v.facts.some => v.facts.first < v.observed

Accepted(v) ==
    /\ CoverageAccepted(v) /\ ContextAccepted(v)
    /\ PreviousAccepted(v) /\ PeriodAccepted(v)

\* createDecisionCase: one insert of what was frozen.
StoreCase(r) ==
    LET v == review[r]
    IN  /\ v.step = "decide" /\ Accepted(v) /\ Len(cases) < MaxCases
        /\ cases' = Append(cases,
              [observed |-> v.observed, known |-> v.known, at |-> CaptureAt(v),
               official |-> OfficialState(v), delivery |-> DeliveryState(v),
               decision |-> Rule(OfficialState(v), DeliveryState(v))])
        /\ review' = [review EXCEPT ![r] = Idle]
        /\ UNCHANGED <<clock, source, syncs>>

\* A schema or the frozen context refuses: the review throws.
Refuse(r) ==
    /\ review[r].step = "decide" /\ ~ Accepted(review[r])
    /\ review' = [review EXCEPT ![r].step = "refused"]
    /\ UNCHANGED <<clock, source, cases, syncs>>

Next ==
    \/ Tick
    \/ \E o \in Order, kind \in Kind, official \in BOOLEAN : WriteOrder(o, kind, official)
    \/ \E complete \in BOOLEAN : CompleteOrders(complete)
    \/ \E complete, reconciled \in BOOLEAN, amount \in Amount :
          Collect(complete, reconciled, amount)
    \/ Finalize
    \/ \E r \in Reviewer :
          \/ StartReview(r) \/ ReadFacts(r) \/ ReadOrdersRun(r) \/ ReadFinanceRun(r)
          \/ ReadProvenRun(r) \/ ReadPrevious(r) \/ ReadSummary(r) \/ StoreCase(r)
          \/ Refuse(r)

Spec == Init /\ [][Next]_vars

----------------------------------------------------------------------------
(* Properties                                                              *)

\* The latest known On Hold amount decides, whatever later finance syncs did:
\* a case evaluates it, against the capture the shop knew when the review began
\* or a newer one, unless there was none or the capture read is dated after the
\* case; and a case whose capture reaches the threshold is a PAUSE
\* (resolveVerifiedFinanceCaptureAt, evaluateOfficialOnHoldRule).
LatestKnownDecides ==
    \A i \in DOMAIN cases :
        LET c == cases[i]
        IN  IF c.official = "NOT_EVALUATED"
            THEN c.known = None \/ (c.at # None /\ c.at > c.observed)
            ELSE /\ c.at # None /\ (c.known # None => c.at >= c.known)
                 /\ IF captures[c.at] >= Policy.stopValue
                    THEN c.decision = "PAUSE"
                    ELSE c.decision = "PAUSE" => c.delivery = "TRIGGERED"
=============================================================================
