----------------------------- MODULE ShopHealth -----------------------------
(***************************************************************************)
(* The health of a shop over a period and the one before it                *)
(* (packages/domain/src/metrics/calculate.ts): the rates of its orders and *)
(* of its settlements, how much of the rows each is known of, and their    *)
(* trends, which HealthScore turns into a recommendation.  A report        *)
(* (apps/cli/src/metrics-service.ts) calculates them from the rows stored  *)
(* when it is asked for.                                                   *)
(*                                                                         *)
(* Rows of one kind differ in nothing the calculation looks at: the rows   *)
(* are the number of each kind.  Amounts are integers of some unit, of     *)
(* the shop's currency if `own'.  Rates are rounded down to 1 / Scale.     *)
(***************************************************************************)
EXTENDS HealthScore, FiniteSets, FiniteSetsExt

CONSTANTS
    OrderKind,       \* [period, status, own, total, refund, eligible]
    SettlementKind,  \* [period, order, state, own, expected, eligible, settled]
    MaxOrders, MaxSettlements  \* bounds: rows

VARIABLES orders, settlements  \* how many rows there are of each kind

vars == <<orders, settlements>>

Init ==
    /\ orders = [k \in OrderKind |-> 0]
    /\ settlements = [k \in SettlementKind |-> 0]

Count(rows, kinds) == MapThenSumSet(LAMBDA k : rows[k], kinds)
Amount(rows, kinds, field) == MapThenSumSet(LAMBDA k : rows[k] * k[field], kinds)

----------------------------------------------------------------------------
(* calculatePeriod                                                         *)

\* A rate, and a coverage: what is known of nothing is 0.
Divided(n, d) == IF d = 0 THEN Unknown ELSE (n * Scale) \div d
Covered(n, d) == IF d = 0 THEN 0 ELSE (n * Scale) \div d
Metric(n, d, known, all) == [value |-> Divided(n, d), coverage |-> Covered(known, all)]

Of(kinds, period) == {k \in kinds : k.period = period}
With(kinds, field) == {k \in kinds : k[field] # Unknown}

Fulfilled == {"DELIVERED", "COMPLETED", "PARTIALLY_REFUNDED", "REFUNDED"}
Refunded(k) ==
    \/ k.status \in {"PARTIALLY_REFUNDED", "REFUNDED"}
    \/ k.refund # Unknown /\ k.refund > 0

\* Orders count whatever their currency, sales in the shop's own alone.
Total(rows, period) == Count(rows, Of(OrderKind, period))
GrossValidSales(rows, period) ==
    Amount(rows, {k \in Of(OrderKind, period) : k.own /\ k.status # "CANCELED"}, "total")

DeliveryRate(rows, period) ==
    LET all == Of(OrderKind, period)
        eligible == {k \in all : k.eligible = TRUE}
    IN  Metric(Count(rows, {k \in eligible : k.status \in Fulfilled}), Count(rows, eligible),
               Count(rows, With(all, "eligible")), Count(rows, all))

CancellationRate(rows, period) ==
    LET all == Of(OrderKind, period)
    IN  [value |-> Divided(Count(rows, {k \in all : k.status = "CANCELED"}), Count(rows, all)),
         coverage |-> Scale]

RefundRate(rows, period) ==
    LET fulfilled == {k \in Of(OrderKind, period) : k.status \in Fulfilled}
    IN  Metric(Count(rows, {k \in fulfilled : Refunded(k)}), Count(rows, fulfilled),
               Count(rows, With(fulfilled, "refund")), Count(rows, fulfilled))

Own(rows, period) == {k \in Of(SettlementKind, period) : k.own /\ rows[k] > 0}
OnHold(kinds) == {k \in kinds : k.state = "ON_HOLD"}

\* Of the orders the settlements are linked to, each counted once.
OnHoldOrderRate(rows, period) ==
    LET linked == With(Own(rows, period), "order")
        Ids(kinds) == {k.order : k \in kinds}
    IN  Metric(Cardinality(Ids(OnHold(linked))), Cardinality(Ids(linked)),
               Count(rows, linked), Count(rows, Own(rows, period)))

OnHoldMoneyRate(rows, period) ==
    LET known == With(Own(rows, period), "expected")
    IN  Metric(Amount(rows, OnHold(known), "expected"), Amount(rows, known, "expected"),
               Count(rows, known), Count(rows, Own(rows, period)))

\* Settled of what was eligible, where both are known; but all that was eligible counts.
SettlementRate(rows, period) ==
    LET eligible == With(Own(rows, period), "eligible")
        known == With(eligible, "settled")
    IN  Metric(Amount(rows, known, "settled"), Amount(rows, eligible, "eligible"),
               Count(rows, known), Count(rows, Own(rows, period)))

PeriodMetrics(o, s, period) ==
    [deliveryRate |-> DeliveryRate(o, period), cancellationRate |-> CancellationRate(o, period),
     refundRate |-> RefundRate(o, period), onHoldOrderRate |-> OnHoldOrderRate(s, period),
     onHoldMoneyRate |-> OnHoldMoneyRate(s, period), settlementRate |-> SettlementRate(s, period)]

----------------------------------------------------------------------------
(* calculateMetrics                                                        *)

rateDelta(current, previous) ==
    IF current = Unknown \/ previous = Unknown THEN Unknown ELSE current - previous

relativeChange(current, previous) == Divided(current - previous, previous)

calculateMetrics(o, s) ==
    LET current == PeriodMetrics(o, s, "current")
        previous == PeriodMetrics(o, s, "previous")
    IN  [rate |-> [c \in Component |-> current[c].value],
         coverage |-> [c \in Component |-> current[c].coverage],
         total |-> Total(o, "current"),
         delta |-> [c \in Trend |-> rateDelta(current[c].value, previous[c].value)],
         growth |-> [orders |-> relativeChange(Total(o, "current"), Total(o, "previous")),
                     sales |-> relativeChange(GrossValidSales(o, "current"),
                                              GrossValidSales(o, "previous"))]]

Report == calculateMetrics(orders, settlements)

----------------------------------------------------------------------------
(* The rows of the shop, as its syncs store them.                          *)

StoreOrder(k) ==
    /\ Count(orders, OrderKind) < MaxOrders
    /\ orders' = [orders EXCEPT ![k] = @ + 1]
    /\ UNCHANGED settlements

StoreSettlement(k) ==
    /\ Count(settlements, SettlementKind) < MaxSettlements
    /\ settlements' = [settlements EXCEPT ![k] = @ + 1]
    /\ UNCHANGED orders

\* The row of an order is stored again, otherwise.
Turned(k, l) == [orders EXCEPT ![k] = @ - 1, ![l] = @ + 1]
UpdateOrder(k, l) ==
    /\ orders[k] > 0 /\ k # l /\ l.period = k.period
    /\ orders' = Turned(k, l)
    /\ UNCHANGED settlements

Next ==
    \/ \E k \in OrderKind : StoreOrder(k)
    \/ \E k \in SettlementKind : StoreSettlement(k)
    \/ \E k, l \in OrderKind : UpdateOrder(k, l)

Spec == Init /\ [][Next]_vars

----------------------------------------------------------------------------
(* Properties                                                              *)

\* A shop one of whose rates is worse, all else being equal, is never recommended
\* better (evaluateShopHealth); Desk_proofs proves it of any number of rates.
WorseIsNeverBetter ==
    LET m == Report
    IN  \A c \in Component, v \in Rate :
            LET w == [m EXCEPT !.rate[c] = v] IN Worse(w, m) => Rank(w) <= Rank(m)

\* A shop is not recommended better for having cancelled an order instead of delivering
\* it, whatever that does to its sales, its rates, what is known of them and their
\* trends - if no money of it went back: cancelling takes a refund, or one nobody
\* knows of, out of the refund rate too (calculateMetrics and evaluateShopHealth
\* together).
CancellingNeverHelps ==
    \A k, l \in OrderKind :
        (/\ orders[k] > 0 /\ k.period = "current" /\ k.status \in {"DELIVERED", "COMPLETED"}
         /\ k.refund = 0 /\ l = [k EXCEPT !.status = "CANCELED", !.eligible = l.eligible])
        => Rank(calculateMetrics(Turned(k, l), settlements)) <= Rank(Report)

\* Only a shop all of whose rates are known is recommended to continue or to scale
\* (evaluateShopHealth).
PraiseNeedsAllRates == Rank(Report) >= 3 => Known(Report) = Component

\* Together: what a report recommends errs on the side of caution.
AdviceIsCautious == WorseIsNeverBetter /\ CancellingNeverHelps /\ PraiseNeedsAllRates
=============================================================================
