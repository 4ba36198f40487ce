------------------------------ MODULE MCReads ------------------------------
(***************************************************************************)
(* Instances of what is read from Seller Center and COTIK for TLC, one per *)
(* scenario:                                                               *)
(*   shop      ShopSync with the constants of the cfg; faults hit calls    *)
(*             that read one batch, calls that read two meet none; orders  *)
(*             change when a batch of them was read and is not stored yet; *)
(*   binding   CotikIngestion: a caller, two orders, a shop COTIK may list *)
(*             by another id, COTIK's clock on time or an instant behind,  *)
(*             three instants, of which the last without a fault, while    *)
(*             the shop is bound by its first id, its list is not          *)
(*             refreshed and no order is updated at it;                    *)
(*   callers   CotikIngestion: two callers, one order, no overlap, no      *)
(*             fault;                                                      *)
(*   pages     SellerOrders: three orders, two cursors;                    *)
(*   payouts   SupplementaryFinance: two callers, two statements and a     *)
(*             payout, one change at COTIK or one fault, a binding that    *)
(*             changes when a call is about to read it.                    *)
(***************************************************************************)
EXTENDS ShopSync, TLC

CONSTANTS w1, w2, a1, a2, o1, o2, o3, p1, p2, k1, k2, NoCaller, None, Empty

VARIABLES          \* of CotikIngestion
  binding, held, updated, now, shopLock, step, call, found, bound, since, origin,
  start, expected, got, pages, page, failures

VARIABLES          \* of SellerOrders
  listed, changes, field, at, locked, seenOrderIds, seenCursors, expectedTotal,
  taken, orders

VARIABLES          \* of SupplementaryFinance
  able, offered, content, changed, entries, reads, readLock, reader, listing, end,
  size, met, sheet, result, asOf, apart, errors

VARIABLE scenario

Binding == INSTANCE CotikIngestion WITH
  Caller <- {w1}, Order <- {a1, a2}, CotikShop <- {p1, p2}, Home <- a1 :> p1 @@ a2 :> p1,
  PageSize <- 1, Overlap <- 1, Skew <- 1, MaxClock <- 3, MaxFaults <- 1,
  row <- held, clock <- now, lock <- shopLock, pc <- step, asked <- call, seen <- got,
  faults <- failures

Callers == INSTANCE CotikIngestion WITH
  Caller <- {w1, w2}, Order <- {o1}, CotikShop <- {p1}, Home <- o1 :> p1,
  PageSize <- 1, Overlap <- 0, Skew <- 0, MaxClock <- 2, MaxFaults <- 0,
  row <- held, clock <- now, lock <- shopLock, pc <- step, asked <- call, seen <- got,
  faults <- failures

Pages == INSTANCE SellerOrders WITH
  Order <- {o1, o2, o3}, Cursor <- {k1, k2}, MaxPages <- 3, MaxChanges <- 1,
  asked <- field, pc <- at, pages <- taken, batch <- orders

Payouts == INSTANCE SupplementaryFinance WITH
  Caller <- {w1, w2}, Statement <- {o1, o2}, Payment <- {o3}, PageSize <- 1,
  MaxRuns <- 2, MaxChanges <- 1, MaxFaults <- 1,
  listed <- offered, changes <- changed, stored <- entries, runs <- reads,
  lock <- readLock, pc <- reader, kind <- listing, expected <- size, seen <- met,
  page <- sheet, faults <- errors

bindingVars ==
  <<binding, held, updated, now, shopLock, step, call, found, bound, since, origin,
    start, expected, got, pages, page, failures>>
pagesVars ==
  <<listed, changes, field, at, locked, seenOrderIds, seenCursors, expectedTotal,
    taken, orders>>

payoutVars ==
  <<able, offered, content, changed, entries, reads, readLock, reader, listing, end,
    size, met, sheet, result, asOf, apart, errors>>

\* The modules of the other scenarios stand in a state of theirs.
NoPages == listed = {} /\ field = None /\ Pages!Init
NoPayouts == able = FALSE /\ offered = {} /\ Payouts!Init

MCInit ==
  /\ Init
  /\ \/ scenario \in {"shop", "callers"} /\ Callers!Init /\ NoPages /\ NoPayouts
     \/ scenario = "binding" /\ Binding!Init /\ NoPages /\ NoPayouts
     \/ scenario = "pages" /\ Callers!Init /\ Pages!Init /\ NoPayouts
     \/ scenario = "payouts" /\ Callers!Init /\ NoPages /\ Payouts!Init

MCNext ==
  /\ UNCHANGED scenario
  /\ \/ /\ scenario = "shop"
        /\ Next
        /\ \A w \in Worker : batches'[w] = 2 => faults' = 0
        /\ source' # source => \E w \in Worker : asked[w] = "orders" /\ pc[w] = "write"
        /\ UNCHANGED <<bindingVars, pagesVars, payoutVars>>
     \/ /\ \/ /\ scenario = "binding"
              /\ Binding!Next
              /\ \A o \in {a1, a2} : updated'[o] <= now'
              /\ now' <= 2 \/ (/\ failures' = 0 /\ binding'.enabled /\ binding'.shop = p1
                              /\ call'[w1] # "relist" /\ updated'[a1] # 3 /\ updated'[a2] # 3)
           \/ scenario = "callers" /\ Callers!Next
        /\ UNCHANGED <<vars, pagesVars, payoutVars>>
     \/ scenario = "pages" /\ Pages!Next /\ UNCHANGED <<vars, bindingVars, payoutVars>>
     \/ /\ scenario = "payouts"
        /\ Payouts!Next
        /\ errors' = 0 \/ changed'.list + changed'.record = 0
        /\ able' = able \/ \E c \in Worker : reader[c] = "binding"
        /\ UNCHANGED <<vars, bindingVars, pagesVars>>

allVars == <<vars, bindingVars, pagesVars, payoutVars, scenario>>
MCSpec == MCInit /\ [][MCNext]_allVars

\* Two workers or callers, and two orders of a shop bound to COTIK, differ in
\* nothing but their names.
Alike == Permutations({w1, w2}) \cup Permutations({a1, a2})

-----------------------------------------------------------------------------
(* CapturesAreProven, RefreshIsProven, SyncedIsEarned and PauseIsExplained  *)
(* are ShopSync's own. The others, in the scenarios they are about:         *)

\* The checkpoint of a binding never passes an order that is not stored
\* (order-ingestion.ts).
CheckpointCovers ==
  /\ scenario = "binding" => Binding!CheckpointCovers
  /\ scenario = "callers" => Callers!CheckpointCovers

\* What is called complete is all there is: the orders Seller Center lists, and the
\* statements and payouts COTIK lists (order-pagination.ts, supplementary-finance.ts).
CompleteMeansAll ==
  /\ scenario = "pages" => Pages!CompleteOrdersAreAll
  /\ scenario = "payouts" => Payouts!SucceededStoredAll
=============================================================================
