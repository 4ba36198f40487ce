----------------------------- MODULE SellerOrders -----------------------------
(***************************************************************************)
(* Reading the orders of a shop from Seller Center (collectOrders): the    *)
(* page sends the first list request by itself; its answer is followed     *)
(* page by page through whichever cursor the source turns out to use, and  *)
(* the orders are believed only when their number is proved.  The source   *)
(* is another company's and may answer with any page at any time.          *)
(***************************************************************************)
EXTENDS Integers, FiniteSets

CONSTANTS
  Order,
  Cursor,
  MaxPages,       \* MAX_ORDER_PAGES
  MaxChanges,     \* bound on changes at the source
  None,           \* absent
  Empty           \* a cursor field without a cursor in it

VARIABLES
  listed, changes,              \* the source
  asked,                        \* the cursor field of the captured request
  pc,                           \* "capture", "fetch", "done" or "failed"
  locked,                       \* the cursor field the pages are followed by
  seenOrderIds, seenCursors, expectedTotal, pages,
  batch                         \* None, or the orders yielded as complete

source == <<listed, changes>>
paging == <<locked, seenOrderIds, seenCursors, expectedTotal, pages>>
vars == <<source, asked, pc, paging, batch>>

Field == {"cursor_token", "search_next_cursor"}
Total == 0..Cardinality(Order)

\* A page as it comes from the source: has_more may be missing.
Page == [orders : SUBSET Order, total : Total \cup {None},
         more : BOOLEAN \cup {None}, next : [Field -> Cursor \cup {None, Empty}]]

Init ==
  /\ listed \in SUBSET Order
  /\ changes = 0
  /\ asked \in Field \cup {None}
  /\ pc = "capture"
  /\ locked = None
  /\ seenOrderIds = {}
  /\ seenCursors = {}
  /\ expectedTotal = None
  /\ pages = 0
  /\ batch = None

OrdersChange ==
  /\ changes < MaxChanges
  /\ changes' = changes + 1
  /\ \E L \in SUBSET Order : L # listed /\ listed' = L
  /\ UNCHANGED <<asked, pc, paging, batch>>

\* Orders of the present list, with its size if the source tells it.
Answers == {p \in Page : p.orders \subseteq listed
                           /\ p.total \in {Cardinality(listed), None}}

-----------------------------------------------------------------------------
\* parseOrderPage: without has_more a page is the last one only if it has no
\* cursor field at all.
HasMore(p) ==
  IF p.more # None THEN (IF p.more THEN "yes" ELSE "no")
  ELSE IF \A f \in Field : p.next[f] = None THEN "no" ELSE "unknown"

\* detectLockedProtocol: the request's own field, else the first page's cursor.
Detect(p) ==
  IF asked # None THEN asked
  ELSE IF p.next["cursor_token"] \in Cursor THEN "cursor_token"
  ELSE IF p.next["search_next_cursor"] \in Cursor THEN "search_next_cursor"
  ELSE None

AtLeastExpected(S, total) == total = None \/ Cardinality(S) >= total     \* mutant

\* resolveReconciliation is MATCH: no total is no proof.
Reconciled(S, total) == total # None /\ Cardinality(S) = total

Proved == Reconciled(seenOrderIds', expectedTotal')

Finish ==
  IF Proved THEN pc' = "done" /\ batch' = seenOrderIds'
            ELSE pc' = "failed" /\ UNCHANGED batch

\* Nothing is believed of a list that was not followed to its end: an unknown
\* has_more, no cursor, a cursor seen before, an empty page with more to come,
\* or the page limit.
TakePage(p) ==
  LET field == IF locked = None THEN Detect(p) ELSE locked
      cursor == IF field = None THEN None ELSE p.next[field]
  IN /\ pages' = pages + 1
     /\ locked' = field
     /\ seenOrderIds' = seenOrderIds \cup p.orders
     /\ expectedTotal' = (IF expectedTotal = None THEN p.total ELSE expectedTotal)
     /\ CASE HasMore(p) = "no" ->
               Finish /\ UNCHANGED seenCursors
          [] HasMore(p) = "yes" /\ cursor \in Cursor \ seenCursors ->
               /\ seenCursors' = seenCursors \cup {cursor}
               /\ UNCHANGED batch
               /\ IF p.orders = {} \/ pages + 1 >= MaxPages
                  THEN pc' = "failed" ELSE pc' = "fetch"
          [] OTHER ->
               pc' = "failed" /\ UNCHANGED <<seenCursors, batch>>

\* captureResponse: the first list response of the page.
FirstPage ==
  /\ pc = "capture"
  /\ \E p \in Answers : TakePage(p)
  /\ UNCHANGED <<source, asked>>

\* fetchJsonInPage with the captured request and the next cursor.
PageFetched ==
  /\ pc = "fetch"
  /\ \E p \in Answers : TakePage(p)
  /\ UNCHANGED <<source, asked>>

\* The response deadline of the first page, a rejected or unparsable answer, a
\* failed fetch, a page that asks for a login.
Breaks ==
  /\ pc \in {"capture", "fetch"}
  /\ pc' = "failed"
  /\ UNCHANGED <<source, asked, paging, batch>>

Next == \/ FirstPage \/ PageFetched \/ Breaks \/ OrdersChange

Spec == Init /\ [][Next]_vars

-----------------------------------------------------------------------------
\* Orders are yielded as complete only if none is missing: while the list stays as
\* it is they are exactly the list, whatever pages, cursors, totals and has_more
\* flags the source answers with (collectOrderPages with the three checks of
\* collectOrders).
CompleteOrdersAreAll == (batch # None /\ changes = 0) => batch = listed
=============================================================================
