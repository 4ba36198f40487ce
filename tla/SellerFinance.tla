---------------------------- MODULE SellerFinance ----------------------------
(***************************************************************************)
(* Reading the On hold finance of a shop from Seller Center                *)
(* (collectFinancials): the page sends a statistic and the first page of   *)
(* rows by itself, or when it is scrolled to them; the other pages are     *)
(* fetched one by one; then the rows are reconciled to the statistic.  All *)
(* of it under one deadline, while rows come and go at the source and any  *)
(* answer of the browser may be late or never come.                        *)
(***************************************************************************)
EXTENDS Integers, FiniteSets, FiniteSetsExt

CONSTANTS
  Row,            \* settlement rows
  Amount,         \* [Row -> Int]
  Reason,         \* [Row -> reasons money is on hold for]
  PageSize,
  Budget,         \* ticks from the start to the deadline
  Natural,        \* ticks the page is waited for before it is scrolled
  MaxSteps,       \* FINANCE_SWEEP_MAX_STEPS
  MaxPages,       \* MAX_FINANCE_PAGES
  MaxChanges,     \* bound on changes at the source
  None, Bad       \* nothing was received; an answer that does not validate

\* asOf is history: the number of changes at the source when an answer was sent.
VARIABLES
  held, changes,            \* the source
  stat, list,               \* the first matching responses captured
  pc, waited, steps, left,  \* progress of the reading and ticks left
  rows, total, pages,       \* what the pages gave so far
  batch                     \* None, or the batch yielded

source == <<held, changes>>
captured == <<stat, list>>
paging == <<rows, total, pages>>
vars == <<source, captured, pc, waited, steps, left, paging, batch>>

Init ==
  /\ held \in SUBSET Row
  /\ changes = 0
  /\ stat = None
  /\ list = None
  /\ pc = "natural"
  /\ waited = 0
  /\ steps = 0
  /\ left = Budget
  /\ rows = {}
  /\ total = None
  /\ pages = 0
  /\ batch = None

Fail == pc' = "failed" /\ UNCHANGED batch

-----------------------------------------------------------------------------
(* The page and the clock.                                                  *)

RowsChange ==
  /\ changes < MaxChanges
  /\ changes' = changes + 1
  /\ \E H \in SUBSET Row : H # held /\ held' = H
  /\ UNCHANGED <<captured, pc, waited, steps, left, paging, batch>>

Listening == pc \in {"natural", "sweep", "scroll", "bottom", "last"}

\* Only the first response of each kind is ever used.
StatArrives ==
  /\ Listening
  /\ stat = None
  /\ stat' \in {[rows |-> held, asOf |-> changes], Bad}
  /\ UNCHANGED <<source, list, pc, waited, steps, left, paging, batch>>

Least(a, b) == IF a < b THEN a ELSE b

PageFrom(S) ==
  {[rows |-> P, total |-> Cardinality(held), more |-> P # S, asOf |-> changes] :
     P \in {Q \in SUBSET S : Cardinality(Q) = Least(PageSize, Cardinality(S))}}

ListArrives ==
  /\ Listening
  /\ list = None
  /\ list' \in PageFrom(held) \cup {Bad}
  /\ UNCHANGED <<source, stat, pc, waited, steps, left, paging, batch>>

Tick ==
  /\ left > 0
  /\ left' = left - 1
  /\ waited' = IF pc = "natural" /\ waited < Natural THEN waited + 1 ELSE waited
  /\ UNCHANGED <<source, captured, pc, steps, paging, batch>>

-----------------------------------------------------------------------------
(* resolveFinanceResponses.                                                 *)

Observed == stat # None /\ list # None

\* Both bodies are read and proved valid in turn; past the deadline, or with one
\* of them missing, there is nothing yet.
Verdict ==
  IF left = 0 \/ stat = None THEN "nothing"
  ELSE IF stat = Bad THEN "bad"
  ELSE IF list = None THEN "nothing"
  ELSE IF list = Bad THEN "bad" ELSE "good"

\* Valid bodies end the waiting, bad data ends the reading.
Materialize(otherwise) ==
  \/ Verdict = "good" /\ pc' = "parse" /\ UNCHANGED batch
  \/ Verdict = "bad" /\ Fail
  \/ Verdict = "nothing" /\ pc' = otherwise /\ UNCHANGED batch

EndNaturalWait ==
  /\ pc = "natural"
  /\ \/ Observed /\ Materialize(IF left > 0 THEN "sweep" ELSE "last")
     \/ ~Observed /\ waited = Natural /\ UNCHANGED batch
        /\ pc' = (IF left > 0 THEN "sweep" ELSE "last")
  /\ UNCHANGED <<source, captured, waited, steps, left, paging>>

\* One more step down the page; past the cap, or at its end, its bottom once.
ScrollStep ==
  /\ pc = "sweep"
  /\ IF left > 0
     THEN /\ steps' = steps + 1
          /\ IF steps >= MaxSteps THEN pc' = "bottom" ELSE pc' \in {"scroll", "bottom"}
     ELSE pc' = "last" /\ UNCHANGED steps
  /\ UNCHANGED <<source, captured, waited, left, paging, batch>>

\* A page in the background may never answer a scroll step.
ScrollAnswered ==
  /\ pc \in {"scroll", "bottom"}
  /\ Materialize(IF pc = "scroll" THEN "sweep" ELSE "last")
  /\ UNCHANGED <<source, captured, waited, steps, left, paging>>

LastWait ==
  /\ pc = "last"
  /\ \/ Observed /\ left > 0 /\ Materialize("last")
     \/ left = 0 /\ Fail
  /\ UNCHANGED <<source, captured, waited, steps, left, paging>>

-----------------------------------------------------------------------------
(* collectFinanceStatementPages and assertOnHoldReconciled.                 *)

SumOf(S) == MapThenSumSet(LAMBDA r : Amount[r], S)

\* Rows S reconcile to a statistic over rows T: in total and reason by reason.
ReconcilesTo(S, T) ==
  /\ SumOf(S) = SumOf(T)
  /\ \A reason \in {Reason[r] : r \in Row} :
       SumOf({r \in S : Reason[r] = reason}) = SumOf({r \in T : Reason[r] = reason})

\* A statistic without an amount or a breakdown reconciles to nothing.
Yield(S) ==
  /\ pc' = "done"
  /\ batch' = IF stat.rows # {} /\ ReconcilesTo(S, stat.rows)
              THEN [rows |-> S, reconciled |-> TRUE, asOf |-> changes]
              ELSE [rows |-> {}, reconciled |-> FALSE, asOf |-> changes]

TakePageByCount(p) ==                       \* mutant: counts rows, not their ids
  LET expected == IF total = None THEN p.total ELSE total
      all == rows \cup p.rows
  IN /\ pages' = pages + 1
     /\ total' = expected
     /\ rows' = all
     /\ IF p.total # expected THEN Fail
        ELSE IF ~p.more
             THEN IF pages * PageSize + Cardinality(p.rows) = expected
                  THEN Yield(all) ELSE Fail
             ELSE IF p.rows = {} \/ pages + 1 >= MaxPages THEN Fail
                  ELSE pc' = "fetch" /\ UNCHANGED batch

\* A page that changes the total, repeats a row, is empty although more follow, or
\* is the last one with rows missing ends the reading.
TakePage(p) ==
  LET expected == IF total = None THEN p.total ELSE total
      all == rows \cup p.rows
  IN /\ pages' = pages + 1
     /\ total' = expected
     /\ rows' = all
     /\ IF p.total # expected \/ p.rows \cap rows # {} THEN Fail
        ELSE IF ~p.more
             THEN IF Cardinality(all) = expected THEN Yield(all) ELSE Fail
             ELSE IF p.rows = {} \/ pages + 1 >= MaxPages THEN Fail
                  ELSE pc' = "fetch" /\ UNCHANGED batch

FirstPage ==
  /\ pc = "parse"
  /\ TakePage(list)
  /\ UNCHANGED <<source, captured, waited, steps, left>>

\* The page at the next offset of the list as it is now, in whatever order; the
\* pages before it were full.
PageFetched ==
  /\ pc = "fetch"
  /\ left > 0
  /\ LET rest == Cardinality(held) - pages * PageSize
         size == IF rest < 0 THEN 0 ELSE Least(PageSize, rest)
     IN \E P \in {Q \in SUBSET held : Cardinality(Q) = size} :
          TakePage([rows |-> P, total |-> Cardinality(held), more |-> rest > PageSize,
                    asOf |-> changes])
  /\ UNCHANGED <<source, captured, waited, steps, left>>

NeverExpires == FALSE                                                    \* mutant

\* The deadline races every call into the page.
Expires == left = 0 /\ pc \in {"scroll", "bottom", "fetch"}

DeadlinePasses ==
  /\ Expires
  /\ Fail
  /\ UNCHANGED <<source, captured, waited, steps, left, paging>>

\* The browser is gone, the page asks for a login, or an answer does not parse.
Breaks ==
  /\ pc \notin {"done", "failed"}
  /\ Fail
  /\ UNCHANGED <<source, captured, waited, steps, left, paging>>

Own == \/ EndNaturalWait \/ ScrollStep \/ LastWait \/ FirstPage \/ DeadlinePasses

Next ==
  \/ Own \/ ScrollAnswered \/ PageFetched \/ Breaks
  \/ RowsChange \/ StatArrives \/ ListArrives \/ Tick

Spec == Init /\ [][Next]_vars

\* Timers fire and the reader's own steps run; the browser need not answer.
FairSpec == Spec /\ WF_vars(Tick) /\ WF_vars(Own)

-----------------------------------------------------------------------------
\* A batch that says it is reconciled is every row the official amount was
\* computed from, also when amounts cancel so that sums do not miss one: unless
\* rows came or went between the first answer used and the last, which the sums
\* by reason need not show (collectFinanceStatementPages and
\* assertOnHoldReconciled together).
ReconciledIsWhole ==
  (batch # None /\ batch.reconciled) =>
    \/ batch.rows = stat.rows
    \/ ~(stat.asOf = batch.asOf /\ list.asOf = batch.asOf)

\* The reading of a page that never answers ends, by the one deadline all of its
\* waits, scroll steps and fetches share.
ReadingEnds == <>(pc \in {"done", "failed"})
=============================================================================
