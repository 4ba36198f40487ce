--------------------------- MODULE CotikIngestion ---------------------------
(***************************************************************************)
(* The binding-driven COTIK order sync of one shop: runCotikOrdersSync and *)
(* ingestCotikOrders read the orders of the COTIK shop the binding names,  *)
(* page by page, and commit one checkpoint when every page was stored.     *)
(* Beside it: the dashboard's routes, which write the binding back, and    *)
(* the CLI, which binds and unbinds.                                       *)
(*                                                                         *)
(* An order's record is identified by its update time.  COTIK lists an     *)
(* update at once, in any order it likes, and dates it by a clock of its   *)
(* own: an order may enter the window of a run that is under way, or leave *)
(* it.                                                                     *)
(***************************************************************************)
EXTENDS Integers, FiniteSets

CONSTANTS
  Caller,         \* processes: dashboard routes and account syncs
  Order,
  CotikShop,      \* ids COTIK knows the shop, or another one, by
  Home,           \* [Order -> CotikShop]
  PageSize,
  Overlap,        \* INCREMENTAL_OVERLAP_MS, in ticks
  Skew,           \* how far COTIK's clock may be from the process's, in ticks
  MaxClock,       \* bound on the clock
  MaxFaults,      \* bound on crashes, failed requests and statements
  NoCaller, None

\* The overlap is there "to absorb clock skew": what the proofs assume of it.
OverlapCoversSkew == Overlap \in Nat /\ Skew \in Nat /\ Skew <= Overlap

Instant == 0..MaxClock
Checkpoint == Instant \cup {None}

VARIABLES
  binding,        \* the COTIK row of shop_provider_bindings
  row,            \* update time of the stored record of an order, 0 if absent
  updated,        \* COTIK: the instant an order was last updated at, 0 before
  clock,
  lock,           \* the session lock of the shop
  pc, asked, found, bound, since, origin, start, expected, seen, pages, page,
  faults

locals == <<asked, found, bound, since, origin, start, expected, seen, pages, page>>
vars == <<binding, row, updated, clock, lock, pc, locals, faults>>

\* from is history: the COTIK shop whose orders were read, from a backfill on, up
\* to the checkpoint; None if the runs before it read another one's, or an order
\* entered the window of one of them between its pages.
Binding == [shop : CotikShop, enabled : BOOLEAN, checkpoint : Checkpoint,
            from : CotikShop \cup {None}]
Pages == [S \in SUBSET Order |-> [S -> Instant]]

Nothing == [o \in {} |-> 0]
FirstBinding(p) == [shop |-> p, enabled |-> TRUE, checkpoint |-> None, from |-> p]
AnyShop == CHOOSE p \in CotikShop : TRUE

Init ==
  /\ binding = FirstBinding(AnyShop)
  /\ row = [o \in Order |-> 0]
  /\ updated = [o \in Order |-> 0]
  /\ clock = 1
  /\ lock = NoCaller
  /\ pc = [c \in Caller |-> "idle"]
  /\ asked = [c \in Caller |-> "account"]
  /\ found = [c \in Caller |-> FirstBinding(AnyShop)]
  /\ bound = [c \in Caller |-> AnyShop]
  /\ since = [c \in Caller |-> None]
  /\ origin = [c \in Caller |-> None]
  /\ start = [c \in Caller |-> 0]
  /\ expected = [c \in Caller |-> None]
  /\ seen = [c \in Caller |-> {}]
  /\ pages = [c \in Caller |-> 0]
  /\ page = [c \in Caller |-> Nothing]
  /\ faults = 0

Goto(c, label) == pc' = [pc EXCEPT ![c] = label]

-----------------------------------------------------------------------------
(* One call of a route or of the account sync.                              *)

\* The dashboard's route reads the binding before anything is locked and keeps
\* it; refreshing the list of shops reads it to write it back.
Call(c) ==
  /\ pc[c] = "idle"
  /\ \E kind \in {"dashboard", "account", "relist"} :
       /\ asked' = [asked EXCEPT ![c] = kind]
       /\ Goto(c, IF kind = "relist" THEN "relist" ELSE "lock")
       /\ kind # "account" => found' = [found EXCEPT ![c] = binding]
       /\ kind = "account" => UNCHANGED found
  /\ UNCHANGED <<binding, row, updated, clock, lock, bound, since, origin, start, expected,
                 seen, pages, page, faults>>

\* The lock is free, or the call is SKIPPED as busy.
TryLock(c) ==
  /\ pc[c] = "lock"
  /\ \/ lock = NoCaller /\ lock' = c /\ Goto(c, "binding")
     \/ lock # NoCaller /\ Goto(c, "unlock") /\ UNCHANGED lock
  /\ UNCHANGED <<binding, row, updated, clock, locals, faults>>

Since(checkpoint) ==
  IF checkpoint = None THEN None
  ELSE IF checkpoint > Overlap THEN checkpoint - Overlap ELSE 0

\* A disabled binding is SKIPPED and nothing is fetched.
FindEnabledBinding(c) ==
  /\ pc[c] = "binding"
  /\ IF binding.enabled
     THEN /\ bound' = [bound EXCEPT ![c] = binding.shop]
          /\ since' = [since EXCEPT ![c] = Since(binding.checkpoint)]
          /\ origin' = [origin EXCEPT ![c] =
                         IF binding.checkpoint = None THEN binding.shop
                         ELSE binding.from]
          /\ start' = [start EXCEPT ![c] = clock]
          /\ Goto(c, "fetch")
     ELSE Goto(c, "unlock") /\ UNCHANGED <<bound, since, origin, start>>
  /\ UNCHANGED <<binding, row, updated, clock, lock, asked, found, expected, seen,
                 pages, page, faults>>

\* What COTIK lists now: without a window all orders of its shop, else those
\* last updated between since and the start of the run.
Lists(c, o, date) ==
  /\ Home[o] = bound[c]
  /\ date # 0
  /\ since[c] = None \/ date \in since[c]..start[c]
Listed(c) == {o \in Order : Lists(c, o, updated[o])}

MinOf(a, b) == IF a < b THEN a ELSE b

SameTotal(c, total) == expected[c] \in {None, total}

\* A page is as long as the list allows; its rows are any, the order of the list
\* may have changed since the page before.  A changed total ends the run.
FetchPage(c) ==
  /\ pc[c] = "fetch"
  /\ LET list == Listed(c)
         total == Cardinality(list)
         left == total - pages[c] * PageSize
         size == IF left < 0 THEN 0 ELSE MinOf(PageSize, left)
     IN /\ expected' = [expected EXCEPT ![c] = IF @ = None THEN total ELSE @]
        /\ IF SameTotal(c, total)
           THEN \E S \in SUBSET list :
                  /\ Cardinality(S) = size
                  /\ page' = [page EXCEPT ![c] = [o \in S |-> updated[o]]]
                  /\ Goto(c, "persist")
           ELSE page' = page /\ Goto(c, "unlock")
  /\ pages' = [pages EXCEPT ![c] = @ + 1]
  /\ UNCHANGED <<binding, row, updated, clock, lock, asked, found, bound, since,
                 origin, start, seen, faults>>

\* Orders not seen on an earlier page are upserted in one transaction; a newer
\* stored record stands.
PersistOrders(c) ==
  /\ pc[c] = "persist"
  /\ row' = [o \in Order |->
               IF o \in DOMAIN page[c] \ seen[c] /\ page[c][o] >= row[o]
               THEN page[c][o] ELSE row[o]]
  /\ Goto(c, "check")
  /\ UNCHANGED <<binding, updated, clock, lock, locals, faults>>

Delivered(c) == seen[c] \cup DOMAIN page[c]

\* The page brought nothing new although orders are missing, or it was the last
\* one and they still are: the run ends with an error.
NoProgress(c) ==
  /\ DOMAIN page[c] \subseteq seen[c]
  /\ Cardinality(seen[c]) < expected[c]
LastPage(c) ==
  \/ Cardinality(DOMAIN page[c]) < PageSize
  \/ Cardinality(Delivered(c)) >= expected[c]

Complete(c) == Cardinality(Delivered(c)) = expected[c]

CheckPage(c) ==
  /\ pc[c] = "check"
  /\ seen' = [seen EXCEPT ![c] = Delivered(c)]
  /\ page' = [page EXCEPT ![c] = Nothing]
  /\ Goto(c, IF NoProgress(c) THEN "unlock"
             ELSE IF ~LastPage(c) THEN "fetch"
             ELSE IF Complete(c) THEN "save" ELSE "unlock")
  /\ UNCHANGED <<binding, row, updated, clock, lock, asked, found, bound, since,
                 origin, start, expected, pages, faults>>

CheckpointAtEnd(c) == clock                                              \* mutant

CheckpointOf(c) == start[c]

\* One statement on an enabled binding, whatever COTIK shop it names by now; a
\* binding disabled meanwhile fails the run.
SaveCheckpoint(c) ==
  /\ pc[c] = "save"
  /\ IF binding.enabled
     THEN binding' = [binding EXCEPT !.checkpoint = CheckpointOf(c),
                                     !.from = IF origin[c] = bound[c]
                                              THEN bound[c] ELSE None]
     ELSE UNCHANGED binding
  /\ Goto(c, "unlock")
  /\ UNCHANGED <<row, updated, clock, lock, locals, faults>>

Forget(c) ==
  /\ asked' = [asked EXCEPT ![c] = "account"]
  /\ found' = [found EXCEPT ![c] = FirstBinding(AnyShop)]

Reset(c) ==
  /\ bound' = [bound EXCEPT ![c] = AnyShop]
  /\ since' = [since EXCEPT ![c] = None]
  /\ origin' = [origin EXCEPT ![c] = None]
  /\ start' = [start EXCEPT ![c] = 0]
  /\ expected' = [expected EXCEPT ![c] = None]
  /\ seen' = [seen EXCEPT ![c] = {}]
  /\ pages' = [pages EXCEPT ![c] = 0]
  /\ page' = [page EXCEPT ![c] = Nothing]

Released(c) == lock' = IF lock = c THEN NoCaller ELSE lock

\* Success, failure and SKIPPED alike: the dashboard goes on to the analytic
\* data of the shop and writes the binding back if COTIK lists the shop there.
Unlock(c) ==
  /\ pc[c] = "unlock"
  /\ Released(c)
  /\ Reset(c)
  /\ \/ Goto(c, "idle") /\ Forget(c)
     \/ asked[c] = "dashboard" /\ Goto(c, "writeBack") /\ UNCHANGED <<asked, found>>
  /\ UNCHANGED <<binding, row, updated, clock, faults>>

\* The binding as the route found it, checkpoint included, enabled again; the
\* shop COTIK lists is the bound one or one whose note names the profile.
WriteBack(c) ==
  /\ pc[c] = "writeBack"
  /\ \E p \in CotikShop : binding' = [found[c] EXCEPT !.enabled = TRUE, !.shop = p]
  /\ Goto(c, "idle")
  /\ Reset(c) /\ Forget(c)
  /\ UNCHANGED <<row, updated, clock, lock, faults>>

\* Refreshing the list binds the shop to whatever id COTIK now lists it by, with
\* the checkpoint of the enabled binding read just before.
Relist(c) ==
  /\ pc[c] = "relist"
  /\ \E p \in CotikShop :
       binding' = IF found[c].enabled THEN [found[c] EXCEPT !.shop = p]
                  ELSE FirstBinding(p)
  /\ Goto(c, "idle")
  /\ Reset(c) /\ Forget(c)
  /\ UNCHANGED <<row, updated, clock, lock, faults>>

-----------------------------------------------------------------------------
(* What happens beside it.                                                  *)

Bind(p) ==
  /\ binding' = FirstBinding(p)
  /\ UNCHANGED <<row, updated, clock, lock, pc, locals, faults>>

Unbind ==
  /\ binding.enabled
  /\ binding' = [binding EXCEPT !.enabled = FALSE]
  /\ UNCHANGED <<row, updated, clock, lock, pc, locals, faults>>

\* A run knows the length of its list from its first page on. Whose window o then
\* enters has its history spoilt.
Enters(c, o, date) ==
  /\ expected[c] # None /\ since[c] # None
  /\ Lists(c, o, date) /\ ~Lists(c, o, updated[o])

\* COTIK's clock dates the update, later than the one before.
OrderUpdated(o) ==
  \E date \in (updated[o] + 1)..MaxClock :
    /\ clock <= date + Skew /\ date <= clock + Skew
    /\ updated' = [updated EXCEPT ![o] = date]
    /\ origin' = [c \in Caller |-> IF Enters(c, o, date) THEN None ELSE origin[c]]
    /\ UNCHANGED <<binding, row, clock, lock, pc, asked, found, bound, since, start,
                   expected, seen, pages, page, faults>>

Tick ==
  /\ clock < MaxClock
  /\ clock' = clock + 1
  /\ UNCHANGED <<binding, row, updated, lock, pc, locals, faults>>

\* A request or a statement throws, or an order does not normalize: the run ends.
Throws(c) ==
  /\ faults < MaxFaults
  /\ faults' = faults + 1
  /\ pc[c] \in {"binding", "fetch", "persist", "save"}
  /\ Goto(c, "unlock")
  /\ UNCHANGED <<binding, row, updated, clock, lock, locals>>

Crash(c) ==
  /\ faults < MaxFaults
  /\ faults' = faults + 1
  /\ pc[c] # "idle"
  /\ Goto(c, "idle")
  /\ Released(c)
  /\ Reset(c) /\ Forget(c)
  /\ UNCHANGED <<binding, row, updated, clock>>

\* The reserved connection dies with its lock, the run goes on.
LoseLockSession(c) ==
  /\ faults < MaxFaults
  /\ faults' = faults + 1
  /\ lock = c
  /\ lock' = NoCaller
  /\ UNCHANGED <<binding, row, updated, clock, pc, locals>>

Step(c) ==
  \/ Call(c) \/ TryLock(c) \/ FindEnabledBinding(c) \/ FetchPage(c)
  \/ PersistOrders(c) \/ CheckPage(c) \/ SaveCheckpoint(c) \/ Unlock(c)
  \/ WriteBack(c) \/ Relist(c)

Next ==
  \/ \E c \in Caller : Step(c) \/ Throws(c) \/ Crash(c) \/ LoseLockSession(c)
  \/ \E p \in CotikShop : Bind(p)
  \/ Unbind
  \/ \E o \in Order : OrderUpdated(o)
  \/ Tick

Spec == Init /\ [][Next]_vars

-----------------------------------------------------------------------------
\* The next window leaves nothing out: whatever the pages returned, failed runs,
\* crashes, lost locks and callers that write an older checkpoint back, an order
\* last updated before it is stored as COTIK has it - while the binding names the
\* COTIK shop the checkpoint was read from, and no order entered the window of
\* a run between its pages (ingestCotikOrders: totals, duplicates, the watermark
\* at the run's start and the overlap, which COTIK's clock may be off by).
CheckpointCovers ==
  (binding.checkpoint # None /\ binding.from = binding.shop) =>
    \A o \in Order :
      (Home[o] = binding.shop /\ updated[o] < Since(binding.checkpoint))
        => row[o] = updated[o]

\* The overlap alone does it, "to absorb clock skew and mid-run resorting"
\* (order-ingestion.ts), for a shop that is never bound by another id.
OverlapAbsorbs ==
  binding.checkpoint # None =>
    \A o \in Order :
      updated[o] < Since(binding.checkpoint) => row[o] = updated[o]

\* Nothing but an operator's binding takes a committed checkpoint back while the
\* binding stays enabled for its shop: the checkpoint advances "only after every
\* page succeeded", by the single write of runCotikOrdersSync, and stands else.
CheckpointAdvances ==
  [][(/\ binding.enabled /\ binding'.enabled
      /\ binding'.shop = binding.shop
      /\ binding.checkpoint # None
      /\ ~ \E p \in CotikShop : Bind(p))
     => (binding'.checkpoint # None /\ binding'.checkpoint >= binding.checkpoint)]_vars
=============================================================================
