------------------------------ MODULE ShopSync ------------------------------
(***************************************************************************)
(* The sync of one shop: `runShopSync` of packages/sync under the advisory *)
(* lock of the shop, the rows it writes (sync_runs, orders, financial      *)
(* snapshots and captures, the shop's sync state) and what runs beside it: *)
(* the sweep of stale runs at a worker's start, an operator who verifies   *)
(* the shop, Seller Center changing while it is read.                      *)
(*                                                                         *)
(* A worker is any process that calls runShopSync: the worker, the CLI,    *)
(* the dashboard.  Every action between two awaits of the code is atomic.  *)
(***************************************************************************)
EXTENDS Integers, FiniteSets

CONSTANTS
  Worker,        \* processes
  Order,         \* orders of the shop at Seller Center
  Dated,         \* orders whose record carries an update time
  MaxRuns,       \* bound on sync runs
  MaxVersion,    \* bound on changes of an order at the source
  MaxClock,      \* bound on the instants finance captures are dated by
  MaxBatches,    \* bound on batches a source yields for one call
  MaxFaults,     \* bound on crashes, lost lock sessions, failed statements
  NoWorker, NoRun, NoCapture

ASSUME ShopSyncConstants ==
  /\ Dated \subseteq Order
  /\ MaxRuns \in Nat /\ MaxVersion \in Nat /\ MaxClock \in Nat
  /\ MaxBatches \in Nat /\ MaxFaults \in Nat
  /\ NoWorker \notin Worker
  /\ NoRun \notin 1..MaxRuns
  /\ NoCapture \notin 1..MaxRuns

Run == 1..MaxRuns        \* in the order of started_at
Version == 0..MaxVersion
Instant == 0..MaxClock
Kind == {"orders", "finance"}
Status == {"ABSENT", "RUNNING", "SUCCEEDED", "FAILED", "PAUSED", "ABORTED"}

\* The orders of a batch, as they were at the source when it was read.
OrderBatch == UNION {[S -> Version] : S \in SUBSET Order}

\* What the snapshot of a finance batch is worth: there is none; it calls itself
\* reconciled but has no official On Hold amount; it does not call itself
\* reconciled; it does, with an official amount, but fails the transaction's own
\* checks of its rows; or nothing is missing.
Evidence == {"none", "unofficial", "unreconciled", "unsound", "sound"}
FinanceBatch ==
  [evidence : Evidence, complete : BOOLEAN, at : Instant]

VARIABLES
  (* sync_runs *)
  status, kind, stale, sourceComplete, sourceReconciled, sourceCapturedAt,
  (* orders, finance_captures with their snapshots and items, shops *)
  row, capture, syncState, synced,
  (* Seller Center and the clock *)
  source, clock,
  (* the session lock of the shop, and the callers' locals *)
  lock, pc, asked, run, part, batch, batches, seen, complete, proof, failure,
  (* bounded faults, and history *)
  faults, floor, yielded, refreshed

runRows == <<status, kind, stale, sourceComplete, sourceReconciled,
             sourceCapturedAt>>
external == <<source, clock>>
locals == <<run, part, batch, batches, seen, complete, proof, failure>>
history == <<floor, yielded, refreshed>>
vars == <<runRows, row, capture, syncState, synced, external, lock,
          pc, asked, locals, faults, history>>

NoProof == [at |-> 0, valid |-> FALSE]
Nothing == [o \in {} |-> 0]
EmptyBatch == [evidence |-> "none", complete |-> FALSE, at |-> 0]

TypeOK ==
  /\ status \in [Run -> Status]
  /\ kind \in [Run -> Kind]
  /\ stale \in [Run -> BOOLEAN]
  /\ sourceComplete \in [Run -> BOOLEAN]
  /\ sourceReconciled \in [Run -> BOOLEAN]
  /\ sourceCapturedAt \in [Run -> Instant]
  /\ row \in [Order -> Version]
  /\ capture \in [Instant -> Run \cup {NoCapture}]
  /\ syncState \in {"ACTIVE", "PAUSED"}
  /\ synced \in [Kind -> Run \cup {NoRun}]
  /\ source \in [Order -> Version]
  /\ clock \in Instant
  /\ lock \in Worker \cup {NoWorker}
  /\ pc \in [Worker -> {"idle", "identity", "begin", "collect", "write",
                        "checkpoint", "complete", "mark", "fail", "pause",
                        "unlock"}]
  /\ asked \in [Worker -> Kind]
  /\ run \in [Worker -> Run \cup {NoRun}]
  /\ part \in [Worker -> OrderBatch]
  /\ batch \in [Worker -> FinanceBatch]
  /\ batches \in [Worker -> 0..MaxBatches]
  /\ seen \in [Worker -> SUBSET Order]
  /\ complete \in [Worker -> BOOLEAN]
  /\ proof \in [Worker -> [at : Instant, valid : BOOLEAN]]
  /\ failure \in [Worker -> {"none", "manual", "other"}]
  /\ faults \in 0..MaxFaults
  /\ floor \in [Run -> [Order -> Version]]
  /\ yielded \in [Run -> 0..MaxBatches]
  /\ refreshed \subseteq Instant

Init ==
  /\ status = [r \in Run |-> "ABSENT"]
  /\ kind = [r \in Run |-> "orders"]
  /\ stale = [r \in Run |-> FALSE]
  /\ sourceComplete = [r \in Run |-> FALSE]
  /\ sourceReconciled = [r \in Run |-> FALSE]
  /\ sourceCapturedAt = [r \in Run |-> 0]
  /\ row = [o \in Order |-> 0]
  /\ capture = [t \in Instant |-> NoCapture]
  /\ syncState = "ACTIVE"
  /\ synced = [k \in Kind |-> NoRun]
  /\ source = [o \in Order |-> 0]
  /\ clock = 0
  /\ lock = NoWorker
  /\ pc = [w \in Worker |-> "idle"]
  /\ asked = [w \in Worker |-> "orders"]
  /\ run = [w \in Worker |-> NoRun]
  /\ part = [w \in Worker |-> Nothing]
  /\ batch = [w \in Worker |-> EmptyBatch]
  /\ batches = [w \in Worker |-> 0]
  /\ seen = [w \in Worker |-> {}]
  /\ complete = [w \in Worker |-> FALSE]
  /\ proof = [w \in Worker |-> NoProof]
  /\ failure = [w \in Worker |-> "none"]
  /\ faults = 0
  /\ floor = [r \in Run |-> [o \in Order |-> 0]]
  /\ yielded = [r \in Run |-> 0]
  /\ refreshed = {}

Goto(w, label) == pc' = [pc EXCEPT ![w] = label]

-----------------------------------------------------------------------------
(* The body of runShopSync, between its awaits.                            *)

\* The bound on runs: every call under way finds one.
RunsLeft == Cardinality({r \in Run : status[r] = "ABSENT"})
              > Cardinality({w \in Worker : pc[w] \in {"identity", "begin"}})

\* A caller finds the lock free, or returns SKIPPED and has changed nothing.
TryLock(w) ==
  /\ pc[w] = "idle"
  /\ lock = NoWorker
  /\ RunsLeft
  /\ lock' = w
  /\ Goto(w, "identity")
  /\ \E k \in Kind : asked' = [asked EXCEPT ![w] = k]
  /\ failure' = [failure EXCEPT ![w] = "none"]
  /\ UNCHANGED <<runRows, row, capture, syncState, synced, external,
                 run, part, batch, batches, seen, complete, proof, faults,
                 history>>

\* The profile shows the linked shop, or the call throws before any row exists.
AssertCurrentShopIdentity(w) ==
  /\ pc[w] = "identity"
  /\ \/ Goto(w, "begin") /\ failure' = failure
     \/ /\ Goto(w, "unlock")
        /\ failure' = [failure EXCEPT ![w] = "other"]
  /\ UNCHANGED <<runRows, row, capture, syncState, synced, external,
                 lock, asked, run, part, batch, batches, seen, complete, proof,
                 faults, history>>

NextRun(r) == /\ status[r] = "ABSENT"
              /\ \A q \in Run : q < r => status[q] # "ABSENT"

BeginSyncRun(w) ==
  /\ pc[w] = "begin"
  /\ \E r \in Run :
       /\ NextRun(r)
       /\ status' = [status EXCEPT ![r] = "RUNNING"]
       /\ kind' = [kind EXCEPT ![r] = asked[w]]
       /\ run' = [run EXCEPT ![w] = r]
       /\ floor' = IF asked[w] = "orders" THEN [floor EXCEPT ![r] = source] ELSE floor
  /\ Goto(w, "collect")
  /\ batches' = [batches EXCEPT ![w] = 0]
  /\ seen' = [seen EXCEPT ![w] = {}]
  /\ complete' = [complete EXCEPT ![w] = FALSE]
  /\ proof' = [proof EXCEPT ![w] = NoProof]
  /\ UNCHANGED <<stale, sourceComplete, sourceReconciled, sourceCapturedAt, row,
                 capture, syncState, synced, external, lock, asked,
                 part, batch, failure, faults, yielded, refreshed>>

\* The source yields orders as they are now; a batch called complete ends the
\* window that the batches of this call cover.
YieldOrders(w) ==
  /\ pc[w] = "collect"
  /\ asked[w] = "orders"
  /\ batches[w] < MaxBatches
  /\ \E S \in SUBSET Order, c \in BOOLEAN :
       /\ c => seen[w] \cup S = Order
       /\ part' = [part EXCEPT ![w] = [o \in S |-> source[o]]]
       /\ seen' = [seen EXCEPT ![w] = @ \cup S]
       /\ batch' = [batch EXCEPT ![w] = [EmptyBatch EXCEPT !.complete = c]]
  /\ Goto(w, "write")
  /\ UNCHANGED <<runRows, row, capture, syncState, synced, external, lock, asked,
                 run, batches, complete, proof, failure, faults, history>>

YieldFinancials(w) ==
  /\ pc[w] = "collect"
  /\ asked[w] = "finance"
  /\ batches[w] < MaxBatches
  /\ \E b \in FinanceBatch :
       /\ b.at = (IF b.evidence = "none" THEN 0 ELSE clock)
       /\ b.complete \/ b.evidence = "sound"
       /\ batch' = [batch EXCEPT ![w] = b]
  /\ Goto(w, "write")
  /\ yielded' = [yielded EXCEPT ![run[w]] = IF @ < MaxBatches THEN @ + 1 ELSE @]
  /\ UNCHANGED <<runRows, row, capture, syncState, synced, external,
                 lock, asked, run, part, batches, seen, complete, proof, failure,
                 faults, floor, refreshed>>

Exhausted(w) ==
  /\ pc[w] = "collect"
  /\ Goto(w, "complete")
  /\ UNCHANGED <<runRows, row, capture, syncState, synced, external,
                 lock, asked, locals, faults, history>>

\* A login, challenge or layout failure ("manual") pauses the shop.
SourceThrows(w) ==
  /\ pc[w] = "collect"
  /\ \E f \in {"manual", "other"} : failure' = [failure EXCEPT ![w] = f]
  /\ Goto(w, "fail")
  /\ UNCHANGED <<runRows, row, capture, syncState, synced, external,
                 lock, asked, run, part, batch, batches, seen, complete, proof,
                 faults, history>>

\* An order dated by the source is never replaced by an older record of it.
Replaces(o, version) == o \in Dated => version >= row[o]

UpsertOrderBatch(w) ==
  row' = [o \in Order |-> IF o \in DOMAIN part[w] /\ Replaces(o, part[w][o])
                          THEN part[w][o] ELSE row[o]]

\* A snapshot with an official amount that its rows reconcile to.
Reconciled(w) == batch[w].evidence \in {"unsound", "sound"}

\* One transaction under the write lock of the shop; settlement rows of a
\* finance batch are not read by anything below and left out.
WriteBatch(w) ==
  /\ pc[w] = "write"
  /\ IF asked[w] = "orders" THEN UpsertOrderBatch(w) ELSE UNCHANGED row
  /\ batches' = [batches EXCEPT ![w] = @ + 1]
  /\ complete' = [complete EXCEPT ![w] = batch[w].complete]
  /\ proof' = [proof EXCEPT ![w] =
                 [at |-> batch[w].at, valid |-> Reconciled(w)]]
  /\ part' = [part EXCEPT ![w] = Nothing]
  /\ Goto(w, "checkpoint")
  /\ UNCHANGED <<runRows, capture, syncState, synced, external, lock, asked, run,
                 batch, seen, failure, faults, history>>

\* Touches updated_at of a run that is still RUNNING and says nothing otherwise.
UpdateSyncCheckpoint(w) ==
  /\ pc[w] = "checkpoint"
  /\ stale' = [stale EXCEPT ![run[w]] = @ /\ status[run[w]] # "RUNNING"]
  /\ Goto(w, "collect")
  /\ UNCHANGED <<status, kind, sourceComplete, sourceReconciled, sourceCapturedAt,
                 row, capture, syncState, synced, external, lock, asked,
                 locals, faults, history>>

Running(r) == status[r] = "RUNNING"

\* completeSyncRun inside whatever transaction the caller has open.
CompleteSyncRun(r, whole, reconciled, at) ==
  /\ Running(r)
  /\ status' = [status EXCEPT ![r] = "SUCCEEDED"]
  /\ sourceComplete' = [sourceComplete EXCEPT ![r] = whole]
  /\ sourceReconciled' = [sourceReconciled EXCEPT ![r] = reconciled]
  /\ sourceCapturedAt' = [sourceCapturedAt EXCEPT ![r] = at]
  /\ stale' = [stale EXCEPT ![r] = FALSE]
  /\ UNCHANGED kind

AtLeastOneBatch(w) == batches[w] >= 1                                  \* mutant

OneBatch(w) == batches[w] = 1

SyncCompleteUnproven(w) ==                        \* mutant: reconciliation ignored
  IF asked[w] = "finance" THEN OneBatch(w) /\ complete[w] ELSE complete[w]

SyncComplete(w) ==
  IF asked[w] = "finance" THEN OneBatch(w) /\ complete[w] /\ proof[w].valid
                          ELSE complete[w]

AlwaysMark(w) == Goto(w, "mark")                                       \* mutant

AfterCompletion(w) == Goto(w, IF SyncComplete(w) THEN "mark" ELSE "unlock")

CompleteOrders(w) ==
  /\ pc[w] = "complete"
  /\ asked[w] = "orders"
  /\ CompleteSyncRun(run[w], complete[w], FALSE, 0)
  /\ AfterCompletion(w)
  /\ UNCHANGED <<row, capture, syncState, synced, external, lock, asked,
                 locals, faults, history>>

CompleteWithoutBatch(w) ==
  /\ pc[w] = "complete"
  /\ asked[w] = "finance"
  /\ batches[w] = 0
  /\ CompleteSyncRun(run[w], FALSE, FALSE, 0)
  /\ AfterCompletion(w)
  /\ UNCHANGED <<row, capture, syncState, synced, external, lock, asked,
                 locals, faults, history>>

\* finalizeFinanceSyncRun claims authority for one complete reconciled batch.
Authoritative(w) == OneBatch(w) /\ batch[w].complete /\ Reconciled(w)

FinalizeUnproven(w) ==
  /\ pc[w] = "complete"
  /\ asked[w] = "finance"
  /\ batches[w] > 0
  /\ ~Authoritative(w)
  /\ CompleteSyncRun(run[w], OneBatch(w) /\ batch[w].complete,
                     OneBatch(w) /\ batch[w].evidence \in
                                       {"unofficial", "unsound", "sound"},
                     batch[w].at)
  /\ AfterCompletion(w)
  /\ UNCHANGED <<row, capture, syncState, synced, external, lock, asked, locals,
                 faults, history>>

\* The evidence the transaction demands is there, and no capture has its instant.
Admissible(w) == /\ batch[w].evidence = "sound"
                 /\ capture[batch[w].at] = NoCapture

FinalizeProven(w) ==
  /\ pc[w] = "complete"
  /\ asked[w] = "finance"
  /\ Authoritative(w)
  /\ Admissible(w)
  /\ capture' = [capture EXCEPT ![batch[w].at] =
                   run[w]]
  /\ CompleteSyncRun(run[w], TRUE, TRUE, batch[w].at)
  /\ AfterCompletion(w)
  /\ UNCHANGED <<row, syncState, synced, external, lock, asked, locals, faults,
                 history>>

\* Everything the completing transaction did is rolled back with its throw.
CompletionThrows(w) ==
  /\ pc[w] = "complete"
  /\ \/ ~Running(run[w])
     \/ asked[w] = "finance" /\ Authoritative(w) /\ ~Admissible(w)
  /\ failure' = [failure EXCEPT ![w] = "other"]
  /\ Goto(w, "fail")
  /\ UNCHANGED <<runRows, row, capture, syncState, synced, external,
                 lock, asked, run, part, batch, batches, seen, complete, proof,
                 faults, history>>

MarkShopSynced(w) ==
  /\ pc[w] = "mark"
  /\ synced' = [synced EXCEPT ![asked[w]] = run[w]]
  /\ syncState' = "ACTIVE"
  /\ Goto(w, "unlock")
  /\ UNCHANGED <<runRows, row, capture, external, lock, asked, locals,
                 faults, history>>

FailSyncRun(w) ==
  /\ pc[w] = "fail"
  /\ Running(run[w])
  /\ status' = [status EXCEPT ![run[w]] = IF failure[w] = "manual" THEN "PAUSED"
                                          ELSE "FAILED"]
  /\ stale' = [stale EXCEPT ![run[w]] = FALSE]
  /\ Goto(w, IF failure[w] = "manual" THEN "pause" ELSE "unlock")
  /\ UNCHANGED <<kind, sourceComplete, sourceReconciled, sourceCapturedAt,
                 row, capture, syncState, synced, external, lock, asked,
                 locals, faults, history>>

PauseUnrecorded(w) ==                      \* mutant: pause although not recorded
  /\ pc[w] = "fail"
  /\ ~Running(run[w])
  /\ Goto(w, IF failure[w] = "manual" THEN "pause" ELSE "unlock")
  /\ UNCHANGED <<runRows, row, capture, syncState, synced, external,
                 lock, asked, locals, faults, history>>

\* The run is settled already: failSyncRun throws and the throw is swallowed,
\* together with the pause of the shop that would have followed.
FailureNotRecorded(w) ==
  /\ pc[w] = "fail"
  /\ ~Running(run[w])
  /\ Goto(w, "unlock")
  /\ UNCHANGED <<runRows, row, capture, syncState, synced, external,
                 lock, asked, locals, faults, history>>

SetShopSyncState(w) ==
  /\ pc[w] = "pause"
  /\ syncState' = "PAUSED"
  /\ Goto(w, "unlock")
  /\ UNCHANGED <<runRows, row, capture, synced, external, lock, asked,
                 locals, faults, history>>

Forget(w) ==
  /\ Goto(w, "idle")
  /\ asked' = [asked EXCEPT ![w] = "orders"]
  /\ lock' = IF lock = w THEN NoWorker ELSE lock
  /\ run' = [run EXCEPT ![w] = NoRun]
  /\ part' = [part EXCEPT ![w] = Nothing]
  /\ batch' = [batch EXCEPT ![w] = EmptyBatch]
  /\ batches' = [batches EXCEPT ![w] = 0]
  /\ seen' = [seen EXCEPT ![w] = {}]
  /\ complete' = [complete EXCEPT ![w] = FALSE]
  /\ proof' = [proof EXCEPT ![w] = NoProof]
  /\ failure' = [failure EXCEPT ![w] = "none"]

\* runAuthoritativeFinanceRefresh answers SUCCEEDED.
RefreshSucceeds(w) ==
  /\ asked[w] = "finance"
  /\ failure[w] = "none"
  /\ SyncComplete(w)

\* The lock is released and the result, or the error, reaches the caller.
Unlock(w) ==
  /\ pc[w] = "unlock"
  /\ refreshed' = refreshed \cup (IF RefreshSucceeds(w) THEN {proof[w].at} ELSE {})
  /\ Forget(w)
  /\ UNCHANGED <<runRows, row, capture, syncState, synced, external,
                 faults, floor, yielded>>

-----------------------------------------------------------------------------
(* What runs beside it.                                                    *)

\* A worker starts: runs RUNNING and not updated for ten minutes are ABORTED,
\* whether their process is dead or waits for a long batch.
AbortStaleSyncRuns ==
  /\ \E r \in Run : Running(r) /\ stale[r]
  /\ status' = [r \in Run |-> IF Running(r) /\ stale[r] THEN "ABORTED" ELSE status[r]]
  /\ stale' = [r \in Run |-> FALSE]
  /\ UNCHANGED <<kind, sourceComplete, sourceReconciled, sourceCapturedAt,
                 row, capture, syncState, synced, external, lock, pc,
                 asked, locals, faults, history>>

TenMinutesPass(r) ==
  /\ Running(r)
  /\ ~stale[r]
  /\ stale' = [stale EXCEPT ![r] = TRUE]
  /\ UNCHANGED <<status, kind, sourceComplete, sourceReconciled, sourceCapturedAt,
                 row, capture, syncState, synced, external, lock, pc,
                 asked, locals, faults, history>>

VerifyShop ==
  /\ syncState # "ACTIVE"
  /\ syncState' = "ACTIVE"
  /\ UNCHANGED <<runRows, row, capture, synced, external, lock, pc,
                 asked, locals, faults, history>>

SourceChanges ==
  /\ \E o \in Order : source[o] < MaxVersion /\ source' = [source EXCEPT ![o] = @ + 1]
  /\ UNCHANGED <<runRows, row, capture, syncState, synced, clock, lock,
                 pc, asked, locals, faults, history>>

Tick ==
  /\ clock < MaxClock
  /\ clock' = clock + 1
  /\ UNCHANGED <<runRows, row, capture, syncState, synced, source,
                 lock, pc, asked, locals, faults, history>>

Fault == faults < MaxFaults /\ faults' = faults + 1

Crash(w) ==
  /\ Fault
  /\ pc[w] # "idle"
  /\ Forget(w)
  /\ UNCHANGED <<runRows, row, capture, syncState, synced, external,
                 history>>

\* The reserved connection dies with its lock; the sync goes on over the pool.
LoseLockSession(w) ==
  /\ Fault
  /\ lock = w
  /\ lock' = NoWorker
  /\ UNCHANGED <<runRows, row, capture, syncState, synced, external, pc,
                 asked, locals, history>>

\* A failed statement is caught from beginSyncRun on, and swallowed while the
\* failure itself is recorded.
StatementFails(w) ==
  /\ Fault
  /\ \/ pc[w] \in {"write", "checkpoint", "complete", "mark"} /\ Goto(w, "fail")
     \/ pc[w] \in {"begin", "fail", "pause"} /\ Goto(w, "unlock")
  /\ failure' = [failure EXCEPT ![w] = "other"]
  /\ UNCHANGED <<runRows, row, capture, syncState, synced, external,
                 lock, asked, run, part, batch, batches, seen, complete, proof,
                 history>>

Step(w) ==
  \/ AssertCurrentShopIdentity(w)
  \/ BeginSyncRun(w)
  \/ YieldOrders(w)
  \/ YieldFinancials(w)
  \/ Exhausted(w)
  \/ SourceThrows(w)
  \/ WriteBatch(w)
  \/ UpdateSyncCheckpoint(w)
  \/ CompleteOrders(w)
  \/ CompleteWithoutBatch(w)
  \/ FinalizeUnproven(w)
  \/ FinalizeProven(w)
  \/ CompletionThrows(w)
  \/ MarkShopSynced(w)
  \/ FailSyncRun(w)
  \/ FailureNotRecorded(w)
  \/ SetShopSyncState(w)
  \/ Unlock(w)

Next ==
  \/ \E w \in Worker : TryLock(w) \/ Step(w)
  \/ \E w \in Worker : Crash(w) \/ LoseLockSession(w) \/ StatementFails(w)
  \/ AbortStaleSyncRuns
  \/ \E r \in Run : TenMinutesPass(r)
  \/ VerifyShop
  \/ SourceChanges
  \/ Tick

Spec == Init /\ [][Next]_vars

-----------------------------------------------------------------------------
(* What getFinanceSummary answers PROVEN for: a capture whose run is a      *)
(* finance run, SUCCEEDED, complete, reconciled and of the same instant.    *)
Proven(t) ==
  /\ capture[t] # NoCapture
  /\ LET r == capture[t]
     IN /\ kind[r] = "finance"
        /\ status[r] = "SUCCEEDED"
        /\ sourceComplete[r] /\ sourceReconciled[r]
        /\ sourceCapturedAt[r] = t

\* A finance capture is authoritative evidence from one reading of the source:
\* its run is SUCCEEDED with the capture's own instant, its snapshot is stored,
\* and that run yielded a single batch - although a stale sweep, a second sync
\* after a lost lock or a failing statement may settle the run at any moment
\* (finalizeFinanceSyncRun writes all of it or nothing).
CapturesAreProven ==
  \A t \in Instant : capture[t] # NoCapture =>
    /\ Proven(t)
    /\ yielded[capture[t]] = 1

\* A refresh that answered SUCCEEDED left evidence that the finance summary of
\* its instant proves, whoever else was syncing
\* (runAuthoritativeFinanceRefresh and getFinanceSummary agree).
RefreshIsProven == \A t \in refreshed : Proven(t)

\* last_orders_synced_at and last_finance_synced_at are set by runs that
\* SUCCEEDED on the whole source, never by a run a sweep had aborted.
SyncedByWholeRun ==
  \A k \in Kind : synced[k] # NoRun =>
    /\ status[synced[k]] = "SUCCEEDED"
    /\ kind[synced[k]] = k
    /\ sourceComplete[synced[k]]

\* Once a run marks the orders of the shop synced, every order dated by the
\* source is stored at least as new as it was when that run began, and later
\* writers - one that lost its lock and writes what it read long ago among
\* them - do not take it back (the upsert's condition on source_updated_at).
SyncedOrdersAreFresh ==
  synced["orders"] # NoRun =>
    \A o \in Dated : row[o] >= floor[synced["orders"]][o]

\* A shop is marked synced by a run that read all of the source, and its orders
\* are stored at least as new as they were when that run began
\* (markShopSynced of sync/src/index.ts, the upsert of queries/orders.ts).
SyncedIsEarned == SyncedByWholeRun /\ SyncedOrdersAreFresh

\* The shop is paused only because some run was recorded PAUSED: an operator
\* who looks for the reason finds it (failSyncRun before setShopSyncState).
PauseIsExplained == syncState = "PAUSED" => \E r \in Run : status[r] = "PAUSED"
=============================================================================
