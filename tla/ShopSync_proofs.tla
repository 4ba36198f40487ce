--------------------------- MODULE ShopSync_proofs ---------------------------
(***************************************************************************)
(* Proofs about ShopSync, for every number of workers, orders, runs and    *)
(* batches, with any number of crashes, lost locks and failed statements.  *)
(***************************************************************************)
EXTENDS ShopSync, TLAPS

\* The call of w has begun its run and has not settled it.
Open == {"collect", "write", "checkpoint", "complete"}

\* A run belongs to the one call that began it, ...
OwnRun ==
  \A w \in Worker :
    /\ pc[w] \in {"idle", "identity", "begin"} => run[w] = NoRun
    /\ pc[w] \in Open \cup {"mark", "fail", "pause"} => run[w] \in Run
    /\ run[w] \in Run => status[run[w]] # "ABSENT" /\ kind[run[w]] = asked[w]
    /\ \A v \in Worker : run[w] \in Run /\ run[v] = run[w] => v = w

\* ... which alone completes or pauses it, and then goes on accordingly.
OwnOutcome ==
  \A w \in Worker :
    /\ pc[w] \in Open => status[run[w]] \in {"RUNNING", "ABORTED"}
    /\ pc[w] = "mark" => status[run[w]] = "SUCCEEDED" /\ sourceComplete[run[w]]
    /\ pc[w] = "pause" => status[run[w]] = "PAUSED"
    /\ pc[w] \in {"fail", "pause"} => failure[w] # "none"

\* What the call counts and remembers is what the source yielded last.
Counted ==
  /\ \A r \in Run : status[r] = "ABSENT" => yielded[r] = 0
  /\ \A w \in Worker : pc[w] = "write" => batches[w] < MaxBatches
  /\ \A w \in Worker : asked[w] = "finance" =>
       /\ pc[w] \in {"collect", "checkpoint", "complete"} => yielded[run[w]] = batches[w]
       /\ pc[w] = "write" => yielded[run[w]] = batches[w] + 1
       /\ pc[w] \in {"collect", "checkpoint", "complete"} /\ batches[w] > 0 =>
            /\ complete[w] = batch[w].complete
            /\ proof[w] = [at |-> batch[w].at, valid |-> Reconciled(w)]

\* A refresh about to answer SUCCEEDED holds a capture of its own.
Refreshing ==
  \A w \in Worker :
    pc[w] \in {"mark", "unlock"} /\ RefreshSucceeds(w) =>
      run[w] \in Run /\ capture[proof[w].at] = run[w]

\* The orders a run has read are at least as new as when it began, those it
\* has written are stored so, and it calls itself complete for all of them.
Floors == \A r \in Run, o \in Order : floor[r][o] <= source[o]

Reading == Open \cup {"mark"}

CaughtBy(w) ==
  asked[w] = "orders" /\ pc[w] \in Reading =>
    /\ \A o \in DOMAIN part[w] : part[w][o] >= floor[run[w]][o]
    /\ \A o \in Dated \cap (seen[w] \ DOMAIN part[w]) : row[o] >= floor[run[w]][o]
    /\ complete[w] => seen[w] = Order
    /\ pc[w] = "write" /\ batch[w].complete => seen[w] = Order
    /\ pc[w] = "mark" => complete[w]

Caught ==
  \A w \in Worker :
    /\ pc[w] \notin {"write", "fail", "pause", "unlock"} => DOMAIN part[w] = {}
    /\ CaughtBy(w)

SInv ==
  /\ TypeOK /\ OwnRun /\ OwnOutcome /\ Counted /\ Refreshing /\ Floors /\ Caught
  /\ CapturesAreProven /\ RefreshIsProven /\ SyncedIsEarned /\ PauseIsExplained

-----------------------------------------------------------------------------
(* A call touches its own locals only, and rows are typed.                 *)

\* A step of the call of w, a fault included, and a step of anything else.
StepOf(w) ==
  TryLock(w) \/ Step(w) \/ Crash(w) \/ LoseLockSession(w) \/ StatementFails(w)

Beside ==
  \/ AbortStaleSyncRuns
  \/ \E r \in Run : TenMinutesPass(r)
  \/ VerifyShop
  \/ SourceChanges
  \/ Tick

\* The call of v is where it was.
Untouched(v) ==
  /\ pc'[v] = pc[v] /\ asked'[v] = asked[v] /\ run'[v] = run[v]
  /\ part'[v] = part[v] /\ batch'[v] = batch[v] /\ batches'[v] = batches[v]
  /\ seen'[v] = seen[v] /\ complete'[v] = complete[v] /\ proof'[v] = proof[v]
  /\ failure'[v] = failure[v]

LEMMA NextSplit == Next <=> (\E w \in Worker : StepOf(w)) \/ Beside
BY DEF Next, StepOf, Beside

LEMMA Locality ==
  ASSUME TypeOK, NEW w \in Worker, NEW v \in Worker, v # w, StepOf(w)
  PROVE  Untouched(v)
<1> USE DEF TypeOK, Untouched, Goto, locals
<1>1. CASE TryLock(w) \/ AssertCurrentShopIdentity(w) \/ BeginSyncRun(w)
  BY <1>1 DEF TryLock, AssertCurrentShopIdentity, BeginSyncRun
<1>2. CASE YieldOrders(w) \/ YieldFinancials(w) \/ Exhausted(w) \/ SourceThrows(w)
  BY <1>2 DEF YieldOrders, YieldFinancials, Exhausted, SourceThrows
<1>3. CASE WriteBatch(w) \/ UpdateSyncCheckpoint(w)
  BY <1>3 DEF WriteBatch, UpdateSyncCheckpoint
<1>4. CASE \/ CompleteOrders(w) \/ CompleteWithoutBatch(w) \/ FinalizeUnproven(w)
           \/ FinalizeProven(w) \/ CompletionThrows(w)
  BY <1>4 DEF CompleteOrders, CompleteWithoutBatch, FinalizeUnproven, FinalizeProven,
     CompletionThrows, AfterCompletion
<1>5. CASE \/ MarkShopSynced(w) \/ FailSyncRun(w) \/ FailureNotRecorded(w)
           \/ SetShopSyncState(w)
  BY <1>5 DEF MarkShopSynced, FailSyncRun, FailureNotRecorded, SetShopSyncState
<1>6. CASE Unlock(w) \/ Crash(w)
  BY <1>6 DEF Unlock, Crash, Forget
<1>7. CASE LoseLockSession(w) \/ StatementFails(w)
  BY <1>7 DEF LoseLockSession, StatementFails
<1> QED BY <1>1, <1>2, <1>3, <1>4, <1>5, <1>6, <1>7 DEF StepOf, Step

LEMMA BesideLeaves ==
  ASSUME Beside
  PROVE  UNCHANGED <<pc, asked, locals, history, row, capture, synced, kind,
                     sourceComplete, sourceReconciled, sourceCapturedAt>>
BY DEF Beside, AbortStaleSyncRuns, TenMinutesPass, VerifyShop, SourceChanges, Tick, runRows

LEMMA PartTyped ==
  /\ Nothing \in OrderBatch /\ DOMAIN Nothing = {}
  /\ \A b \in OrderBatch : /\ DOMAIN b \in SUBSET Order
                           /\ \A o \in DOMAIN b : b[o] \in Version
  /\ \A S \in SUBSET Order :
       source \in [Order -> Version] => [o \in S |-> source[o]] \in OrderBatch
<1>1. Nothing \in [{} -> Version]
  BY DEF Nothing
<1>2. Nothing \in OrderBatch /\ DOMAIN Nothing = {}
  BY <1>1 DEF OrderBatch, Nothing
<1>3. \A b \in OrderBatch : /\ DOMAIN b \in SUBSET Order
                            /\ \A o \in DOMAIN b : b[o] \in Version
  BY DEF OrderBatch
<1>4. ASSUME NEW S \in SUBSET Order, source \in [Order -> Version]
      PROVE  [o \in S |-> source[o]] \in OrderBatch
  <2>1. [o \in S |-> source[o]] \in [S -> Version]
    BY <1>4
  <2> QED BY <2>1 DEF OrderBatch
<1> QED BY <1>2, <1>3, <1>4

LEMMA ConstantsTyped ==
  /\ 0 \in Version /\ 0 \in Instant /\ 0 \in 0..MaxBatches /\ 0 \in 0..MaxFaults
  /\ NoRun \notin Run /\ NoCapture \notin Run
  /\ EmptyBatch \in FinanceBatch /\ NoProof \in [at : Instant, valid : BOOLEAN]
  /\ \A b \in FinanceBatch : /\ b.evidence \in Evidence /\ b.complete \in BOOLEAN
                             /\ b.at \in Instant
BY ShopSyncConstants DEF Version, Instant, Run, EmptyBatch, NoProof, FinanceBatch, Evidence

LEMMA TypeInit == Init => TypeOK
BY PartTyped, ConstantsTyped DEF Init, TypeOK, Status, Kind

LEMMA TypeStep ==
  ASSUME TypeOK, OwnRun, Counted, [Next]_vars
  PROVE  TypeOK'
<1> USE PartTyped, ConstantsTyped, ShopSyncConstants
<1>1. ASSUME NEW w \in Worker, StepOf(w) PROVE TypeOK'
  <2> USE DEF TypeOK, Goto, locals, runRows, external, history
  <2>1. CASE TryLock(w) \/ AssertCurrentShopIdentity(w) \/ Exhausted(w) \/ SourceThrows(w)
    <3>1. CASE TryLock(w)
      BY <3>1 DEF TryLock
    <3>2. CASE AssertCurrentShopIdentity(w) \/ Exhausted(w)
      BY ZenonT(40), <3>2 DEF AssertCurrentShopIdentity, Exhausted
    <3>3. CASE SourceThrows(w)
      BY <3>3 DEF SourceThrows
    <3> QED BY <2>1, <3>1, <3>2, <3>3
  <2>2. CASE BeginSyncRun(w)
    BY <2>2 DEF BeginSyncRun, Status
  <2>3. CASE YieldOrders(w)
    <3>1. PICK S \in SUBSET Order, c \in BOOLEAN :
            /\ part' = [part EXCEPT ![w] = [o \in S |-> source[o]]]
            /\ seen' = [seen EXCEPT ![w] = @ \cup S]
            /\ batch' = [batch EXCEPT ![w] = [EmptyBatch EXCEPT !.complete = c]]
      BY <2>3 DEF YieldOrders
    <3>2. [o \in S |-> source[o]] \in OrderBatch
      OBVIOUS
    <3>3. part' \in [Worker -> OrderBatch]
      BY <3>1, <3>2
    <3>4. [EmptyBatch EXCEPT !.complete = c] \in FinanceBatch
      BY DEF EmptyBatch, FinanceBatch, Evidence
    <3>5. batch' \in [Worker -> FinanceBatch]
      BY <3>1, <3>4
    <3>6. seen' \in [Worker -> SUBSET Order]
      BY <3>1
    <3> QED BY <2>3, <3>3, <3>5, <3>6 DEF YieldOrders
  <2>4. CASE YieldFinancials(w)
    <3>1. run[w] \in Run
      BY <2>4 DEF YieldFinancials, OwnRun, Open
    <3>2. yielded' \in [Run -> 0..MaxBatches]
      BY <2>4, <3>1 DEF YieldFinancials
    <3> QED BY <2>4, <3>2 DEF YieldFinancials
  <2>5. CASE WriteBatch(w)
    <3>1. row' \in [Order -> Version]
      <4>1. \A o \in DOMAIN part[w] : part[w][o] \in Version
        OBVIOUS
      <4>2. CASE asked[w] = "orders"
        <5>1. row' = [o \in Order |-> IF o \in DOMAIN part[w] /\ Replaces(o, part[w][o])
                                     THEN part[w][o] ELSE row[o]]
          BY <2>5, <4>2 DEF WriteBatch, UpsertOrderBatch
        <5> QED BY <5>1, <4>1
      <4>3. CASE asked[w] # "orders"
        BY <2>5, <4>3 DEF WriteBatch
      <4> QED BY <4>2, <4>3
    <3>2. batches' \in [Worker -> 0..MaxBatches]
      BY <2>5 DEF WriteBatch, Counted
    <3>3. proof' \in [Worker -> [at : Instant, valid : BOOLEAN]]
      BY <2>5 DEF WriteBatch, Reconciled
    <3>4. complete' \in [Worker -> BOOLEAN]
      BY <2>5 DEF WriteBatch
    <3> QED BY <2>5, <3>1, <3>2, <3>3, <3>4 DEF WriteBatch
  <2>6. CASE UpdateSyncCheckpoint(w) \/ MarkShopSynced(w)
    <3>1. run[w] \in Run
      BY <2>6 DEF UpdateSyncCheckpoint, MarkShopSynced, OwnRun, Open
    <3>2. CASE UpdateSyncCheckpoint(w)
      BY <3>1, <3>2 DEF UpdateSyncCheckpoint
    <3>3. CASE MarkShopSynced(w)
      BY <3>1, <3>3 DEF MarkShopSynced
    <3> QED BY <2>6, <3>2, <3>3
  <2>7. CASE CompleteOrders(w) \/ CompleteWithoutBatch(w) \/ FinalizeUnproven(w)
    <3>1. CASE CompleteOrders(w)
      BY <3>1 DEF CompleteOrders, CompleteSyncRun, AfterCompletion, Status
    <3>2. CASE CompleteWithoutBatch(w)
      BY <3>2 DEF CompleteWithoutBatch, CompleteSyncRun, AfterCompletion, Status
    <3>3. CASE FinalizeUnproven(w)
      BY <3>3 DEF FinalizeUnproven, CompleteSyncRun, AfterCompletion, OneBatch, Status
    <3> QED BY <2>7, <3>1, <3>2, <3>3
  <2>8. CASE FinalizeProven(w)
    <3>1. run[w] \in Run /\ batch[w].at \in Instant
      BY <2>8 DEF FinalizeProven, OwnRun, Open
    <3> QED BY <2>8, <3>1 DEF FinalizeProven, CompleteSyncRun, AfterCompletion, Status
  <2>9. CASE \/ CompletionThrows(w) \/ FailSyncRun(w) \/ FailureNotRecorded(w)
             \/ SetShopSyncState(w) \/ LoseLockSession(w) \/ StatementFails(w)
    <3>1. CASE CompletionThrows(w) \/ FailureNotRecorded(w) \/ SetShopSyncState(w)
      BY ZenonT(40), <3>1 DEF CompletionThrows, FailureNotRecorded, SetShopSyncState
    <3>2. CASE FailSyncRun(w)
      BY <3>2 DEF FailSyncRun, Status
    <3>3. CASE LoseLockSession(w)
      BY <3>3 DEF LoseLockSession, Fault
    <3>4. CASE StatementFails(w)
      <4>1. pc' \in [Worker -> {"idle", "identity", "begin", "collect", "write",
                        "checkpoint", "complete", "mark", "fail", "pause", "unlock"}]
        <5>1. pc' = [pc EXCEPT ![w] = "fail"] \/ pc' = [pc EXCEPT ![w] = "unlock"]
          BY <3>4 DEF StatementFails
        <5> QED BY <5>1
      <4>2. faults' \in 0..MaxFaults
        BY <3>4 DEF StatementFails, Fault
      <4> QED BY <3>4, <4>1, <4>2 DEF StatementFails
    <3> QED BY <2>9, <3>1, <3>2, <3>3, <3>4
  <2>10. CASE Unlock(w) \/ Crash(w)
    <3>1. CASE Forget(w)
      <4>1. /\ lock' \in Worker \cup {NoWorker} /\ asked' \in [Worker -> Kind]
            /\ failure' \in [Worker -> {"none", "manual", "other"}]
        BY <3>1 DEF Forget, Kind
      <4>2. /\ run' \in [Worker -> Run \cup {NoRun}] /\ part' \in [Worker -> OrderBatch]
            /\ batch' \in [Worker -> FinanceBatch] /\ batches' \in [Worker -> 0..MaxBatches]
        BY <3>1 DEF Forget
      <4>3. /\ seen' \in [Worker -> SUBSET Order] /\ complete' \in [Worker -> BOOLEAN]
            /\ proof' \in [Worker -> [at : Instant, valid : BOOLEAN]]
        BY <3>1 DEF Forget
      <4>4. pc' \in [Worker -> {"idle", "identity", "begin", "collect", "write",
                        "checkpoint", "complete", "mark", "fail", "pause", "unlock"}]
        BY <3>1 DEF Forget
      <4>5. faults' \in 0..MaxFaults /\ refreshed' \subseteq Instant
        BY <2>10 DEF Unlock, Crash, Fault
      <4> QED BY SMTT(30), <2>10, <4>1, <4>2, <4>3, <4>4, <4>5 DEF Unlock, Crash
    <3> QED BY <2>10, <3>1 DEF Unlock, Crash
  <2> QED BY <1>1, <2>1, <2>2, <2>3, <2>4, <2>5, <2>6, <2>7, <2>8, <2>9, <2>10 DEF StepOf, Step
<1>2. CASE Beside
  <2> USE DEF TypeOK, locals, runRows, external, history
  <2>1. CASE AbortStaleSyncRuns
    BY <2>1 DEF AbortStaleSyncRuns, Status
  <2>2. CASE \E r \in Run : TenMinutesPass(r)
    BY <2>2 DEF TenMinutesPass
  <2>3. CASE VerifyShop
    BY <2>3 DEF VerifyShop
  <2>5. CASE Tick
    <3>1. clock' \in Instant
      BY <2>5 DEF Tick, Instant
    <3> QED BY <2>5, <3>1 DEF Tick
  <2>4. CASE SourceChanges
    BY <2>4 DEF SourceChanges, Version
  <2> QED BY <1>2, <2>1, <2>2, <2>3, <2>4, <2>5 DEF Beside
<1>3. CASE UNCHANGED vars
  BY <1>3 DEF vars, TypeOK, locals, runRows, external, history
<1> QED BY <1>1, <1>2, <1>3, NextSplit

-----------------------------------------------------------------------------
(* The rows of settled runs, and the captures, do not change.              *)

\* The rows a run ends with are those it keeps; a run once begun stays begun.
Kept(r) ==
  status[r] \notin {"ABSENT", "RUNNING"} =>
    /\ status'[r] = status[r] /\ kind'[r] = kind[r]
    /\ sourceComplete'[r] = sourceComplete[r]
    /\ sourceReconciled'[r] = sourceReconciled[r]
    /\ sourceCapturedAt'[r] = sourceCapturedAt[r]

Begun(r) == status[r] # "ABSENT" => status'[r] # "ABSENT" /\ kind'[r] = kind[r]

LEMMA Completion ==
  ASSUME TypeOK, NEW q \in Run, NEW whole, NEW reconciled, NEW at,
         CompleteSyncRun(q, whole, reconciled, at)
  PROVE  /\ status[q] = "RUNNING" /\ status'[q] = "SUCCEEDED" /\ kind' = kind
         /\ sourceComplete'[q] = whole /\ sourceReconciled'[q] = reconciled
         /\ sourceCapturedAt'[q] = at
         /\ \A r \in Run : Kept(r) /\ Begun(r)
         /\ \A r \in Run : r # q => status'[r] = status[r]
BY DEF CompleteSyncRun, Running, TypeOK, Kept, Begun

LEMMA RowsKept ==
  ASSUME TypeOK, OwnRun, [Next]_vars
  PROVE  \A r \in Run : Kept(r) /\ Begun(r)
<1> USE DEF TypeOK, Kept, Begun, runRows
<1>1. ASSUME NEW w \in Worker, StepOf(w) PROVE \A r \in Run : Kept(r) /\ Begun(r)
  <2>1. CASE \/ TryLock(w) \/ AssertCurrentShopIdentity(w) \/ YieldOrders(w)
             \/ YieldFinancials(w) \/ Exhausted(w) \/ SourceThrows(w) \/ WriteBatch(w)
             \/ UpdateSyncCheckpoint(w)
    BY <2>1 DEF TryLock, AssertCurrentShopIdentity, YieldOrders, YieldFinancials, Exhausted,
       SourceThrows, WriteBatch, UpdateSyncCheckpoint
  <2>2. CASE \/ CompletionThrows(w) \/ MarkShopSynced(w) \/ FailureNotRecorded(w)
             \/ SetShopSyncState(w) \/ Unlock(w) \/ Crash(w) \/ LoseLockSession(w)
             \/ StatementFails(w)
    BY <2>2 DEF CompletionThrows, MarkShopSynced, FailureNotRecorded, SetShopSyncState, Unlock,
       Crash, LoseLockSession, StatementFails
  <2>3. CASE BeginSyncRun(w)
    BY <2>3 DEF BeginSyncRun, NextRun
  <2>4. CASE CompleteOrders(w) \/ CompleteWithoutBatch(w) \/ FinalizeUnproven(w)
             \/ FinalizeProven(w)
    <3>1. run[w] \in Run
      BY <2>4 DEF CompleteOrders, CompleteWithoutBatch, FinalizeUnproven, FinalizeProven,
         OwnRun, Open
    <3> QED BY <2>4, <3>1, Completion DEF CompleteOrders, CompleteWithoutBatch,
            FinalizeUnproven, FinalizeProven
  <2>5. CASE FailSyncRun(w)
    BY <2>5 DEF FailSyncRun, Running
  <2> QED BY <1>1, <2>1, <2>2, <2>3, <2>4, <2>5 DEF StepOf, Step
<1>2. CASE Beside
  BY <1>2 DEF Beside, AbortStaleSyncRuns, TenMinutesPass, VerifyShop, SourceChanges, Tick,
     Running
<1>3. CASE UNCHANGED vars
  BY <1>3 DEF vars
<1> QED BY <1>1, <1>2, <1>3, NextSplit

-----------------------------------------------------------------------------
(* Whose run it is.                                                        *)

LEMMA OwnRunStep ==
  ASSUME TypeOK, OwnRun, [Next]_vars
  PROVE  OwnRun'
<1>1. \A r \in Run : Begun(r)
  BY RowsKept
<1>2. ASSUME NEW w \in Worker, StepOf(w) PROVE OwnRun'
  <2> DEFINE Placed == /\ pc'[w] \in {"idle", "identity", "begin"} => run'[w] = NoRun
                       /\ pc'[w] \in Open \cup {"mark", "fail", "pause"} => run'[w] \in Run
      Mine == run'[w] \in Run => /\ run'[w] = run[w] \/ status[run'[w]] = "ABSENT"
                                 /\ status'[run'[w]] # "ABSENT"
                                 /\ kind'[run'[w]] = asked'[w]
  <2>1. Placed /\ Mine
    <3> USE ConstantsTyped DEF TypeOK, OwnRun, Open, Goto, locals, runRows, Begun
    <3>1. CASE TryLock(w)
      BY <3>1 DEF TryLock
    <3>2. CASE \/ AssertCurrentShopIdentity(w) \/ YieldOrders(w) \/ YieldFinancials(w)
               \/ Exhausted(w) \/ SourceThrows(w)
      BY <3>2 DEF AssertCurrentShopIdentity, YieldOrders, YieldFinancials, Exhausted,
         SourceThrows
    <3>3. CASE BeginSyncRun(w)
      BY <3>3 DEF BeginSyncRun, NextRun
    <3>4. CASE WriteBatch(w) \/ UpdateSyncCheckpoint(w) \/ CompletionThrows(w)
      BY <3>4 DEF WriteBatch, UpdateSyncCheckpoint, CompletionThrows
    <3>5. CASE \/ CompleteOrders(w) \/ CompleteWithoutBatch(w) \/ FinalizeUnproven(w)
               \/ FinalizeProven(w)
      <4>1. /\ pc[w] = "complete" /\ pc'[w] \in {"mark", "unlock"}
            /\ run' = run /\ asked' = asked
        BY <3>5 DEF CompleteOrders, CompleteWithoutBatch, FinalizeUnproven, FinalizeProven,
           AfterCompletion
      <4> QED BY <1>1, <4>1
    <3>6. CASE \/ MarkShopSynced(w) \/ FailSyncRun(w) \/ FailureNotRecorded(w)
               \/ SetShopSyncState(w)
      <4>1. /\ pc[w] \in {"mark", "fail", "pause"} /\ pc'[w] \in {"pause", "unlock"}
            /\ run' = run /\ asked' = asked
        BY <3>6 DEF MarkShopSynced, FailSyncRun, FailureNotRecorded, SetShopSyncState
      <4> QED BY <1>1, <4>1
    <3>7. CASE Unlock(w) \/ Crash(w)
      BY <3>7 DEF Unlock, Crash, Forget
    <3>8. CASE LoseLockSession(w) \/ StatementFails(w)
      BY <3>8 DEF LoseLockSession, StatementFails
    <3> QED BY <1>2, <3>1, <3>2, <3>3, <3>4, <3>5, <3>6, <3>7, <3>8 DEF StepOf, Step
  <2>2. \A v \in Worker : v # w => Untouched(v)
    BY <1>2, Locality
  <2>3. ASSUME NEW v \in Worker, v # w, run[v] \in Run
        PROVE  /\ status'[run[v]] # "ABSENT" /\ kind'[run[v]] = asked[v]
               /\ run'[w] # run[v]
    BY <1>1, <2>1, <2>3 DEF OwnRun, Begun
  <2>4. \A v \in Worker : v # w => /\ pc'[v] = pc[v] /\ run'[v] = run[v]
                                   /\ asked'[v] = asked[v]
    BY <2>2 DEF Untouched
  <2> HIDE DEF Placed, Mine
  <2>5. ASSUME NEW v \in Worker
        PROVE  /\ pc'[v] \in {"idle", "identity", "begin"} => run'[v] = NoRun
               /\ pc'[v] \in Open \cup {"mark", "fail", "pause"} => run'[v] \in Run
               /\ run'[v] \in Run => status'[run'[v]] # "ABSENT" /\ kind'[run'[v]] = asked'[v]
    BY <2>1, <2>3, <2>4 DEF Placed, Mine, OwnRun
  <2>6. ASSUME NEW v \in Worker, NEW u \in Worker, run'[u] \in Run, run'[v] = run'[u]
        PROVE  u = v
    BY <2>3, <2>4, <2>6 DEF OwnRun
  <2> QED BY <2>5, <2>6 DEF OwnRun
<1>3. CASE Beside
  BY <1>1, <1>3, BesideLeaves DEF OwnRun, Begun, locals
<1>4. CASE UNCHANGED vars
  BY <1>4 DEF vars, OwnRun, locals, runRows
<1> QED BY <1>2, <1>3, <1>4, NextSplit

\* A call leaves the runs of the others as they are.
LEMMA ForeignRun ==
  ASSUME TypeOK, OwnRun, NEW w \in Worker, StepOf(w),
         NEW r \in Run, r # run[w], status[r] # "ABSENT"
  PROVE  /\ status'[r] = status[r] /\ sourceComplete'[r] = sourceComplete[r]
         /\ yielded'[r] = yielded[r] /\ floor'[r] = floor[r]
<1> USE DEF TypeOK, runRows, history
<1>1. CASE \/ TryLock(w) \/ AssertCurrentShopIdentity(w) \/ YieldOrders(w)
           \/ YieldFinancials(w) \/ Exhausted(w) \/ SourceThrows(w) \/ WriteBatch(w)
           \/ UpdateSyncCheckpoint(w)
  BY <1>1 DEF TryLock, AssertCurrentShopIdentity, YieldOrders, YieldFinancials, Exhausted,
     SourceThrows, WriteBatch, UpdateSyncCheckpoint
<1>2. CASE \/ CompletionThrows(w) \/ MarkShopSynced(w) \/ FailureNotRecorded(w)
           \/ SetShopSyncState(w) \/ Unlock(w) \/ Crash(w) \/ LoseLockSession(w)
           \/ StatementFails(w)
  BY <1>2 DEF CompletionThrows, MarkShopSynced, FailureNotRecorded, SetShopSyncState, Unlock,
     Crash, LoseLockSession, StatementFails
<1>3. CASE BeginSyncRun(w)
  BY <1>3 DEF BeginSyncRun, NextRun
<1>4. CASE \/ CompleteOrders(w) \/ CompleteWithoutBatch(w) \/ FinalizeUnproven(w)
           \/ FinalizeProven(w)
  BY <1>4 DEF CompleteOrders, CompleteWithoutBatch, FinalizeUnproven, FinalizeProven,
     CompleteSyncRun
<1>5. CASE FailSyncRun(w)
  BY <1>5 DEF FailSyncRun
<1> QED BY <1>1, <1>2, <1>3, <1>4, <1>5 DEF StepOf, Step

LEMMA OwnOutcomeStep ==
  ASSUME TypeOK, OwnRun, OwnRun', OwnOutcome, Counted, [Next]_vars
  PROVE  OwnOutcome'
<1>1. ASSUME NEW w \in Worker, StepOf(w) PROVE OwnOutcome'
  <2> DEFINE Fine(v) ==
        /\ pc'[v] \in Open => status'[run'[v]] \in {"RUNNING", "ABORTED"}
        /\ pc'[v] = "mark" => status'[run'[v]] = "SUCCEEDED" /\ sourceComplete'[run'[v]]
        /\ pc'[v] = "pause" => status'[run'[v]] = "PAUSED"
        /\ pc'[v] \in {"fail", "pause"} => failure'[v] # "none"
  <2>1. Fine(w)
    <3> USE DEF TypeOK, OwnOutcome, Open, Goto, locals, runRows
    <3>1. CASE TryLock(w) \/ AssertCurrentShopIdentity(w)
      BY <3>1 DEF TryLock, AssertCurrentShopIdentity
    <3>2. CASE \/ YieldOrders(w) \/ YieldFinancials(w) \/ Exhausted(w) \/ SourceThrows(w)
               \/ WriteBatch(w) \/ UpdateSyncCheckpoint(w) \/ CompletionThrows(w)
      BY <3>2 DEF YieldOrders, YieldFinancials, Exhausted, SourceThrows, WriteBatch,
         UpdateSyncCheckpoint, CompletionThrows
    <3>3. CASE BeginSyncRun(w)
      BY <3>3 DEF BeginSyncRun
    <3>4. CASE CompleteOrders(w) \/ CompleteWithoutBatch(w) \/ FinalizeUnproven(w)
      <4>1. /\ run[w] \in Run /\ run' = run
        BY <3>4 DEF CompleteOrders, CompleteWithoutBatch, FinalizeUnproven, OwnRun
      <4>2. /\ pc'[w] = IF SyncComplete(w) THEN "mark" ELSE "unlock"
            /\ SyncComplete(w) => sourceComplete'[run[w]]
            /\ status'[run[w]] = "SUCCEEDED"
        <5>1. CASE CompleteOrders(w)
          <6>1. CompleteSyncRun(run[w], complete[w], FALSE, 0)
            BY <5>1 DEF CompleteOrders
          <6>2. sourceComplete'[run[w]] = complete[w] /\ status'[run[w]] = "SUCCEEDED"
            BY <4>1, <6>1, Completion
          <6> QED BY <5>1, <6>2 DEF CompleteOrders, AfterCompletion, SyncComplete
        <5>2. CASE CompleteWithoutBatch(w)
          <6>1. CompleteSyncRun(run[w], FALSE, FALSE, 0)
            BY <5>2 DEF CompleteWithoutBatch
          <6>2. status'[run[w]] = "SUCCEEDED"
            BY <4>1, <6>1, Completion
          <6> QED BY <5>2, <6>2 DEF CompleteWithoutBatch, AfterCompletion, SyncComplete, OneBatch
        <5>3. CASE FinalizeUnproven(w)
          <6>1. /\ sourceComplete'[run[w]] = (OneBatch(w) /\ batch[w].complete)
                /\ status'[run[w]] = "SUCCEEDED"
            BY <4>1, <5>3, Completion DEF FinalizeUnproven
          <6>2. complete[w] = batch[w].complete
            BY <5>3 DEF FinalizeUnproven, Counted
          <6> QED BY <5>3, <6>1, <6>2 DEF FinalizeUnproven, AfterCompletion, SyncComplete
        <5> QED BY <3>4, <5>1, <5>2, <5>3
      <4> QED BY <4>1, <4>2
    <3>5. CASE FinalizeProven(w)
      <4>1. /\ run[w] \in Run /\ run' = run /\ pc'[w] \in {"mark", "unlock"}
        BY <3>5 DEF FinalizeProven, OwnRun, AfterCompletion
      <4>2. status'[run[w]] = "SUCCEEDED" /\ sourceComplete'[run[w]]
        <5>1. CompleteSyncRun(run[w], TRUE, TRUE, batch[w].at)
          BY <3>5 DEF FinalizeProven
        <5>2. sourceComplete'[run[w]] = TRUE /\ status'[run[w]] = "SUCCEEDED"
          BY <4>1, <5>1, Completion
        <5> QED BY <5>2
      <4> QED BY <4>1, <4>2
    <3>6. CASE \/ MarkShopSynced(w) \/ FailSyncRun(w) \/ FailureNotRecorded(w)
               \/ SetShopSyncState(w)
      BY <3>6 DEF MarkShopSynced, FailSyncRun, FailureNotRecorded, SetShopSyncState, OwnRun
    <3>7. CASE Unlock(w) \/ Crash(w)
      BY <3>7 DEF Unlock, Crash, Forget
    <3>8. CASE LoseLockSession(w) \/ StatementFails(w)
      BY <3>8 DEF LoseLockSession, StatementFails
    <3> QED BY <1>1, <3>1, <3>2, <3>3, <3>4, <3>5, <3>6, <3>7, <3>8 DEF StepOf, Step
  <2>2. ASSUME NEW v \in Worker, v # w PROVE Fine(v)
    <3>1. Untouched(v)
      BY <1>1, <2>2, Locality
    <3>2. CASE run[v] \in Run
      <4>1. status'[run[v]] = status[run[v]] /\ sourceComplete'[run[v]] = sourceComplete[run[v]]
        BY <1>1, <2>2, <3>2, ForeignRun DEF OwnRun
      <4> QED BY <3>1, <4>1 DEF Untouched, OwnOutcome
    <3>3. CASE run[v] \notin Run
      BY <3>1, <3>3 DEF Untouched, OwnOutcome, OwnRun
    <3> QED BY <3>2, <3>3
  <2> QED BY <2>1, <2>2 DEF OwnOutcome
<1>2. CASE Beside
  <2>1. /\ UNCHANGED <<pc, run, failure, sourceComplete>>
        /\ \A r \in Run : \/ status'[r] = status[r]
                          \/ status[r] = "RUNNING" /\ status'[r] = "ABORTED"
    BY <1>2 DEF Beside, AbortStaleSyncRuns, TenMinutesPass, VerifyShop, SourceChanges, Tick,
       Running, TypeOK, locals, runRows
  <2> QED BY <2>1 DEF OwnOutcome, OwnRun, Open
<1>3. CASE UNCHANGED vars
  BY <1>3 DEF vars, OwnOutcome, locals, runRows
<1> QED BY <1>1, <1>2, <1>3, NextSplit

-----------------------------------------------------------------------------
(* What a call counts is what its source yielded.                          *)

CountedBy(w) ==
  asked[w] = "finance" =>
    /\ pc[w] \in {"collect", "checkpoint", "complete"} => yielded[run[w]] = batches[w]
    /\ pc[w] = "write" => yielded[run[w]] = batches[w] + 1
    /\ pc[w] \in {"collect", "checkpoint", "complete"} /\ batches[w] > 0 =>
         /\ complete[w] = batch[w].complete
         /\ proof[w] = [at |-> batch[w].at, valid |-> Reconciled(w)]

\* A step that ends the count, or leaves all of it alone.
LEMMA CountUntouched ==
  ASSUME TypeOK, NEW w \in Worker, CountedBy(w), run'[w] = run[w], asked'[w] = asked[w],
         yielded' = yielded,
         \/ pc'[w] \notin {"collect", "write", "checkpoint", "complete"}
         \/ /\ \/ pc'[w] = pc[w]
               \/ {pc[w], pc'[w]} \subseteq {"collect", "checkpoint", "complete"}
            /\ batch'[w] = batch[w] /\ batches'[w] = batches[w]
            /\ complete'[w] = complete[w] /\ proof'[w] = proof[w]
  PROVE  CountedBy(w)'
BY DEF CountedBy, Reconciled

LEMMA CountedStep ==
  ASSUME TypeOK, OwnRun, OwnRun', Counted, [Next]_vars
  PROVE  Counted'
<1> USE ShopSyncConstants
<1>1. ASSUME NEW w \in Worker, StepOf(w) PROVE Counted'
  <2>4. CountedBy(w) /\ (pc[w] = "write" => batches[w] < MaxBatches)
    BY DEF Counted, CountedBy
  <2>1. /\ CountedBy(w)' /\ (pc'[w] = "write" => batches'[w] < MaxBatches)
        /\ \A r \in Run : yielded'[r] = yielded[r] \/ (r = run[w] /\ status[r] # "ABSENT")
    <3> USE DEF TypeOK, Goto, locals
    <3>1. CASE TryLock(w) \/ AssertCurrentShopIdentity(w)
      <4>1. pc'[w] \notin {"collect", "write", "checkpoint", "complete"} /\ yielded' = yielded
        BY <3>1 DEF TryLock, AssertCurrentShopIdentity, history
      <4> QED BY <4>1 DEF CountedBy
    <3>2. CASE BeginSyncRun(w)
      <4>1. PICK r \in Run : NextRun(r) /\ run' = [run EXCEPT ![w] = r]
        BY <3>2 DEF BeginSyncRun
      <4>2. yielded[r] = 0
        BY <4>1 DEF NextRun, Counted
      <4>3. /\ pc'[w] = "collect" /\ batches'[w] = 0 /\ yielded' = yielded /\ run'[w] = r
        BY <3>2, <4>1 DEF BeginSyncRun
      <4> QED BY <4>2, <4>3 DEF CountedBy
    <3>3. CASE YieldOrders(w)
      <4>1. /\ asked'[w] = "orders" /\ batches'[w] < MaxBatches /\ yielded' = yielded
        BY <3>3 DEF YieldOrders, history
      <4> QED BY <4>1 DEF CountedBy
    <3>4. CASE YieldFinancials(w)
      <4>1. run[w] \in Run /\ status[run[w]] # "ABSENT" /\ run' = run
        BY <3>4 DEF YieldFinancials, OwnRun, Open
      <4>2. yielded[run[w]] = batches[w] /\ batches[w] < MaxBatches
        BY <2>4, <3>4 DEF YieldFinancials, CountedBy
      <4>3. /\ yielded'[run[w]] = batches[w] + 1
            /\ \A r \in Run : r # run[w] => yielded'[r] = yielded[r]
        BY <3>4, <4>1, <4>2 DEF YieldFinancials
      <4>4. pc'[w] = "write" /\ batches' = batches
        BY <3>4 DEF YieldFinancials
      <4>5. CountedBy(w)'
        BY <4>1, <4>3, <4>4 DEF CountedBy
      <4> QED BY <4>1, <4>2, <4>3, <4>4, <4>5
    <3>5. CASE WriteBatch(w)
      <4>1. batches[w] \in Nat /\ batches'[w] = batches[w] + 1
        BY <3>5 DEF WriteBatch
      <4>2. /\ complete'[w] = batch[w].complete
            /\ proof'[w] = [at |-> batch[w].at, valid |-> Reconciled(w)]
            /\ batch' = batch /\ asked' = asked /\ run' = run /\ yielded' = yielded
            /\ pc[w] = "write" /\ pc'[w] = "checkpoint"
        BY <3>5 DEF WriteBatch, history
      <4>3. Reconciled(w)' = Reconciled(w)
        BY <4>2 DEF Reconciled
      <4> QED BY <2>4, <4>1, <4>2, <4>3 DEF CountedBy
    <3>6. CASE Exhausted(w) \/ UpdateSyncCheckpoint(w)
      <4>1. /\ {pc[w], pc'[w]} \subseteq {"collect", "checkpoint", "complete"}
            /\ pc'[w] # "write" /\ yielded' = yielded
            /\ UNCHANGED <<run, asked, batch, batches, complete, proof>>
        BY <3>6 DEF Exhausted, UpdateSyncCheckpoint, history
      <4> QED BY <2>4, <4>1, CountUntouched
    <3>7. CASE \/ SourceThrows(w) \/ CompletionThrows(w) \/ CompleteOrders(w)
               \/ CompleteWithoutBatch(w) \/ FinalizeUnproven(w) \/ FinalizeProven(w)
      <4>1. pc'[w] \in {"fail", "mark", "unlock"} /\ yielded' = yielded
        BY <3>7 DEF SourceThrows, CompletionThrows, CompleteOrders, CompleteWithoutBatch,
           FinalizeUnproven, FinalizeProven, AfterCompletion, history
      <4> QED BY <4>1 DEF CountedBy
    <3>8. CASE \/ MarkShopSynced(w) \/ FailSyncRun(w) \/ FailureNotRecorded(w)
               \/ SetShopSyncState(w) \/ StatementFails(w)
      <4>1. pc'[w] \in {"fail", "pause", "unlock"} /\ yielded' = yielded
        BY <3>8 DEF MarkShopSynced, FailSyncRun, FailureNotRecorded, SetShopSyncState,
           StatementFails, history
      <4> QED BY <4>1 DEF CountedBy
    <3>9. CASE Unlock(w) \/ Crash(w)
      <4>1. pc'[w] = "idle" /\ yielded' = yielded
        BY <3>9 DEF Unlock, Crash, Forget, history
      <4> QED BY <4>1 DEF CountedBy
    <3>10. CASE LoseLockSession(w)
      <4>1. UNCHANGED <<pc, run, asked, batch, batches, complete, proof, yielded>>
        BY <3>10 DEF LoseLockSession, history
      <4> QED BY <2>4, <4>1, CountUntouched
    <3> QED BY <1>1, <3>1, <3>2, <3>3, <3>4, <3>5, <3>6, <3>7, <3>8, <3>9, <3>10
            DEF StepOf, Step
  <2>2. ASSUME NEW v \in Worker, v # w
        PROVE  CountedBy(v)' /\ (pc'[v] = "write" => batches'[v] < MaxBatches)
    <3>1. Untouched(v)
      BY <1>1, <2>2, Locality
    <3>2. run[v] \in Run => yielded'[run[v]] = yielded[run[v]]
      BY <1>1, <2>2, ForeignRun DEF OwnRun
    <3>3. CountedBy(v) /\ (pc[v] = "write" => batches[v] < MaxBatches)
      BY DEF Counted, CountedBy
    <3>4. Reconciled(v)' = Reconciled(v)
      BY <3>1 DEF Untouched, Reconciled
    <3> QED BY <3>1, <3>2, <3>3, <3>4 DEF Untouched, CountedBy, OwnRun, Open
  <2>3. \A r \in Run : status'[r] = "ABSENT" => yielded'[r] = 0
    BY <2>1, RowsKept DEF Counted, Begun
  <2> QED BY <2>1, <2>2, <2>3 DEF Counted, CountedBy
<1>2. CASE Beside \/ UNCHANGED vars
  <2>1. UNCHANGED <<pc, asked, run, batch, batches, complete, proof, yielded>>
    BY <1>2, BesideLeaves DEF vars, locals, history
  <2>2. \A w \in Worker : Reconciled(w)' = Reconciled(w)
    BY <2>1 DEF Reconciled
  <2> QED BY <2>1, <2>2, RowsKept DEF Counted, Begun
<1> QED BY <1>1, <1>2, NextSplit

-----------------------------------------------------------------------------
(* Captures and refreshes.                                                 *)

\* Only the finalizing transaction writes a capture, and never over another.
LEMMA CapturesStay ==
  ASSUME TypeOK, OwnRun, OwnOutcome, [Next]_vars
  PROVE  /\ \A t \in Instant : capture[t] # NoCapture => capture'[t] = capture[t]
         /\ capture' = capture \/ \E w \in Worker : FinalizeProven(w)
         /\ \A r \in Run : status[r] = "SUCCEEDED" => yielded'[r] = yielded[r]
<1>1. ASSUME NEW w \in Worker, StepOf(w)
      PROVE  /\ capture' = capture \/ FinalizeProven(w)
             /\ yielded' = yielded \/ YieldFinancials(w)
  BY <1>1 DEF StepOf, Step, TryLock, AssertCurrentShopIdentity, BeginSyncRun, YieldOrders,
     YieldFinancials, Exhausted, SourceThrows, WriteBatch, UpdateSyncCheckpoint, CompleteOrders,
     CompleteWithoutBatch, FinalizeUnproven, FinalizeProven, CompletionThrows, MarkShopSynced,
     FailSyncRun, FailureNotRecorded, SetShopSyncState, Unlock, Crash, LoseLockSession,
     StatementFails, history
<1>2. CASE Beside \/ UNCHANGED vars
  BY <1>2, BesideLeaves DEF vars, history
<1>3. ASSUME NEW w \in Worker, FinalizeProven(w)
      PROVE  \A t \in Instant : capture[t] # NoCapture => capture'[t] = capture[t]
  BY <1>3 DEF FinalizeProven, Admissible, TypeOK
<1>4. ASSUME NEW w \in Worker, YieldFinancials(w)
      PROVE  \A r \in Run : status[r] = "SUCCEEDED" => yielded'[r] = yielded[r]
  <2>1. status[run[w]] # "SUCCEEDED"
    BY <1>4 DEF YieldFinancials, OwnOutcome, Open
  <2> QED BY <1>4, <2>1 DEF YieldFinancials, TypeOK
<1> QED BY <1>1, <1>2, <1>3, <1>4, NextSplit

\* What is proven stays so.
LEMMA ProvenStays ==
  ASSUME TypeOK, OwnRun, OwnOutcome, [Next]_vars, NEW t \in Instant, Proven(t)
  PROVE  Proven(t)' /\ yielded'[capture'[t]] = yielded[capture[t]]
<1>1. capture[t] \in Run /\ capture'[t] = capture[t]
  BY CapturesStay DEF Proven, TypeOK
<1>2. Kept(capture[t]) /\ status[capture[t]] = "SUCCEEDED"
  BY <1>1, RowsKept DEF Proven
<1>3. yielded'[capture[t]] = yielded[capture[t]]
  BY <1>1, <1>2, CapturesStay
<1> QED BY <1>1, <1>2, <1>3 DEF Proven, Kept

\* The finalizing transaction proves its capture.
LEMMA FinalizeProves ==
  ASSUME TypeOK, OwnRun, Counted, NEW w \in Worker, FinalizeProven(w)
  PROVE  /\ batch[w].at \in Instant /\ run[w] \in Run
         /\ capture' = [capture EXCEPT ![batch[w].at] = run[w]]
         /\ capture'[batch[w].at] = run[w]
         /\ Proven(batch[w].at)' /\ yielded'[run[w]] = 1
<1>1. batch[w].at \in Instant /\ run[w] \in Run /\ kind[run[w]] = "finance"
  BY ConstantsTyped DEF FinalizeProven, TypeOK, OwnRun, Open
<1>2. /\ capture' = [capture EXCEPT ![batch[w].at] = run[w]]
      /\ capture'[batch[w].at] = run[w]
  BY <1>1 DEF FinalizeProven, TypeOK
<1>3. CompleteSyncRun(run[w], TRUE, TRUE, batch[w].at)
  BY DEF FinalizeProven
<1>4. /\ status'[run[w]] = "SUCCEEDED" /\ kind' = kind
      /\ sourceComplete'[run[w]] = TRUE /\ sourceReconciled'[run[w]] = TRUE
      /\ sourceCapturedAt'[run[w]] = batch[w].at
  <2>1. /\ status'[run[w]] = "SUCCEEDED" /\ kind' = kind
        /\ sourceComplete'[run[w]] = TRUE /\ sourceReconciled'[run[w]] = TRUE
    BY <1>1, <1>3 DEF CompleteSyncRun, TypeOK
  <2>2. sourceCapturedAt'[run[w]] = batch[w].at
    BY <1>1, <1>3 DEF CompleteSyncRun, TypeOK
  <2> QED BY <2>1, <2>2
<1>5. yielded'[run[w]] = 1
  BY DEF FinalizeProven, Counted, Authoritative, OneBatch, history
<1>6. Proven(batch[w].at)'
  <2>1. batch' = batch /\ run[w] # NoCapture
    BY <1>1, ConstantsTyped DEF FinalizeProven, locals
  <2> QED BY <1>1, <1>2, <1>4, <2>1 DEF Proven
<1> QED BY <1>1, <1>2, <1>5, <1>6

LEMMA CapturesStep ==
  ASSUME TypeOK, OwnRun, OwnOutcome, Counted, CapturesAreProven, [Next]_vars
  PROVE  CapturesAreProven'
<1>1. ASSUME NEW t \in Instant, capture[t] # NoCapture
      PROVE  Proven(t)' /\ yielded'[capture'[t]] = 1
  BY <1>1, ProvenStays DEF CapturesAreProven
<1>2. ASSUME NEW t \in Instant, capture[t] = NoCapture, capture'[t] # NoCapture
      PROVE  Proven(t)' /\ yielded'[capture'[t]] = 1
  <2>1. PICK w \in Worker : FinalizeProven(w)
    BY <1>2, CapturesStay
  <2>2. t = batch[w].at
    BY <1>2, <2>1, FinalizeProves DEF TypeOK
  <2>3. Proven(batch[w].at)' /\ capture'[batch[w].at] = run[w] /\ yielded'[run[w]] = 1
    BY <2>1, FinalizeProves
  <2>4. batch' = batch
    BY <2>1 DEF FinalizeProven, locals
  <2> QED BY <2>2, <2>3, <2>4
<1> QED BY <1>1, <1>2 DEF CapturesAreProven

LEMMA RefreshedStep ==
  ASSUME TypeOK, OwnRun, OwnOutcome, Refreshing, CapturesAreProven, RefreshIsProven,
         [Next]_vars
  PROVE  RefreshIsProven'
<1>1. ASSUME NEW t \in refreshed' PROVE t \in Instant /\ Proven(t)
  <2>1. CASE t \in refreshed
    BY <2>1 DEF RefreshIsProven, TypeOK
  <2>2. CASE t \notin refreshed
    <3>1. PICK w \in Worker : Unlock(w)
      <4>1. ASSUME NEW w \in Worker, StepOf(w), ~Unlock(w) PROVE refreshed' = refreshed
        BY <4>1 DEF StepOf, Step, TryLock, AssertCurrentShopIdentity, BeginSyncRun, YieldOrders,
           YieldFinancials, Exhausted, SourceThrows, WriteBatch, UpdateSyncCheckpoint,
           CompleteOrders, CompleteWithoutBatch, FinalizeUnproven, FinalizeProven,
           CompletionThrows, MarkShopSynced, FailSyncRun, FailureNotRecorded,
           SetShopSyncState, Crash, LoseLockSession, StatementFails, history
      <4>2. CASE Beside \/ UNCHANGED vars
        <5>1. refreshed' = refreshed
          BY <4>2, BesideLeaves DEF vars, history
        <5> QED BY <1>1, <2>2, <5>1
      <4> QED BY <1>1, <2>2, <4>1, <4>2, NextSplit
    <3>2. pc[w] = "unlock" /\ RefreshSucceeds(w) /\ t = proof[w].at
      BY <1>1, <2>2, <3>1 DEF Unlock
    <3>3. t \in Instant /\ capture[t] = run[w] /\ run[w] \in Run
      BY <3>2 DEF Refreshing, TypeOK
    <3> QED BY <3>3, ConstantsTyped DEF CapturesAreProven
  <2> QED BY <2>1, <2>2
<1> QED BY <1>1, ProvenStays DEF RefreshIsProven

LEMMA RefreshingStep ==
  ASSUME TypeOK, OwnRun, OwnOutcome, Counted, Refreshing, [Next]_vars
  PROVE  Refreshing'
<1> DEFINE Held(w) == run[w] \in Run /\ capture[proof[w].at] = run[w]
           Due(w) == pc[w] \in {"mark", "unlock"} /\ RefreshSucceeds(w)
<1>1. ASSUME NEW v \in Worker, Due(v), UNCHANGED <<run, proof>> PROVE Held(v)'
  <2>1. Held(v) /\ proof[v].at \in Instant
    BY <1>1 DEF Refreshing, TypeOK
  <2> QED BY <1>1, <2>1, CapturesStay, ConstantsTyped
<1>2. ASSUME NEW v \in Worker, Due(v), Untouched(v) PROVE Held(v)'
  <2>1. Held(v) /\ proof[v].at \in Instant
    BY <1>2 DEF Refreshing, TypeOK
  <2> QED BY <1>2, <2>1, CapturesStay, ConstantsTyped DEF Untouched
<1>3. ASSUME NEW w \in Worker, StepOf(w), Due(w)' PROVE Held(w)'
  <2> USE DEF TypeOK, Goto, RefreshSucceeds
  <2>1. CASE MarkShopSynced(w) \/ LoseLockSession(w)
    <3>1. Due(w)
      BY <1>3, <2>1 DEF MarkShopSynced, LoseLockSession, locals, SyncComplete, OneBatch
    <3>2. UNCHANGED <<run, proof>>
      BY <2>1 DEF MarkShopSynced, LoseLockSession, locals
    <3> QED BY <1>1, <3>1, <3>2
  <2>2. CASE FinalizeProven(w)
    <3>1. proof[w].at = batch[w].at
      BY <2>2 DEF FinalizeProven, Counted, Authoritative, OneBatch
    <3>2. UNCHANGED <<run, proof>>
      BY <2>2 DEF FinalizeProven, locals
    <3> QED BY <2>2, <3>1, <3>2, FinalizeProves
  <2>3. CASE FinalizeUnproven(w)
    <3>1. ~SyncComplete(w)
      BY <2>3 DEF FinalizeUnproven, Counted, Authoritative, SyncComplete
    <3>2. SyncComplete(w)' = SyncComplete(w)
      BY <2>3 DEF FinalizeUnproven, SyncComplete, OneBatch, locals
    <3> QED BY <1>3, <3>1, <3>2
  <2>4. CASE CompleteOrders(w) \/ CompleteWithoutBatch(w)
    <3>1. \/ asked'[w] = "orders"
          \/ batches[w] = 0 /\ batches' = batches
      BY <2>4 DEF CompleteOrders, CompleteWithoutBatch, locals
    <3>2. asked'[w] = "orders" \/ batches'[w] # 1
      BY <3>1
    <3> QED BY <1>3, <3>2 DEF SyncComplete, OneBatch
  <2>5. CASE \/ TryLock(w) \/ BeginSyncRun(w) \/ YieldOrders(w) \/ YieldFinancials(w)
             \/ Exhausted(w) \/ SourceThrows(w) \/ WriteBatch(w) \/ UpdateSyncCheckpoint(w)
             \/ CompletionThrows(w) \/ Unlock(w) \/ Crash(w)
    <3>1. pc'[w] \notin {"mark", "unlock"}
      BY <2>5 DEF TryLock, BeginSyncRun, YieldOrders, YieldFinancials, Exhausted,
         SourceThrows, WriteBatch, UpdateSyncCheckpoint, CompletionThrows, Unlock, Crash, Forget
    <3> QED BY <1>3, <3>1
  <2>6. CASE \/ AssertCurrentShopIdentity(w) \/ FailSyncRun(w) \/ FailureNotRecorded(w)
             \/ SetShopSyncState(w) \/ StatementFails(w)
    <3>1. pc'[w] \in {"mark", "unlock"} => failure'[w] # "none"
      BY <2>6 DEF AssertCurrentShopIdentity, FailSyncRun, FailureNotRecorded,
         SetShopSyncState, StatementFails, OwnOutcome, locals
    <3> QED BY <1>3, <3>1
  <2> QED BY <1>3, <2>1, <2>2, <2>3, <2>4, <2>5, <2>6 DEF StepOf, Step
<1>4. ASSUME NEW w \in Worker, StepOf(w), NEW v \in Worker, v # w, Due(v)' PROVE Held(v)'
  <2>1. Untouched(v)
    BY <1>4, Locality
  <2>2. Due(v)
    BY <1>4, <2>1 DEF Untouched, RefreshSucceeds, SyncComplete, OneBatch
  <2> QED BY <1>2, <2>1, <2>2
<1>5. ASSUME Beside \/ UNCHANGED vars, NEW v \in Worker, Due(v)' PROVE Held(v)'
  <2>1. UNCHANGED <<pc, asked, run, batches, complete, proof, failure>>
    BY <1>5, BesideLeaves DEF vars, locals
  <2>2. Due(v)
    BY <1>5, <2>1 DEF RefreshSucceeds, SyncComplete, OneBatch
  <2> QED BY <1>1, <2>1, <2>2
<1> QED BY <1>3, <1>4, <1>5, NextSplit DEF Refreshing

-----------------------------------------------------------------------------
(* Orders: what is read is at least as new as the run, and is not lost.    *)

LEMMA FloorsStep ==
  ASSUME TypeOK, TypeOK', Floors, [Next]_vars
  PROVE  /\ Floors'
         /\ \A r \in Run : status[r] # "ABSENT" => floor'[r] = floor[r]
<1>0. /\ \A o \in Order : source[o] \in Int /\ source'[o] \in Int
      /\ source \in [Order -> Version]
      /\ floor \in [Run -> [Order -> Version]]
      /\ \A r \in Run, o \in Order : floor[r][o] \in Int
  BY DEF TypeOK, Version
<1>1. source' = source \/ SourceChanges
  BY ZenonT(40) DEF Next, Step, TryLock, AssertCurrentShopIdentity, BeginSyncRun, YieldOrders,
     YieldFinancials, Exhausted, SourceThrows, WriteBatch, UpdateSyncCheckpoint, CompleteOrders,
     CompleteWithoutBatch, FinalizeUnproven, FinalizeProven, CompletionThrows, MarkShopSynced,
     FailSyncRun, FailureNotRecorded, SetShopSyncState, Unlock, Crash, LoseLockSession,
     StatementFails, AbortStaleSyncRuns, TenMinutesPass, VerifyShop, Tick, vars, external
<1>2. floor' = floor \/ \E w \in Worker : BeginSyncRun(w)
  BY ZenonT(40) DEF Next, Step, TryLock, AssertCurrentShopIdentity, YieldOrders, SourceChanges,
     YieldFinancials, Exhausted, SourceThrows, WriteBatch, UpdateSyncCheckpoint, CompleteOrders,
     CompleteWithoutBatch, FinalizeUnproven, FinalizeProven, CompletionThrows, MarkShopSynced,
     FailSyncRun, FailureNotRecorded, SetShopSyncState, Unlock, Crash, LoseLockSession,
     StatementFails, AbortStaleSyncRuns, TenMinutesPass, VerifyShop, Tick, vars, history
<1>3. \A o \in Order : source[o] <= source'[o]
  <2>2. CASE SourceChanges
    <3>1. PICK p \in Order : source' = [source EXCEPT ![p] = @ + 1]
      BY <2>2 DEF SourceChanges
    <3>2. \A o \in Order : source'[o] = source[o] \/ source'[o] = source[o] + 1
      BY <1>0, <3>1
    <3>3. \A n \in Int : n <= n /\ n <= n + 1
      OBVIOUS
    <3> QED BY <1>0, <3>2, <3>3
  <2> QED BY <1>0, <1>1, <2>2
<1>4. ASSUME NEW w \in Worker, BeginSyncRun(w)
      PROVE  \E r \in Run : /\ status[r] = "ABSENT"
                            /\ floor' = floor \/ floor' = [floor EXCEPT ![r] = source]
  BY <1>4 DEF BeginSyncRun, NextRun
<1>5. \A r \in Run : floor'[r] = floor[r] \/ (status[r] = "ABSENT" /\ floor'[r] = source)
  BY <1>0, <1>2, <1>4
<1>6. \A r \in Run, o \in Order : floor'[r][o] <= source'[o]
  <2>1. \A r \in Run, o \in Order : floor[r][o] <= source[o]
    BY DEF Floors
  <2> QED BY <1>0, <1>3, <1>5, <2>1
<1> QED BY <1>5, <1>6 DEF Floors

LEMMA RowsGrow ==
  ASSUME TypeOK, [Next]_vars
  PROVE  \A o \in Dated : row'[o] >= row[o]
<1>1. row' = row \/ \E w \in Worker : WriteBatch(w) /\ UpsertOrderBatch(w)
  BY ZenonT(40) DEF Next, Step, TryLock, AssertCurrentShopIdentity, YieldOrders, SourceChanges,
     BeginSyncRun, YieldFinancials, Exhausted, SourceThrows, WriteBatch, UpdateSyncCheckpoint,
     CompleteOrders, CompleteWithoutBatch, FinalizeUnproven, FinalizeProven, CompletionThrows,
     MarkShopSynced, FailSyncRun, FailureNotRecorded, SetShopSyncState, Unlock, Crash,
     LoseLockSession, StatementFails, AbortStaleSyncRuns, TenMinutesPass, VerifyShop, Tick, vars
<1>2. \A o \in Order : row[o] \in Int
  BY DEF TypeOK, Version
<1>3. ASSUME NEW w \in Worker, UpsertOrderBatch(w) PROVE \A o \in Dated : row'[o] >= row[o]
  BY <1>2, <1>3, ShopSyncConstants DEF UpsertOrderBatch, Replaces
<1>4. CASE row' = row
  BY <1>2, <1>4, ShopSyncConstants
<1> QED BY <1>1, <1>3, <1>4

\* What a call has caught stays caught while it does not move.
LEMMA CaughtStays ==
  ASSUME TypeOK, TypeOK', OwnRun, Floors, NEW v \in Worker, CaughtBy(v), [Next]_vars,
         asked'[v] = asked[v], run'[v] = run[v], part'[v] = part[v], seen'[v] = seen[v],
         complete'[v] = complete[v], batch'[v] = batch[v],
         \/ pc'[v] = pc[v]
         \/ pc[v] \in Reading /\ pc'[v] \in Reading \ {"write", "mark"}
         \/ pc[v] \in Reading /\ pc'[v] = "mark" /\ complete[v]
  PROVE  CaughtBy(v)'
<1>1. CASE asked[v] = "orders" /\ pc'[v] \in Reading
  <2>1. pc[v] \in Reading /\ run[v] \in Run /\ status[run[v]] # "ABSENT"
    BY <1>1 DEF OwnRun, Reading, Open
  <2>2. floor'[run[v]] = floor[run[v]]
    BY <2>1, FloorsStep
  <2>3. \A o \in Order : row[o] \in Int /\ row'[o] \in Int /\ floor[run[v]][o] \in Int
    BY <2>1 DEF TypeOK, Version
  <2>4. \A o \in Dated : o \in Order /\ row'[o] >= row[o]
    BY RowsGrow, ShopSyncConstants
  <2>5. /\ \A o \in DOMAIN part[v] : part[v][o] >= floor[run[v]][o]
        /\ \A o \in Dated \cap (seen[v] \ DOMAIN part[v]) : row[o] >= floor[run[v]][o]
        /\ complete[v] => seen[v] = Order
        /\ pc[v] = "write" /\ batch[v].complete => seen[v] = Order
        /\ pc[v] = "mark" => complete[v]
    BY <1>1, <2>1 DEF CaughtBy
  <2>6. \A o \in Dated \cap (seen[v] \ DOMAIN part[v]) : row'[o] >= floor[run[v]][o]
    BY <2>3, <2>4, <2>5
  <2> QED BY <2>2, <2>5, <2>6 DEF CaughtBy, Reading
<1>2. CASE asked[v] # "orders" \/ pc'[v] \notin Reading
  BY <1>2 DEF CaughtBy
<1> QED BY <1>1, <1>2

LEMMA CaughtAfterBegin ==
  ASSUME TypeOK, TypeOK', Floors, NEW w \in Worker, BeginSyncRun(w), DOMAIN part[w] = {}
  PROVE  CaughtBy(w)'
<1>1. /\ pc'[w] = "collect" /\ seen'[w] = {} /\ complete'[w] = FALSE /\ part' = part
  BY DEF BeginSyncRun, TypeOK, Goto
<1> QED BY <1>1 DEF CaughtBy

LEMMA CaughtAfterYield ==
  ASSUME TypeOK, TypeOK', OwnRun, Floors, NEW w \in Worker, CaughtBy(w),
         DOMAIN part[w] = {}, YieldOrders(w)
  PROVE  CaughtBy(w)'
<1>1. PICK S \in SUBSET Order, c \in BOOLEAN :
        /\ c => seen[w] \cup S = Order
        /\ part' = [part EXCEPT ![w] = [o \in S |-> source[o]]]
        /\ seen' = [seen EXCEPT ![w] = @ \cup S]
        /\ batch' = [batch EXCEPT ![w] = [EmptyBatch EXCEPT !.complete = c]]
  BY DEF YieldOrders
<1>2. /\ part'[w] = [o \in S |-> source[o]] /\ seen'[w] = seen[w] \cup S
      /\ batch'[w].complete = c
  BY <1>1 DEF TypeOK, EmptyBatch
<1>3. /\ pc[w] = "collect" /\ pc'[w] = "write" /\ asked[w] = "orders" /\ run[w] \in Run
      /\ UNCHANGED <<asked, run, complete, floor, row>>
  BY DEF YieldOrders, TypeOK, Goto, OwnRun, Open, history
<1>4. /\ \A o \in Dated \cap seen[w] : row[o] >= floor[run[w]][o]
      /\ complete[w] => seen[w] = Order
  BY <1>3 DEF CaughtBy, Reading, Open
<1>5. \A o \in S : source[o] >= floor[run[w]][o]
  BY <1>3 DEF Floors, TypeOK, Version
<1>6. \A o \in DOMAIN part'[w] : part'[w][o] >= floor[run[w]][o]
  BY <1>2, <1>5
<1>7. \A o \in Dated \cap (seen'[w] \ DOMAIN part'[w]) : row[o] >= floor[run[w]][o]
  BY <1>2, <1>4
<1>8. (complete[w] => seen'[w] = Order) /\ (batch'[w].complete => seen'[w] = Order)
  BY <1>1, <1>2, <1>4 DEF TypeOK
<1> QED BY <1>3, <1>6, <1>7, <1>8 DEF CaughtBy

LEMMA CaughtAfterWrite ==
  ASSUME TypeOK, TypeOK', OwnRun, NEW w \in Worker, CaughtBy(w), WriteBatch(w)
  PROVE  CaughtBy(w)'
<1>1. CASE asked[w] = "orders"
  <2>1. /\ pc[w] = "write" /\ pc'[w] = "checkpoint" /\ run[w] \in Run
        /\ UpsertOrderBatch(w) /\ DOMAIN part'[w] = {}
        /\ complete'[w] = batch[w].complete
        /\ UNCHANGED <<asked, run, seen, batch, floor>>
    BY <1>1, PartTyped DEF WriteBatch, TypeOK, Goto, OwnRun, Open, history
  <2>2. /\ \A o \in DOMAIN part[w] : part[w][o] >= floor[run[w]][o]
        /\ \A o \in Dated \cap (seen[w] \ DOMAIN part[w]) : row[o] >= floor[run[w]][o]
        /\ batch[w].complete => seen[w] = Order
    BY <1>1, <2>1 DEF CaughtBy, Reading, Open
  <2>3. /\ \A o \in Order : row[o] \in Int /\ floor[run[w]][o] \in Int
        /\ \A o \in DOMAIN part[w] : part[w][o] \in Int
    BY <2>1, PartTyped DEF TypeOK, Version
  <2>4. \A o \in Dated \cap seen[w] : row'[o] >= floor[run[w]][o]
    <3>1. ASSUME NEW o \in Dated, o \in seen[w] PROVE row'[o] >= floor[run[w]][o]
      <4>1. o \in Order
        BY ShopSyncConstants
      <4>2. CASE o \in DOMAIN part[w] /\ Replaces(o, part[w][o])
        BY <2>1, <2>2, <4>1, <4>2 DEF UpsertOrderBatch
      <4>3. CASE o \in DOMAIN part[w] /\ ~Replaces(o, part[w][o])
        <5>1. row'[o] = row[o] /\ row[o] >= part[w][o]
          BY <2>1, <2>3, <4>1, <4>3 DEF UpsertOrderBatch, Replaces
        <5> QED BY <2>2, <2>3, <4>1, <4>3, <5>1
      <4>4. CASE o \notin DOMAIN part[w]
        BY <2>1, <2>2, <3>1, <4>1, <4>4 DEF UpsertOrderBatch
      <4> QED BY <4>2, <4>3, <4>4
    <3> QED BY <3>1
  <2> QED BY <2>1, <2>2, <2>4 DEF CaughtBy
<1>2. CASE asked[w] # "orders"
  BY <1>2 DEF WriteBatch, CaughtBy
<1> QED BY <1>1, <1>2

LEMMA PartStep ==
  ASSUME TypeOK, NEW w \in Worker, StepOf(w),
         pc[w] \notin {"write", "fail", "pause", "unlock"} => DOMAIN part[w] = {},
         pc'[w] \notin {"write", "fail", "pause", "unlock"}
  PROVE  DOMAIN part'[w] = {}
<1> USE DEF TypeOK, Goto, locals
<1>1. CASE WriteBatch(w) \/ Unlock(w) \/ Crash(w)
  BY <1>1, PartTyped DEF WriteBatch, Unlock, Crash, Forget
<1>2. CASE \/ TryLock(w) \/ AssertCurrentShopIdentity(w) \/ BeginSyncRun(w) \/ Exhausted(w)
           \/ UpdateSyncCheckpoint(w) \/ LoseLockSession(w)
  BY <1>2 DEF TryLock, AssertCurrentShopIdentity, BeginSyncRun, Exhausted,
     UpdateSyncCheckpoint, LoseLockSession
<1>3. CASE \/ CompleteOrders(w) \/ CompleteWithoutBatch(w) \/ FinalizeUnproven(w)
           \/ FinalizeProven(w)
  BY <1>3 DEF CompleteOrders, CompleteWithoutBatch, FinalizeUnproven, FinalizeProven
<1>4. CASE \/ YieldOrders(w) \/ YieldFinancials(w) \/ SourceThrows(w) \/ CompletionThrows(w)
           \/ MarkShopSynced(w) \/ FailSyncRun(w) \/ FailureNotRecorded(w)
           \/ SetShopSyncState(w) \/ StatementFails(w)
  <2>1. pc'[w] \in {"write", "fail", "pause", "unlock"}
    BY <1>4 DEF YieldOrders, YieldFinancials, SourceThrows, CompletionThrows, MarkShopSynced,
       FailSyncRun, FailureNotRecorded, SetShopSyncState, StatementFails
  <2> QED BY <2>1
<1> QED BY <1>1, <1>2, <1>3, <1>4 DEF StepOf, Step

LEMMA CaughtStep ==
  ASSUME TypeOK, TypeOK', OwnRun, Floors, Caught, [Next]_vars
  PROVE  Caught'
<1>1. ASSUME NEW w \in Worker, StepOf(w) PROVE CaughtBy(w)'
  <2>0. CaughtBy(w) /\ (pc[w] \notin {"write", "fail", "pause", "unlock"} => DOMAIN part[w] = {})
    BY DEF Caught
  <2>1. CASE BeginSyncRun(w)
    BY <2>0, <2>1, CaughtAfterBegin DEF BeginSyncRun
  <2>2. CASE YieldOrders(w)
    BY <2>0, <2>2, CaughtAfterYield DEF YieldOrders
  <2>3. CASE WriteBatch(w)
    BY <2>0, <2>3, CaughtAfterWrite
  <2>4. CASE Exhausted(w) \/ UpdateSyncCheckpoint(w) \/ LoseLockSession(w)
    <3>1. /\ UNCHANGED <<asked, run, part, seen, complete, batch>>
          /\ \/ pc'[w] = pc[w]
             \/ pc[w] \in Reading /\ pc'[w] \in Reading \ {"write", "mark"}
      BY <2>4 DEF Exhausted, UpdateSyncCheckpoint, LoseLockSession, TypeOK, Goto, Reading,
         Open, locals
    <3> QED BY <2>0, <3>1, CaughtStays
  <2>5. CASE CompleteOrders(w)
    <3>1. /\ UNCHANGED <<asked, run, part, seen, complete, batch>>
          /\ pc[w] \in Reading
          /\ \/ pc'[w] \notin Reading
             \/ pc'[w] = "mark" /\ complete[w]
      BY <2>5 DEF CompleteOrders, AfterCompletion, SyncComplete, TypeOK, Goto, Reading,
         Open, locals
    <3>2. CASE pc'[w] \notin Reading
      BY <3>2 DEF CaughtBy
    <3> QED BY <2>0, <3>1, <3>2, CaughtStays
  <2>6. CASE \/ CompleteWithoutBatch(w) \/ FinalizeUnproven(w) \/ FinalizeProven(w)
             \/ YieldFinancials(w)
    <3>1. asked'[w] # "orders"
      BY <2>6 DEF CompleteWithoutBatch, FinalizeUnproven, FinalizeProven, YieldFinancials
    <3> QED BY <3>1 DEF CaughtBy
  <2>7. CASE \/ TryLock(w) \/ AssertCurrentShopIdentity(w) \/ SourceThrows(w)
             \/ CompletionThrows(w) \/ MarkShopSynced(w) \/ FailSyncRun(w)
             \/ FailureNotRecorded(w) \/ SetShopSyncState(w) \/ Unlock(w) \/ Crash(w)
             \/ StatementFails(w)
    <3>1. pc'[w] \notin Reading
      BY <2>7 DEF TryLock, AssertCurrentShopIdentity, SourceThrows, CompletionThrows,
         MarkShopSynced, FailSyncRun, FailureNotRecorded, SetShopSyncState, Unlock, Crash,
         Forget, StatementFails, TypeOK, Goto, Reading, Open
    <3> QED BY <3>1 DEF CaughtBy
  <2> QED BY <1>1, <2>1, <2>2, <2>3, <2>4, <2>5, <2>6, <2>7 DEF StepOf, Step
<1>2. ASSUME NEW w \in Worker, StepOf(w), NEW v \in Worker
      PROVE  /\ CaughtBy(v)'
             /\ pc'[v] \notin {"write", "fail", "pause", "unlock"} => DOMAIN part'[v] = {}
  <2>1. CASE v = w
    BY <1>1, <1>2, <2>1, PartStep DEF Caught
  <2>2. CASE v # w
    <3>1. Untouched(v)
      BY <1>2, <2>2, Locality
    <3> QED BY <3>1, CaughtStays DEF Untouched, Caught
  <2> QED BY <2>1, <2>2
<1>3. CASE Beside \/ UNCHANGED vars
  <2>1. UNCHANGED <<pc, asked, run, part, seen, complete, batch>>
    BY <1>3, BesideLeaves DEF vars, locals
  <2> QED BY <2>1, CaughtStays DEF Caught
<1> QED BY <1>2, <1>3, NextSplit DEF Caught

-----------------------------------------------------------------------------
(* What the shop says of its syncs.                                        *)

LEMMA ShopFrame ==
  ASSUME [Next]_vars
  PROVE  /\ synced' = synced \/ \E w \in Worker : MarkShopSynced(w)
         /\ \/ syncState' = syncState \/ syncState' = "ACTIVE"
            \/ \E w \in Worker : SetShopSyncState(w)
BY ZenonT(40) DEF Next, Step, TryLock, AssertCurrentShopIdentity, YieldOrders, SourceChanges,
   BeginSyncRun, YieldFinancials, Exhausted, SourceThrows, WriteBatch, UpdateSyncCheckpoint,
   CompleteOrders, CompleteWithoutBatch, FinalizeUnproven, FinalizeProven, CompletionThrows,
   MarkShopSynced, FailSyncRun, FailureNotRecorded, SetShopSyncState, Unlock, Crash,
   LoseLockSession, StatementFails, AbortStaleSyncRuns, TenMinutesPass, VerifyShop, Tick, vars

\* A settled run that vouches for the sync of k goes on doing so.
Vouches(k, r) ==
  /\ status[r] = "SUCCEEDED" /\ kind[r] = k /\ sourceComplete[r]
  /\ k = "orders" => \A o \in Dated : row[o] >= floor[r][o]

LEMMA VouchingStays ==
  ASSUME TypeOK, TypeOK', OwnRun, Floors, [Next]_vars, NEW k \in Kind, NEW r \in Run,
         Vouches(k, r)
  PROVE  Vouches(k, r)'
<1>1. Kept(r) /\ floor'[r] = floor[r]
  BY RowsKept, FloorsStep DEF Vouches
<1>2. \A o \in Dated : /\ row'[o] >= row[o]
                       /\ row[o] \in Int /\ row'[o] \in Int /\ floor[r][o] \in Int
  BY RowsGrow, ShopSyncConstants DEF TypeOK, Version
<1>3. k = "orders" => \A o \in Dated : row'[o] >= floor[r][o]
  BY <1>2 DEF Vouches
<1> QED BY <1>1, <1>3 DEF Vouches, Kept

LEMMA SyncedVouched ==
  ASSUME TypeOK
  PROVE  SyncedIsEarned <=> \A k \in Kind : synced[k] # NoRun => Vouches(k, synced[k])
BY DEF SyncedIsEarned, SyncedByWholeRun, SyncedOrdersAreFresh, Vouches, Kind

LEMMA SyncedStep ==
  ASSUME TypeOK, TypeOK', OwnRun, OwnOutcome, Floors, Caught, SyncedIsEarned, [Next]_vars
  PROVE  SyncedIsEarned'
<1>1. ASSUME NEW k \in Kind, NEW r \in Run, Vouches(k, r) PROVE Vouches(k, r)'
  BY <1>1, VouchingStays
<1>2. \A k \in Kind : synced[k] # NoRun => synced[k] \in Run /\ Vouches(k, synced[k])
  BY SyncedVouched DEF TypeOK
<1>3. ASSUME NEW w \in Worker, MarkShopSynced(w)
      PROVE  asked[w] \in Kind /\ run[w] \in Run /\ Vouches(asked[w], run[w])
  <2>1. /\ pc[w] = "mark" /\ asked[w] \in Kind /\ run[w] \in Run
        /\ status[run[w]] = "SUCCEEDED" /\ sourceComplete[run[w]] /\ kind[run[w]] = asked[w]
    BY <1>3 DEF MarkShopSynced, TypeOK, OwnRun, OwnOutcome
  <2>2. CASE asked[w] = "orders"
    <3>1. seen[w] = Order /\ DOMAIN part[w] = {}
      BY <2>1, <2>2 DEF Caught, CaughtBy, Reading
    <3>2. \A o \in Dated : row[o] >= floor[run[w]][o]
      BY <2>1, <2>2, <3>1, ShopSyncConstants DEF Caught, CaughtBy, Reading
    <3> QED BY <2>1, <3>2 DEF Vouches
  <2>3. CASE asked[w] # "orders"
    BY <2>1, <2>3 DEF Vouches
  <2> QED BY <2>1, <2>2, <2>3
<1>4. \A k \in Kind : synced'[k] # NoRun => synced'[k] \in Run /\ Vouches(k, synced'[k])
  <2>1. CASE synced' = synced
    BY <1>2, <2>1
  <2>2. ASSUME NEW w \in Worker, MarkShopSynced(w)
        PROVE  \A k \in Kind : synced'[k] # NoRun => synced'[k] \in Run /\ Vouches(k, synced'[k])
    <3>1. synced' = [synced EXCEPT ![asked[w]] = run[w]]
      BY <2>2 DEF MarkShopSynced
    <3> QED BY <1>2, <1>3, <2>2, <3>1 DEF TypeOK
  <2> QED BY <2>1, <2>2, ShopFrame
<1>5. ASSUME NEW k \in Kind, synced'[k] # NoRun
      PROVE  /\ status'[synced'[k]] = "SUCCEEDED" /\ kind'[synced'[k]] = k
             /\ sourceComplete'[synced'[k]]
             /\ k = "orders" => \A o \in Dated : row'[o] >= floor'[synced'[k]][o]
  <2>1. PICK r \in Run : synced'[k] = r /\ Vouches(k, r)
    BY <1>4, <1>5
  <2> QED BY <1>1, <2>1 DEF Vouches
<1> QED BY <1>5 DEF SyncedIsEarned, SyncedByWholeRun, SyncedOrdersAreFresh, Kind

LEMMA PauseStep ==
  ASSUME TypeOK, OwnRun, OwnOutcome, PauseIsExplained, [Next]_vars
  PROVE  PauseIsExplained'
<1>1. ASSUME NEW r \in Run, status[r] = "PAUSED" PROVE status'[r] = "PAUSED"
  BY <1>1, RowsKept DEF Kept
<1>2. ASSUME NEW w \in Worker, SetShopSyncState(w) PROVE \E r \in Run : status[r] = "PAUSED"
  BY <1>2 DEF SetShopSyncState, OwnRun, OwnOutcome
<1> QED BY <1>1, <1>2, ShopFrame DEF PauseIsExplained

-----------------------------------------------------------------------------
(* The theorems.                                                           *)

LEMMA SInvInit == Init => SInv
<1> SUFFICES ASSUME Init PROVE SInv
  OBVIOUS
<1>1. TypeOK
  BY TypeInit
<1>2. OwnRun /\ OwnOutcome /\ Counted /\ Refreshing
  BY ConstantsTyped DEF Init, OwnRun, OwnOutcome, Counted, Refreshing, Open
<1>3. Floors /\ Caught
  BY PartTyped, ConstantsTyped, ShopSyncConstants
     DEF Init, Floors, Caught, CaughtBy, Reading, Open
<1>4. CapturesAreProven /\ RefreshIsProven /\ SyncedIsEarned /\ PauseIsExplained
  BY DEF Init, CapturesAreProven, RefreshIsProven, SyncedIsEarned, SyncedByWholeRun,
     SyncedOrdersAreFresh, PauseIsExplained, Kind
<1> QED BY <1>1, <1>2, <1>3, <1>4 DEF SInv

LEMMA SInvStep ==
  ASSUME SInv, [Next]_vars
  PROVE  SInv'
<1> USE DEF SInv
<1>1. TypeOK'
  BY TypeStep
<1>2. OwnRun'
  BY OwnRunStep
<1>3. OwnOutcome' /\ Counted' /\ Refreshing'
  BY <1>2, OwnOutcomeStep, CountedStep, RefreshingStep
<1>4. Floors' /\ Caught'
  BY <1>1, FloorsStep, CaughtStep
<1>5. CapturesAreProven' /\ RefreshIsProven'
  BY CapturesStep, RefreshedStep
<1>6. SyncedIsEarned' /\ PauseIsExplained'
  BY <1>1, SyncedStep, PauseStep
<1> QED BY <1>1, <1>2, <1>3, <1>4, <1>5, <1>6

LEMMA SInvInvariant == Spec => []SInv
BY SInvInit, SInvStep, PTL DEF Spec

\* The rows and locals of a sync keep their types, and no counter of batches
\* passes its bound (the tables of db/schema.ts, the locals of runShopSync).
THEOREM TypeCorrect == Spec => []TypeOK
<1>1. SInv => TypeOK
  BY DEF SInv
<1> QED BY <1>1, SInvInvariant, PTL

\* Every stored finance capture is authoritative evidence of one reading:
\* finalizeFinanceSyncRun writes it with the completion of its run, or nothing.
THEOREM CapturesCorrect == Spec => []CapturesAreProven
<1>1. SInv => CapturesAreProven
  BY DEF SInv
<1> QED BY <1>1, SInvInvariant, PTL

\* Whatever instant runAuthoritativeFinanceRefresh answered SUCCEEDED for, the
\* finance summary proves, then and for good.
THEOREM RefreshCorrect == Spec => []RefreshIsProven
<1>1. SInv => RefreshIsProven
  BY DEF SInv
<1> QED BY <1>1, SInvInvariant, PTL

\* A shop is marked synced by a SUCCEEDED run of the whole source, and its dated
\* orders are stored at least as new as when that run began (markShopSynced).
THEOREM SyncedCorrect == Spec => []SyncedIsEarned
<1>1. SInv => SyncedIsEarned
  BY DEF SInv
<1> QED BY <1>1, SInvInvariant, PTL

\* A paused shop has a run recorded PAUSED (failSyncRun, setShopSyncState).
THEOREM PauseCorrect == Spec => []PauseIsExplained
<1>1. SInv => PauseIsExplained
  BY DEF SInv
<1> QED BY <1>1, SInvInvariant, PTL

\* No step alters the row of a settled run, or replaces a capture
\* (completeSyncRun and failSyncRun write rows that are RUNNING only).
THEOREM SettledIsFinal ==
  Spec => [][/\ \A r \in Run : Kept(r)
             /\ \A t \in Instant : capture[t] # NoCapture => capture'[t] = capture[t]]_vars
<1>1. SInv /\ [Next]_vars => /\ \A r \in Run : Kept(r)
                             /\ \A t \in Instant : capture[t] # NoCapture =>
                                  capture'[t] = capture[t]
  BY RowsKept, CapturesStay DEF SInv
<1> QED BY <1>1, SInvInvariant, PTL DEF Spec
=============================================================================
