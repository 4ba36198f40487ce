------------------------- MODULE CotikTracking_proofs -------------------------
(***************************************************************************)
(* Theorems about CotikTracking, for every number of workers and intents   *)
(* and any overlap of their cycles, in three parts:                        *)
(*   1. safety of the rows: types, the ledger of attempts, that ABORTED    *)
(*      means never sent, and CONFIRMED held;                              *)
(*   2. what is true at the moment of sending;                             *)
(*   3. that CotikTracking implements TrackingContract.                    *)
(* Each part extends the invariant of the one before.                      *)
(***************************************************************************)
EXTENDS CotikTracking, TLAPS

-----------------------------------------------------------------------------
(***************************************************************************)
(* 1. Safety of the rows.                                                  *)
(***************************************************************************)

-----------------------------------------------------------------------------
(* Types.                                                                  *)

LEMMA RowsSame == RowsOK /\ UNCHANGED intentRows => RowsOK'
BY DEF RowsOK, intentRows

LEMMA OutsideSame == OutsideOK /\ UNCHANGED outside => OutsideOK'
BY DEF OutsideOK, outside, settings, routing, cotik

LEMMA OutsideLock == OutsideOK => lock \in Worker \cup {NoWorker}
BY DEF OutsideOK

LEMMA CyclesSame == CyclesOK /\ UNCHANGED cycles => CyclesOK'
BY DEF CyclesOK, cycles, plan, results

\* What createOrGetPostIntent can do to the rows in one of its statements.
Creates(i, a) ==
  /\ status' = [status EXCEPT ![i] = IF @ = "ABSENT" THEN "PENDING" ELSE @]
  /\ account' = [account EXCEPT
                   ![i] = IF status[i] = "ABSENT" \/ Unattempted(i) THEN a ELSE @]
  /\ UNCHANGED <<attempts, outcome>>

LEMMA StatementsCreate ==
  ASSUME RowsOK, NEW i \in Intent, NEW a,
         InsertPostIntent(i, a) \/ RerouteUnattempted(i, a)
  PROVE  Creates(i, a)
BY DEF RowsOK, InsertPostIntent, RerouteUnattempted, Creates, Unattempted

LEMMA StagingMoves ==
  ASSUME TypeOK, NEW s \in Stager, StageCotikTracking(s)
  PROVE  /\ call' \in [Stager -> Calls]
         /\ UNCHANGED <<settings, evidence, usable, lock, cycles, cotik, fresh, faults>>
         /\ \/ UNCHANGED intentRows
            \/ \E i \in Intent, a \in Account : SourceOf[i] = NoIntent /\ Creates(i, a)
<1>1. RowsOK /\ call \in [Stager -> Calls] /\ NoCall \in Calls
  BY DEF TypeOK, OutsideOK, Calls
<1>2. ASSUME NEW i \in Intent, StageResolve(s, i)
     PROVE  call' \in [Stager -> Calls]
  <2>1. evidence[i] \in Account /\ SourceOf[i] = NoIntent
    BY <1>2 DEF StageResolve, TypeOK, OutsideOK
  <2>2. [at |-> "insert", intent |-> i, account |-> evidence[i]] \in Calls
    BY <2>1 DEF Calls
  <2> QED BY <1>1, <1>2, <2>2 DEF StageResolve
<1>3. CASE ~Staging(s, "idle")
  <2>1. CASE call[s] = NoCall
    BY <1>3, <2>1 DEF Staging, NoCall
  <2>2. CASE call[s] # NoCall
    <3>1. /\ call[s].intent \in Intent
          /\ SourceOf[call[s].intent] = NoIntent
          /\ call[s].account \in Account
          /\ \A at \in {"insert", "select", "update"} : [call[s] EXCEPT !.at = at] \in Calls
      BY <1>1, <2>2 DEF Calls
    <3>2. \A at \in {"insert", "select", "update"} :
            Proceed(s, at) => call' \in [Stager -> Calls]
      BY <1>1, <3>1 DEF Proceed
    <3>3. Returns(s) => call' \in [Stager -> Calls]
      BY <1>1 DEF Returns
    <3>4. \A i \in Intent : ~StageResolve(s, i)
      BY <1>3 DEF StageResolve
    <3>5. CASE StageInsert(s)
      BY <1>1, <3>1, <3>2, <3>3, <3>5, StatementsCreate DEF StageInsert
    <3>6. CASE StageSelect(s)
      BY <3>2, <3>3, <3>6 DEF StageSelect
    <3>7. CASE StageUpdate(s)
      BY <1>1, <3>1, <3>3, <3>7, StatementsCreate DEF StageUpdate
    <3> QED BY <3>4, <3>5, <3>6, <3>7 DEF StageCotikTracking
  <2> QED BY <2>1, <2>2
<1>4. CASE Staging(s, "idle")
  <2>1. PICK i \in Intent : StageResolve(s, i)
    BY <1>4 DEF StageCotikTracking, Staging, StageInsert, StageSelect, StageUpdate
  <2> QED BY <1>2, <2>1 DEF StageResolve
<1> QED BY <1>3, <1>4

LEMMA ReplayMoves ==
  ASSUME RowsOK, NEW i \in Intent, StageConfirmedForReplay(i)
  PROVE  /\ SourceOf[i] # NoIntent /\ status[SourceOf[i]] = "CONFIRMED"
         /\ Creates(i, account[SourceOf[i]])
         /\ UNCHANGED <<settings, routing, lock, cycles, cotik, fresh, faults>>
BY StatementsCreate DEF StageConfirmedForReplay, CreateForReplay

LEMMA CreateTyped ==
  ASSUME RowsOK, NEW i \in Intent, NEW a \in Account \cup {NoAccount},
         Creates(i, a)
  PROVE  RowsOK'
BY DEF RowsOK, Creates, Status, Unattempted

LEMMA StatusAfterTyped ==
  ASSUME NEW n, NEW how PROVE StatusAfter(n, how) \in Status
BY DEF StatusAfter, Status

LEMMA RecordTyped ==
  ASSUME RowsOK, NEW i, NEW n, NEW out \in Outcome, NEW how,
         RecordPostAttempt(i, n, out, how)
  PROVE  RowsOK'
BY StatusAfterTyped DEF RowsOK, RecordPostAttempt, Recordable

LEMMA ReserveTyped ==
  ASSUME RowsOK, NEW S \in SUBSET Intent, \A i \in S : Postable(i),
         ReservePostIntents(S)
  PROVE  RowsOK'
BY TrackingConstants DEF RowsOK, ReservePostIntents, Postable, Status, Outcome, AttemptNo

LEMMA ForgetTyped ==
  ASSUME CyclesOK, NEW w \in Worker, NEW S \in SUBSET Intent, NEW p \in Pc,
         Goto(w, p), Forget(w, S)
  PROVE  CyclesOK'
BY TrackingConstants DEF CyclesOK, Goto, Forget, Visit, Keep, Current

LEMMA NextAccountTyped ==
  ASSUME CyclesOK, NEW w \in Worker, NextAccount(w) PROVE CyclesOK'
<1>1. later[w] \in SUBSET Intent /\ "account" \in Pc
  BY DEF CyclesOK, Pc
<1> QED BY <1>1, ForgetTyped DEF NextAccount

LEMMA EndCycleTyped ==
  ASSUME CyclesOK, lock \in Worker \cup {NoWorker}, NEW w \in Worker, EndCycle(w)
  PROVE  CyclesOK' /\ lock' \in Worker \cup {NoWorker}
<1>1. {} \in SUBSET Intent /\ "idle" \in Pc
  BY DEF Pc
<1> QED BY <1>1, ForgetTyped DEF EndCycle, Released

\* The updates the cycle is built from.
LEMMA LocalsTyped ==
  ASSUME RowsOK, CyclesOK, NEW w \in Worker
  PROVE  /\ \A p \in Pc : Goto(w, p) => pc' \in [Worker -> Pc]
         /\ \A S \in SUBSET Intent : Visit(w, S) => todo' \in [Worker -> SUBSET Intent]
         /\ \A i : Done(w, i) => todo' \in [Worker -> SUBSET Intent]
         /\ \A S \in SUBSET Intent : Keep(w, S) => kept' \in [Worker -> SUBSET Intent]
         /\ \A i \in Intent \cup {NoIntent} :
              Current(w, i) => cur' \in [Worker -> Intent \cup {NoIntent}]
         /\ \A S : Snapshot(w, S) => seen' \in [Worker -> [Intent -> 0..MaxAttempts]]
         /\ kept[w] \in SUBSET Intent
         /\ fail' = [fail EXCEPT ![w] = {OrderOf[i] : i \in kept[w]}]
              => fail' \in [Worker -> SUBSET Order]
<1>1. \A p \in Pc : Goto(w, p) => pc' \in [Worker -> Pc]
  BY DEF CyclesOK, Goto
<1>2. \A S \in SUBSET Intent : Visit(w, S) => todo' \in [Worker -> SUBSET Intent]
  BY DEF CyclesOK, Visit
<1>3. \A i : Done(w, i) => todo' \in [Worker -> SUBSET Intent]
  BY DEF CyclesOK, Done, Visit
<1>4. \A S \in SUBSET Intent : Keep(w, S) => kept' \in [Worker -> SUBSET Intent]
  BY DEF CyclesOK, Keep
<1>5. \A i \in Intent \cup {NoIntent} :
        Current(w, i) => cur' \in [Worker -> Intent \cup {NoIntent}]
  BY DEF CyclesOK, Current
<1>6. \A S : Snapshot(w, S) => seen' \in [Worker -> [Intent -> 0..MaxAttempts]]
  BY TrackingConstants DEF CyclesOK, RowsOK, Snapshot
<1>7. kept[w] \in SUBSET Intent
  BY DEF CyclesOK
<1>8. fail' = [fail EXCEPT ![w] = {OrderOf[i] : i \in kept[w]}]
        => fail' \in [Worker -> SUBSET Order]
  BY <1>7, TrackingConstants DEF CyclesOK
<1> QED BY <1>1, <1>2, <1>3, <1>4, <1>5, <1>6, <1>7, <1>8

-----------------------------------------------------------------------------
(* Type correctness.                                                       *)

LEMMA TypeInit == Init => TypeOK
BY TrackingConstants
DEF Init, TypeOK, RowsOK, CyclesOK, OutsideOK, Status, Outcome, Verdict, AttemptNo,
   NothingFresh, NoRoute, NoCount, Pc, Calls

LEMMA WorldTyped ==
  ASSUME TypeOK, World PROVE TypeOK'
<1> USE DEF TypeOK
<1>1. ASSUME NEW on \in BOOLEAN, SetSwitches(on) PROVE TypeOK'
  <2>1. RowsOK'
    BY <1>1, RowsSame DEF SetSwitches
  <2>2. CyclesOK'
    BY <1>1, CyclesSame DEF SetSwitches
  <2>3. OutsideOK'
    BY <1>1 DEF SetSwitches, OutsideOK, settings, routing, cotik
  <2> QED BY <2>1, <2>2, <2>3
<1>2. ASSUME NEW s \in Stager, StageCotikTracking(s) PROVE TypeOK'
  <2>1. RowsOK'
    BY <1>2, StagingMoves, RowsSame, CreateTyped
  <2>2. CyclesOK'
    BY <1>2, StagingMoves, CyclesSame
  <2>3. OutsideOK'
    BY <1>2, StagingMoves DEF OutsideOK, settings, cotik
  <2> QED BY <2>1, <2>2, <2>3
<1>3. ASSUME NEW i \in Intent, StageConfirmedForReplay(i) PROVE TypeOK'
  <2>0. account[SourceOf[i]] \in Account \cup {NoAccount}
    BY <1>3, TrackingConstants DEF StageConfirmedForReplay, RowsOK
  <2>1. RowsOK'
    BY <1>3, <2>0, ReplayMoves, CreateTyped
  <2>2. CyclesOK'
    BY <1>3, CyclesSame DEF StageConfirmedForReplay, CreateForReplay
  <2>3. OutsideOK'
    BY <1>3, OutsideSame DEF StageConfirmedForReplay, CreateForReplay, outside
  <2> QED BY <2>1, <2>2, <2>3
<1>4. ASSUME NEW i \in Intent, ReopenPostIntentForReplay(i) PROVE TypeOK'
  <2>1. RowsOK'
    BY <1>4 DEF ReopenPostIntentForReplay, RowsOK, Status
  <2>2. CyclesOK'
    BY <1>4, CyclesSame DEF ReopenPostIntentForReplay
  <2>3. OutsideOK'
    BY <1>4, OutsideSame DEF ReopenPostIntentForReplay, outside, routing
  <2> QED BY <2>1, <2>2, <2>3
<1>5. ASSUME NEW i \in Intent, NEW a \in Account \cup {NoAccount}, EvidenceChanges(i, a)
     PROVE  TypeOK'
  <2>1. RowsOK'
    BY <1>5, RowsSame DEF EvidenceChanges
  <2>2. CyclesOK'
    BY <1>5, CyclesSame DEF EvidenceChanges
  <2>3. OutsideOK'
    BY <1>5 DEF EvidenceChanges, OutsideOK, settings, routing, cotik
  <2> QED BY <2>1, <2>2, <2>3
<1>6. ASSUME NEW o \in Order, TrackedByHand(o) PROVE TypeOK'
  <2>1. RowsOK'
    BY <1>6, RowsSame DEF TrackedByHand
  <2>2. CyclesOK'
    BY <1>6, CyclesSame DEF TrackedByHand
  <2>3. OutsideOK'
    BY <1>6, TrackingConstants DEF TrackedByHand, OutsideOK, settings, routing, cotik
  <2> QED BY <2>1, <2>2, <2>3
<1>7. ASSUME NEW i \in Intent, NEW n \in AttemptNo, CotikApplies(i, n) PROVE TypeOK'
  <2>1. RowsOK'
    BY <1>7, RowsSame DEF CotikApplies
  <2>2. CyclesOK'
    BY <1>7, CyclesSame DEF CotikApplies
  <2>3. OutsideOK'
    <3>1. OrderOf[i] \in Order /\ TrackingOf[i] \in Tracking
      BY TrackingConstants
    <3>2. held' \in [Order -> SUBSET Tracking]
      BY <1>7, <3>1 DEF CotikApplies, OutsideOK
    <3>3. tracking' \in [Order -> Tracking \cup {NoTracking}]
      BY <1>7, <3>1 DEF CotikApplies, OutsideOK
    <3> QED BY <1>7, <3>2, <3>3 DEF CotikApplies, OutsideOK, settings, routing, Verdict
  <2> QED BY <2>1, <2>2, <2>3
<1>8. ASSUME NEW i \in Intent, NEW n \in AttemptNo, CotikRejects(i, n) PROVE TypeOK'
  <2>1. RowsOK'
    BY <1>8, RowsSame DEF CotikRejects
  <2>2. CyclesOK'
    BY <1>8, CyclesSame DEF CotikRejects
  <2>3. OutsideOK'
    BY <1>8 DEF CotikRejects, OutsideOK, settings, routing, cotik, Verdict
  <2> QED BY <2>1, <2>2, <2>3
<1>9. ASSUME NEW a \in Account, AccountChanges(a) PROVE TypeOK'
  <2>1. RowsOK'
    BY <1>9, RowsSame DEF AccountChanges
  <2>2. CyclesOK'
    BY <1>9, CyclesSame DEF AccountChanges
  <2>3. OutsideOK'
    BY <1>9 DEF AccountChanges, OutsideOK, settings, cotik
  <2> QED BY <2>1, <2>2, <2>3
<1> QED BY <1>1, <1>2, <1>3, <1>4, <1>5, <1>6, <1>7, <1>8, <1>9 DEF World

LEMMA CycleStepTyped ==
  ASSUME TypeOK, NEW w \in Worker, CycleStep(w) PROVE TypeOK'
<1> USE DEF TypeOK
<1>1. CASE ReadDeployment(w)
  <2>1. RowsOK'
    BY <1>1, RowsSame DEF ReadDeployment
  <2>2. CyclesOK'
    BY <1>1 DEF ReadDeployment, CyclesOK, Goto, Pc, plan, results
  <2>3. OutsideOK'
    BY <1>1, OutsideSame DEF ReadDeployment
  <2> QED BY <2>1, <2>2, <2>3
<1>2. CASE ResetForDeployment(w)
  <2>1. RowsOK'
    BY <1>2, RowsSame DEF ResetForDeployment
  <2>2. CyclesOK'
    BY <1>2 DEF ResetForDeployment, CyclesOK, Goto, Pc, plan, results
  <2>3. OutsideOK'
    BY <1>2, TrackingConstants
    DEF ResetForDeployment, OutsideOK, settings, routing, cotik
  <2> QED BY <2>1, <2>2, <2>3
<1>3. CASE ReadSettings(w) \/ EndSyncOff(w) \/ ListInProgress(w) \/ RecoverMissed(w)
  <2>1. RowsOK'
    BY <1>3, RowsSame DEF ReadSettings, EndSyncOff, ListInProgress, RecoverMissed
  <2>2. CyclesOK'
    <3>1. CASE ListInProgress(w)
      <4>1. PICK S \in SUBSET Intent : Visit(w, S) /\ Snapshot(w, S)
        BY <3>1, TrackingConstants DEF ListInProgress
      <4>2. Goto(w, "recover") /\ UNCHANGED <<kept, cur, later, route, results>>
        BY <3>1 DEF ListInProgress
      <4> QED BY <4>1, <4>2, LocalsTyped DEF CyclesOK, results, Pc
    <3>2. CASE EndSyncOff(w)
      BY <3>2, EndCycleTyped, OutsideLock DEF EndSyncOff
    <3>3. CASE ReadSettings(w) \/ RecoverMissed(w)
      BY <3>3, LocalsTyped DEF ReadSettings, RecoverMissed, CyclesOK, Pc, plan, results
    <3> QED BY <1>3, <3>1, <3>2, <3>3
  <2>3. OutsideOK'
    <3>1. CASE EndSyncOff(w)
      BY <3>1, EndCycleTyped DEF EndSyncOff, OutsideOK, settings, routing, cotik
    <3>2. CASE ~EndSyncOff(w)
      BY <1>3, <3>2, OutsideSame DEF ReadSettings, ListInProgress, RecoverMissed
    <3> QED BY <3>1, <3>2
  <2> QED BY <2>1, <2>2, <2>3
<1>4. CASE RecoverRecord(w)
  <2>1. RowsOK'
    BY <1>4, RowsSame, RecordTyped DEF RecoverRecord, Outcome
  <2>2. CyclesOK'
    <3>1. CASE EndCycle(w)
      BY <3>1, EndCycleTyped, OutsideLock
    <3>2. CASE ~EndCycle(w)
      BY <1>4, <3>2, LocalsTyped DEF RecoverRecord, CyclesOK, Pc, plan, results
    <3> QED BY <3>1, <3>2
  <2>3. OutsideOK'
    BY <1>4, EndCycleTyped DEF RecoverRecord, OutsideOK, settings, routing, cotik
  <2> QED BY <2>1, <2>2, <2>3
<1>5. CASE ListPending(w)
  <2>1. RowsOK'
    BY <1>5, RowsSame DEF ListPending
  <2>2. CyclesOK'
    <3>1. PICK S \in SUBSET Intent :
            /\ Visit(w, S)
            /\ Snapshot(w, S)
            /\ route' = [route EXCEPT
                 ![w] = [i \in Intent |-> IF i \in S THEN account[i] ELSE NoAccount]]
      BY <1>5, TrackingConstants DEF ListPending
    <3>2. route' \in [Worker -> [Intent -> Account \cup {NoAccount}]]
      BY <3>1 DEF CyclesOK, RowsOK
    <3> QED BY <1>5, <3>1, <3>2, LocalsTyped DEF ListPending, CyclesOK, Pc, results
  <2>3. OutsideOK'
    BY <1>5, OutsideSame DEF ListPending
  <2> QED BY <2>1, <2>2, <2>3
<1>6. CASE EndResolve(w)
  <2>1. RowsOK'
    BY <1>6, RowsSame DEF EndResolve
  <2>2. CyclesOK'
    BY <1>6, NextAccountTyped DEF EndResolve
  <2>3. OutsideOK'
    BY <1>6, OutsideSame DEF EndResolve
  <2> QED BY <2>1, <2>2, <2>3
<1>7. CASE FinishCycle(w)
  <2>1. RowsOK'
    BY <1>7, RowsSame DEF FinishCycle
  <2>2. CyclesOK'
    BY <1>7, EndCycleTyped, OutsideLock DEF FinishCycle
  <2>3. OutsideOK'
    BY <1>7, EndCycleTyped DEF FinishCycle, OutsideOK, settings, routing, cotik
  <2> QED BY <2>1, <2>2, <2>3
<1>8. CASE SettlePrevious(w)
  <2>1. RowsOK'
    BY <1>8, RowsSame, RecordTyped DEF SettlePrevious, Outcome
  <2>2. CyclesOK'
    <3>1. CASE NextAccount(w)
      BY <3>1, NextAccountTyped
    <3>2. CASE ~NextAccount(w)
      BY <1>8, <3>2, LocalsTyped DEF SettlePrevious, CyclesOK, Pc, plan, results
    <3> QED BY <3>1, <3>2
  <2>3. OutsideOK'
    BY <1>8, OutsideSame DEF SettlePrevious
  <2> QED BY <2>1, <2>2, <2>3
<1>9. CASE Reserve(w)
  <2>1. RowsOK'
    BY <1>9, RowsSame, ReserveTyped DEF Reserve, CyclesOK
  <2>2. CyclesOK'
    <3>1. CASE NextAccount(w)
      BY <3>1, NextAccountTyped
    <3>2. CASE ~NextAccount(w)
      <4> DEFINE S == {i \in kept[w] : Postable(i)}
      <4>1. /\ Goto(w, "recheck") /\ Visit(w, S) /\ Keep(w, {})
            /\ seen' = [seen EXCEPT
                 ![w] = [i \in Intent |-> IF i \in S THEN attempts[i] + 1 ELSE @[i]]]
            /\ UNCHANGED <<cur, later, route, results>>
        BY <1>9, <3>2 DEF Reserve
      <4>2. S \in SUBSET Intent
        BY DEF CyclesOK
      <4>3. \A i \in S : attempts[i] + 1 \in 0..MaxAttempts
        BY <4>2, TrackingConstants DEF Postable, RowsOK
      <4> HIDE DEF S
      <4>4. seen' \in [Worker -> [Intent -> 0..MaxAttempts]]
        BY <4>1, <4>3 DEF CyclesOK
      <4> QED BY <4>1, <4>2, <4>4, LocalsTyped DEF CyclesOK, Pc, results
    <3> QED BY <3>1, <3>2
  <2>3. OutsideOK'
    BY <1>9, OutsideSame DEF Reserve
  <2> QED BY <2>1, <2>2, <2>3
<1>10. CASE Guard(w)
  <2>1. RowsOK'
    BY <1>10, RowsSame DEF Guard
  <2>2. CyclesOK'
    <3>1. CASE NextAccount(w)
      BY <3>1, NextAccountTyped
    <3>2. CASE ~NextAccount(w)
      BY <1>10, <3>2, LocalsTyped DEF Guard, CyclesOK, Pc, plan, results
    <3> QED BY <3>1, <3>2
  <2>3. OutsideOK'
    BY <1>10, OutsideSame DEF Guard
  <2> QED BY <2>1, <2>2, <2>3
<1>11. CASE Authorize(w)
  <2>1. RowsOK'
    BY <1>11, RowsSame DEF Authorize
  <2>2. CyclesOK'
    BY <1>11 DEF Authorize, CyclesOK, Goto, Pc, plan, results, Visit
  <2>3. OutsideOK'
    BY <1>11, OutsideSame DEF Authorize
  <2> QED BY <2>1, <2>2, <2>3
<1>12. CASE Paced(w)
  <2>1. RowsOK'
    BY <1>12, RowsSame DEF Paced
  <2>2. CyclesOK'
    BY <1>12 DEF Paced, CyclesOK, Goto, Pc, plan, results
  <2>3. OutsideOK'
    BY <1>12 DEF Paced, OutsideOK, settings, routing, cotik, CyclesOK
  <2> QED BY <2>1, <2>2, <2>3
<1>13. CASE BeforePost(w)
  <2>1. RowsOK'
    BY <1>13, RowsSame DEF BeforePost
  <2>2. CyclesOK'
    BY <1>13 DEF BeforePost, CyclesOK, Goto, Pc, plan, results, Visit
  <2>3. OutsideOK'
    BY <1>13, OutsideSame DEF BeforePost
  <2> QED BY <2>1, <2>2, <2>3
<1>14. CASE BeforePostThrows(w)
  <2>1. RowsOK'
    BY <1>14, RowsSame DEF BeforePostThrows, ReadBackAll
  <2>2. CyclesOK'
    BY <1>14, TrackingConstants
    DEF BeforePostThrows, CyclesOK, Goto, Pc, plan, results, ReadBackAll, Visit
  <2>3. OutsideOK'
    BY <1>14
    DEF BeforePostThrows, OutsideOK, settings, routing, cotik, ReadBackAll, NothingFresh
  <2> QED BY <2>1, <2>2, <2>3
<1>15. CASE Send(w)
  <2>1. RowsOK'
    BY <1>15, RowsSame DEF Send
  <2>2. CyclesOK'
    BY <1>15 DEF Send, CyclesOK, Goto, Pc, plan, results
  <2>3. OutsideOK'
    BY <1>15 DEF Send, OutsideOK, settings, routing, cotik, Verdict, NothingFresh
  <2> QED BY <2>1, <2>2, <2>3
<1>16. CASE PostThrows(w)
  <2>1. RowsOK'
    BY <1>16, RowsSame DEF PostThrows, ReadBackAll
  <2>2. CyclesOK'
    BY <1>16, TrackingConstants
    DEF PostThrows, CyclesOK, Goto, Pc, plan, results, ReadBackAll, Visit
  <2>3. OutsideOK'
    BY <1>16
    DEF PostThrows, OutsideOK, settings, routing, cotik, ReadBackAll, NothingFresh
  <2> QED BY <2>1, <2>2, <2>3
<1>17. CASE PostAnswered(w)
  <2>1. RowsOK'
    BY <1>17, RowsSame DEF PostAnswered
  <2>2. CyclesOK'
    BY <1>17, TrackingConstants
    DEF PostAnswered, CyclesOK, Goto, Pc, plan, results, Visit
  <2>3. OutsideOK'
    BY <1>17, OutsideSame DEF PostAnswered
  <2> QED BY <2>1, <2>2, <2>3
<1>18. CASE EndReadback(w)
  <2>1. RowsOK'
    BY <1>18, RowsSame DEF EndReadback
  <2>2. CyclesOK'
    BY <1>18 DEF EndReadback, CyclesOK, Goto, Pc, plan, results, Visit
  <2>3. OutsideOK'
    BY <1>18, OutsideSame DEF EndReadback
  <2> QED BY <2>1, <2>2, <2>3
<1>19. CASE EndBatch(w)
  <2>1. RowsOK'
    BY <1>19, RowsSame DEF EndBatch
  <2>2. CyclesOK'
    BY <1>19, NextAccountTyped DEF EndBatch
  <2>3. OutsideOK'
    BY <1>19, OutsideSame DEF EndBatch
  <2> QED BY <2>1, <2>2, <2>3
<1>20. ASSUME NEW i \in Intent, RecoverReadback(w, i) PROVE TypeOK'
  <2>1. RowsOK'
    BY <1>20, RowsSame DEF RecoverReadback
  <2>2. CyclesOK'
    BY <1>20
    DEF RecoverReadback, CyclesOK, Goto, Pc, plan, results, Current, Done,
       Visit
  <2>3. OutsideOK'
    BY <1>20, OutsideSame DEF RecoverReadback
  <2> QED BY <2>1, <2>2, <2>3
<1>21. ASSUME NEW i \in Intent, RecoverAccount(w, i) PROVE TypeOK'
  <2>1. RowsOK'
    BY <1>21, RowsSame DEF RecoverAccount
  <2>2. CyclesOK'
    BY <1>21, LocalsTyped DEF RecoverAccount, CyclesOK, Pc, plan, results
  <2>3. OutsideOK'
    BY <1>21, OutsideSame DEF RecoverAccount
  <2> QED BY <2>1, <2>2, <2>3
<1>22. ASSUME NEW i \in Intent,
              ResolveIntent(w, i) \/ RerouteSelect(w, i) \/ RerouteUpdate(w, i)
       PROVE  TypeOK'
  <2>1. RowsOK'
    <3>1. route[w][i] \in Account \cup {NoAccount}
      BY DEF CyclesOK
    <3> QED BY <1>22, <3>1, RowsSame, StatementsCreate, CreateTyped
            DEF ResolveIntent, RerouteSelect, RerouteUpdate
  <2>2. CyclesOK'
    <3>1. evidence[i] \in Account \cup {NoAccount}
      BY DEF OutsideOK
    <3>2. later' \in [Worker -> SUBSET Intent]
      <4>1. later' = later \/ later' = [later EXCEPT ![w] = @ \cup {i}]
        BY <1>22 DEF ResolveIntent, RerouteSelect, RerouteUpdate
      <4>2. later \in [Worker -> SUBSET Intent] /\ later[w] \cup {i} \in SUBSET Intent
        BY DEF CyclesOK
      <4> QED BY <4>1, <4>2
    <3>3. route' \in [Worker -> [Intent -> Account \cup {NoAccount}]]
      <4>1. \/ route' = route
            \/ \E a \in Account \cup {NoAccount} :
                 route' = [route EXCEPT ![w] = [@ EXCEPT ![i] = a]]
        BY <1>22, <3>1 DEF ResolveIntent, RerouteSelect, RerouteUpdate, DropRoute
      <4>2. \A a \in Account \cup {NoAccount} :
              [route[w] EXCEPT ![i] = a] \in [Intent -> Account \cup {NoAccount}]
        BY DEF CyclesOK
      <4> QED BY <4>1, <4>2 DEF CyclesOK
    <3>4. seen' \in [Worker -> [Intent -> 0..MaxAttempts]]
      <4>1. seen' = seen \/ seen' = [seen EXCEPT ![w] = [@ EXCEPT ![i] = 0]]
        BY <1>22 DEF ResolveIntent, RerouteSelect, RerouteUpdate, DropRoute
      <4>2. [seen[w] EXCEPT ![i] = 0] \in [Intent -> 0..MaxAttempts]
        BY TrackingConstants DEF CyclesOK
      <4> QED BY <4>1, <4>2 DEF CyclesOK
    <3>5. /\ UNCHANGED <<kept, results>>
          /\ pc' = pc \/ \E p \in Pc : Goto(w, p)
          /\ cur' = cur \/ \E j \in Intent \cup {NoIntent} : Current(w, j)
          /\ todo' = todo \/ Done(w, i)
      BY <1>22 DEF ResolveIntent, RerouteSelect, RerouteUpdate, Pc
    <3>6. /\ pc' \in [Worker -> Pc] /\ todo' \in [Worker -> SUBSET Intent]
          /\ cur' \in [Worker -> Intent \cup {NoIntent}]
      BY <3>5, LocalsTyped DEF CyclesOK
    <3> QED BY <3>2, <3>3, <3>4, <3>5, <3>6 DEF CyclesOK, results
  <2>3. OutsideOK'
    BY <1>22, OutsideSame DEF ResolveIntent, RerouteSelect, RerouteUpdate
  <2> QED BY <2>1, <2>2, <2>3
<1>23. ASSUME NEW i \in Intent, ReadbackPrevious(w, i) PROVE TypeOK'
  <2>1. RowsOK'
    BY <1>23, RowsSame DEF ReadbackPrevious
  <2>2. CyclesOK'
    BY <1>23
    DEF ReadbackPrevious, CyclesOK, Goto, Pc, plan, results, Current, Done,
       Visit
  <2>3. OutsideOK'
    BY <1>23, OutsideSame DEF ReadbackPrevious
  <2> QED BY <2>1, <2>2, <2>3
<1>24. ASSUME NEW i \in Intent, CheckReady(w, i) PROVE TypeOK'
  <2>1. RowsOK'
    BY <1>24, RowsSame DEF CheckReady
  <2>2. CyclesOK'
    BY <1>24, LocalsTyped DEF CheckReady, CyclesOK, plan, results
  <2>3. OutsideOK'
    BY <1>24, OutsideSame DEF CheckReady
  <2> QED BY <2>1, <2>2, <2>3
<1>25. ASSUME NEW i \in Intent, Recheck(w, i) PROVE TypeOK'
  <2>1. RowsOK'
    BY <1>25, RowsSame, RecordTyped DEF Recheck, RecordOrPause, Outcome
  <2>2. CyclesOK'
    <3>1. CASE NextAccount(w)
      BY <3>1, NextAccountTyped
    <3>2. CASE ~NextAccount(w)
      BY <1>25, <3>2, LocalsTyped DEF Recheck, RecordOrPause, CyclesOK, plan, results
    <3> QED BY <3>1, <3>2
  <2>3. OutsideOK'
    BY <1>25, OutsideSame DEF Recheck
  <2> QED BY <2>1, <2>2, <2>3
<1>26. ASSUME NEW i \in Intent, AbortReserved(w, i) PROVE TypeOK'
  <2>1. RowsOK'
    BY <1>26, RowsSame, RecordTyped DEF AbortReserved, RecordOrPause, Outcome
  <2>2. CyclesOK'
    <3>1. CASE NextAccount(w)
      BY <3>1, NextAccountTyped
    <3>2. CASE ~NextAccount(w)
      BY <1>26, <3>2, LocalsTyped DEF AbortReserved, RecordOrPause, CyclesOK, plan, results
    <3> QED BY <3>1, <3>2
  <2>3. OutsideOK'
    BY <1>26, OutsideSame DEF AbortReserved
  <2> QED BY <2>1, <2>2, <2>3
<1>27. ASSUME NEW i \in Intent, BeforePostEvidence(w, i) PROVE TypeOK'
  <2>1. RowsOK'
    BY <1>27, RowsSame DEF BeforePostEvidence
  <2>2. CyclesOK'
    BY <1>27
    DEF BeforePostEvidence, CyclesOK, Goto, Pc, plan, results, Done, Visit
  <2>3. OutsideOK'
    BY <1>27, OutsideSame DEF BeforePostEvidence
  <2> QED BY <2>1, <2>2, <2>3
<1>28. ASSUME NEW i \in Intent, Readback(w, i) PROVE TypeOK'
  <2>1. RowsOK'
    BY <1>28, RowsSame DEF Readback
  <2>2. CyclesOK'
    <3>1. OrderOf[i] \in Order
      BY TrackingConstants
    <3>2. conf' \in [Worker -> SUBSET Order]
      <4>1. conf' = conf \/ conf' = [conf EXCEPT ![w] = conf[w] \cup {OrderOf[i]}]
        BY <1>28 DEF Readback
      <4>2. conf[w] \cup {OrderOf[i]} \in SUBSET Order
        BY <3>1 DEF CyclesOK
      <4> QED BY <4>1, <4>2 DEF CyclesOK
    <3>3. unconf' \in [Worker -> SUBSET Order]
      <4>1. unconf' = unconf \/ unconf' = [unconf EXCEPT ![w] = unconf[w] \cup {OrderOf[i]}]
        BY <1>28 DEF Readback
      <4>2. unconf[w] \cup {OrderOf[i]} \in SUBSET Order
        BY <3>1 DEF CyclesOK
      <4> QED BY <4>1, <4>2 DEF CyclesOK
    <3> QED BY <1>28, <3>2, <3>3, LocalsTyped DEF Readback, CyclesOK, plan
  <2>3. OutsideOK'
    BY <1>28, OutsideSame DEF Readback
  <2> QED BY <2>1, <2>2, <2>3
<1>29. ASSUME NEW i \in Intent, RecordResult(w, i) PROVE TypeOK'
  <2>1. RowsOK'
    BY <1>29, RowsSame, RecordTyped DEF RecordResult, RecordOrPause, Outcome
  <2>2. CyclesOK'
    <3>1. CASE NextAccount(w)
      BY <3>1, NextAccountTyped
    <3>2. CASE ~NextAccount(w)
      BY <1>29, <3>2, LocalsTyped DEF RecordResult, RecordOrPause, CyclesOK, plan, results
    <3> QED BY <3>1, <3>2
  <2>3. OutsideOK'
    BY <1>29, OutsideSame DEF RecordResult
  <2> QED BY <2>1, <2>2, <2>3
<1>30. ASSUME NEW a \in Account, PickAccount(w, a) PROVE TypeOK'
  <2>1. RowsOK'
    BY <1>30, RowsSame DEF PickAccount
  <2>2. CyclesOK'
    <3>1. {i \in later[w] : route[w][i] = a} \in SUBSET Intent
      BY DEF CyclesOK
    <3>2. later' \in [Worker -> SUBSET Intent]
      BY <1>30 DEF PickAccount, CyclesOK
    <3> QED BY <1>30, <3>1, <3>2, LocalsTyped DEF PickAccount, CyclesOK, Pc, results
  <2>3. OutsideOK'
    BY <1>30, OutsideSame DEF PickAccount
  <2> QED BY <2>1, <2>2, <2>3
<1> QED BY <1>1, <1>2, <1>3, <1>4, <1>5, <1>6, <1>7, <1>8, <1>9, <1>10,
             <1>11, <1>12, <1>13, <1>14, <1>15, <1>16, <1>17, <1>18, <1>19, <1>20,
             <1>21, <1>22, <1>23, <1>24, <1>25, <1>26, <1>27, <1>28, <1>29, <1>30
DEF CycleStep

LEMMA FaultsTyped ==
  ASSUME TypeOK, NEW w \in Worker,
         StartCycle(w) \/ Hang(w) \/ Crash(w) \/ LoseLockSession(w) \/ StatementFails(w)
  PROVE  TypeOK'
<1> USE DEF TypeOK
<1>1. CASE StartCycle(w)
  <2>1. RowsOK'
    BY <1>1, RowsSame DEF StartCycle
  <2>2. CyclesOK'
    BY <1>1 DEF StartCycle, CyclesOK, Goto, Pc, plan, results
  <2>3. OutsideOK'
    BY <1>1 DEF StartCycle, OutsideOK, settings, routing, cotik
  <2> QED BY <2>1, <2>2, <2>3
<1>5. CASE Hang(w)
  <2>1. "hung" \in Pc /\ {} \in SUBSET Intent
    BY DEF Pc
  <2>2. CyclesOK'
    BY <1>5, <2>1, ForgetTyped DEF Hang
  <2> QED BY <1>5, <2>2, RowsSame, OutsideSame DEF Hang
<1>2. CASE Crash(w)
  <2>1. RowsOK'
    BY <1>2, RowsSame DEF Crash
  <2>2. CyclesOK'
    BY <1>2, EndCycleTyped, OutsideLock DEF Crash
  <2>3. OutsideOK'
    BY <1>2, EndCycleTyped, TrackingConstants
    DEF Crash, OutsideOK, settings, routing, cotik, Fault, NothingFresh
  <2> QED BY <2>1, <2>2, <2>3
<1>3. CASE LoseLockSession(w)
  <2>1. RowsOK'
    BY <1>3, RowsSame DEF LoseLockSession
  <2>2. CyclesOK'
    BY <1>3, CyclesSame DEF LoseLockSession
  <2>3. OutsideOK'
    BY <1>3, TrackingConstants
    DEF LoseLockSession, OutsideOK, settings, routing, cotik, Fault
  <2> QED BY <2>1, <2>2, <2>3
<1>4. CASE StatementFails(w)
  <2>1. RowsOK'
    BY <1>4, RowsSame DEF StatementFails, ReadBackAll
  <2>2. CyclesOK'
    <3>1. CASE NextAccount(w)
      BY <3>1, NextAccountTyped
    <3>2. CASE ReadBackAll(w)
      BY <3>2, TrackingConstants, LocalsTyped DEF ReadBackAll, CyclesOK, Pc, plan
    <3> QED BY <1>4, <3>1, <3>2 DEF StatementFails
  <2>3. OutsideOK'
    <3>1. faults' \in 0..MaxFaults
      BY <1>4, TrackingConstants DEF StatementFails, Fault, OutsideOK
    <3>2. fresh' = fresh \/ fresh' = [fresh EXCEPT ![w] = NothingFresh]
      BY <1>4 DEF StatementFails, ReadBackAll
    <3>3. NothingFresh \in [on : BOOLEAN, routed : SUBSET Intent]
      BY DEF NothingFresh
    <3>4. fresh' \in [Worker -> [on : BOOLEAN, routed : SUBSET Intent]]
      BY <3>2, <3>3 DEF OutsideOK
    <3> QED BY <1>4, <3>1, <3>4 DEF StatementFails, ReadBackAll, OutsideOK, settings, routing,
               cotik
  <2> QED BY <2>1, <2>2, <2>3
<1> QED BY <1>1, <1>2, <1>3, <1>4, <1>5

LEMMA TypeStep == TypeOK /\ [Next]_vars => TypeOK'
<1> SUFFICES ASSUME TypeOK, [Next]_vars PROVE TypeOK'
  OBVIOUS
<1>1. CASE Next
  BY <1>1, WorldTyped, CycleStepTyped, FaultsTyped DEF Next
<1>2. CASE UNCHANGED vars
  BY <1>2, RowsSame, CyclesSame, OutsideSame DEF vars, TypeOK
<1> QED BY <1>1, <1>2

\* Every variable keeps its type: in particular attempt_count and the attempt
\* numbers stay within 0..max_attempts, as the CHECK constraints demand.
THEOREM TypeCorrect == Spec => []TypeOK
<1>1. Init => TypeOK
  BY TypeInit
<1>2. TypeOK /\ [Next]_vars => TypeOK'
  BY TypeStep
<1> QED BY <1>1, <1>2, PTL DEF Spec

-----------------------------------------------------------------------------
(* What a step may do to the rows.                                         *)

\* The calls of recordPostAttempt, as they are made.
Records(i, n) ==
  \/ RecordPostAttempt(i, n, "SUCCESS", "confirmed")
  \/ RecordPostAttempt(i, n, "UNCONFIRMED", "abort")
  \/ RecordPostAttempt(i, n, "UNCONFIRMED", "keep")
  \/ RecordPostAttempt(i, n, "HTTP_ERROR", "keep")
  \/ RecordPostAttempt(i, n, "HTTP_ERROR", "retry")

Reopened(i) ==
  /\ status[i] \in {"CONFIRMED", "FAILED", "ABORTED"}
  /\ attempts[i] < MaxAttempts
  /\ status' = [status EXCEPT ![i] = "PENDING"]
  /\ UNCHANGED <<attempts, account, outcome>>

RowMove ==
  \/ UNCHANGED intentRows
  \/ \E i \in Intent, a \in Account \cup {NoAccount} : Creates(i, a)
  \/ \E S \in SUBSET Intent : (\A i \in S : Postable(i)) /\ ReservePostIntents(S)
  \/ \E i \in Intent \cup {NoIntent}, n \in AttemptNo : Records(i, n)
  \/ \E i \in Intent : Reopened(i)

LEMMA RecordMoves ==
  ASSUME NEW i \in Intent \cup {NoIntent}, NEW n, Records(i, n) PROVE RowMove
<1>1. n \in AttemptNo
  BY DEF Records, RecordPostAttempt, Recordable
<1> QED BY <1>1 DEF RowMove

LEMMA RecordOrPauseMoves ==
  ASSUME NEW w, NEW i \in Intent,
         \/ RecordOrPause(w, i, "SUCCESS", "confirmed")
         \/ RecordOrPause(w, i, "UNCONFIRMED", "abort")
         \/ RecordOrPause(w, i, "UNCONFIRMED", "keep")
         \/ RecordOrPause(w, i, "HTTP_ERROR", "keep")
         \/ RecordOrPause(w, i, "HTTP_ERROR", "retry")
  PROVE  RowMove
<1>1. UNCHANGED intentRows \/ Records(i, seen[w][i])
  BY DEF RecordOrPause, Records
<1> QED BY <1>1, RecordMoves DEF RowMove

LEMMA WorldMoves ==
  ASSUME TypeOK, World PROVE RowMove
<1>1. CASE \E on \in BOOLEAN : SetSwitches(on)
  BY <1>1 DEF SetSwitches, RowMove
<1>2. ASSUME NEW i \in Intent, StageConfirmedForReplay(i) PROVE RowMove
  <2>1. account[SourceOf[i]] \in Account \cup {NoAccount}
    BY <1>2, TrackingConstants, ReplayMoves DEF TypeOK, RowsOK
  <2>2. Creates(i, account[SourceOf[i]])
    BY <1>2, ReplayMoves DEF TypeOK
  <2> QED BY <2>1, <2>2 DEF RowMove
<1>7. ASSUME NEW s \in Stager, StageCotikTracking(s) PROVE RowMove
  BY <1>7, StagingMoves DEF RowMove
<1>8. CASE \E a \in Account : AccountChanges(a)
  BY <1>8 DEF AccountChanges, RowMove
<1>3. CASE \E i \in Intent : ReopenPostIntentForReplay(i)
  BY <1>3 DEF ReopenPostIntentForReplay, Reopened, RowMove
<1>4. CASE \E i \in Intent, a \in Account \cup {NoAccount} : EvidenceChanges(i, a)
  BY <1>4 DEF EvidenceChanges, RowMove
<1>5. CASE \E o \in Order : TrackedByHand(o)
  BY <1>5 DEF TrackedByHand, RowMove
<1>6. CASE \E i \in Intent, n \in AttemptNo : CotikApplies(i, n) \/ CotikRejects(i, n)
  BY <1>6 DEF CotikApplies, CotikRejects, RowMove
<1> QED BY <1>1, <1>2, <1>3, <1>4, <1>5, <1>6, <1>7, <1>8 DEF World

LEMMA CycleMoves ==
  ASSUME TypeOK, NEW w \in Worker, CycleStep(w) PROVE RowMove
<1>1. CASE \/ ReadDeployment(w) \/ ResetForDeployment(w) \/ ReadSettings(w)
           \/ EndSyncOff(w) \/ ListInProgress(w) \/ RecoverMissed(w)
           \/ ListPending(w) \/ EndResolve(w) \/ FinishCycle(w) \/ Guard(w)
           \/ Authorize(w) \/ Paced(w) \/ BeforePost(w) \/ BeforePostThrows(w)
           \/ Send(w) \/ PostThrows(w) \/ PostAnswered(w) \/ EndReadback(w)
           \/ EndBatch(w)
  <2>1. UNCHANGED intentRows
    BY <1>1
    DEF ReadDeployment, ResetForDeployment, ReadSettings, EndSyncOff, ListInProgress,
       RecoverMissed, ListPending, EndResolve,
        FinishCycle, Guard, Authorize, Paced, BeforePost, BeforePostThrows, Send,
        PostThrows, PostAnswered, EndReadback, EndBatch, ReadBackAll
  <2> QED BY <2>1 DEF RowMove
<1>2. CASE RecoverRecord(w)
  <2>1. cur[w] \in Intent \cup {NoIntent}
    BY DEF TypeOK, CyclesOK
  <2>2. UNCHANGED intentRows \/ Records(cur[w], seen[w][cur[w]])
    BY <1>2 DEF RecoverRecord, Records
  <2> QED BY <2>1, <2>2, RecordMoves DEF RowMove
<1>3. CASE SettlePrevious(w)
  <2>1. cur[w] \in Intent \cup {NoIntent}
    BY DEF TypeOK, CyclesOK
  <2>2. UNCHANGED intentRows \/ Records(cur[w], seen[w][cur[w]])
    BY <1>3 DEF SettlePrevious, Records
  <2> QED BY <2>1, <2>2, RecordMoves DEF RowMove
<1>4. CASE Reserve(w)
  <2>1. {i \in kept[w] : Postable(i)} \in SUBSET Intent
    BY DEF TypeOK, CyclesOK
  <2>2. UNCHANGED intentRows \/ ReservePostIntents({i \in kept[w] : Postable(i)})
    BY <1>4 DEF Reserve
  <2> QED BY <2>1, <2>2 DEF RowMove
<1>5. CASE \E i \in Intent : \/ RecoverReadback(w, i) \/ RecoverAccount(w, i)
                             \/ ReadbackPrevious(w, i) \/ CheckReady(w, i)
                             \/ BeforePostEvidence(w, i) \/ Readback(w, i)
  BY <1>5 DEF RecoverReadback, RecoverAccount, ReadbackPrevious, CheckReady,
              BeforePostEvidence, Readback, RowMove
<1>6. ASSUME NEW i \in Intent,
             ResolveIntent(w, i) \/ RerouteSelect(w, i) \/ RerouteUpdate(w, i)
      PROVE  RowMove
  <2>1. route[w][i] \in Account \cup {NoAccount}
    BY DEF TypeOK, CyclesOK
  <2>2. UNCHANGED intentRows \/ Creates(i, route[w][i])
    BY <1>6, StatementsCreate DEF ResolveIntent, RerouteSelect, RerouteUpdate, TypeOK
  <2> QED BY <2>1, <2>2 DEF RowMove
<1>7. ASSUME NEW i \in Intent, Recheck(w, i) PROVE RowMove
  <2>1. UNCHANGED intentRows \/ RecordOrPause(w, i, "UNCONFIRMED", "abort")
    BY <1>7 DEF Recheck
  <2> QED BY <2>1, RecordOrPauseMoves DEF RowMove
<1>8. ASSUME NEW i \in Intent, AbortReserved(w, i) PROVE RowMove
  BY <1>8, RecordOrPauseMoves DEF AbortReserved
<1>9. ASSUME NEW i \in Intent, RecordResult(w, i) PROVE RowMove
  BY <1>9, RecordOrPauseMoves DEF RecordResult, Uncertain
<1>10. CASE \E a \in Account : PickAccount(w, a)
  BY <1>10 DEF PickAccount, RowMove
<1> QED BY <1>1, <1>2, <1>3, <1>4, <1>5, <1>6, <1>7, <1>8, <1>9, <1>10 DEF CycleStep

LEMMA NextMoves == TypeOK /\ [Next]_vars => RowMove
<1> SUFFICES ASSUME TypeOK, [Next]_vars PROVE RowMove
  OBVIOUS
<1>1. CASE World
  BY <1>1, WorldMoves
<1>2. ASSUME NEW w \in Worker, CycleStep(w) PROVE RowMove
  BY <1>2, CycleMoves
<1>3. ASSUME NEW w \in Worker,
             StartCycle(w) \/ Hang(w) \/ Crash(w) \/ LoseLockSession(w) \/ StatementFails(w)
      PROVE  RowMove
  <2>1. UNCHANGED intentRows
    BY <1>3 DEF StartCycle, Hang, Crash, LoseLockSession, StatementFails, ReadBackAll
  <2> QED BY <2>1 DEF RowMove
<1>4. CASE UNCHANGED vars
  BY <1>4 DEF vars, RowMove
<1> QED BY <1>1, <1>2, <1>3, <1>4 DEF Next

-----------------------------------------------------------------------------
(* The ledger.                                                             *)

LEMMA LedgerInit == Init => Ledger
BY TrackingConstants DEF Init, Ledger, Explained, LastOutcome, NoCount, AttemptNo

LEMMA LedgerMove ==
  ASSUME TypeOK, Ledger, RowMove PROVE Ledger'
<1> SUFFICES ASSUME NEW j \in Intent PROVE Explained(j)'
  BY DEF Ledger
<1> USE DEF TypeOK
<1>0. Explained(j)
  BY DEF Ledger
<1>1. CASE UNCHANGED intentRows
  BY <1>0, <1>1 DEF intentRows, Explained, LastOutcome
<1>2. ASSUME NEW i \in Intent, NEW a, Creates(i, a) PROVE Explained(j)'
  BY <1>0, <1>2, TrackingConstants
  DEF Creates, RowsOK, Explained, LastOutcome, AttemptNo
<1>3. ASSUME NEW S \in SUBSET Intent, \A i \in S : Postable(i), ReservePostIntents(S)
      PROVE  Explained(j)'
  <2>1. CASE j \in S
    BY <1>0, <1>3, <2>1, TrackingConstants
    DEF ReservePostIntents, Postable, RowsOK, Explained, LastOutcome, AttemptNo
  <2>2. CASE j \notin S
    BY <1>0, <1>3, <2>2
    DEF ReservePostIntents, RowsOK, Explained, LastOutcome
  <2> QED BY <2>1, <2>2
<1>4. ASSUME NEW i \in Intent \cup {NoIntent}, NEW n \in AttemptNo, Records(i, n)
      PROVE  Explained(j)'
  <2>1. CASE i # j
    <3>1. /\ status'[j] = status[j] /\ outcome'[j] = outcome[j]
          /\ attempts' = attempts
      BY <1>4, <2>1 DEF Records, RecordPostAttempt, RowsOK
    <3> QED BY <1>0, <3>1 DEF Explained, LastOutcome
  <2>2. CASE i = j
    <3>1. /\ attempts' = attempts /\ attempts[j] = n
          /\ \A m \in AttemptNo : m # n => outcome'[j][m] = outcome[j][m]
      BY <1>4, <2>2 DEF Records, RecordPostAttempt, Recordable, RowsOK
    <3>2. \/ outcome'[j][n] = "SUCCESS" /\ status'[j] = "CONFIRMED"
          \/ outcome'[j][n] = "UNCONFIRMED" /\ status'[j] = "ABORTED"
          \/ /\ outcome'[j][n] \in {"UNCONFIRMED", "HTTP_ERROR"}
             /\ status'[j] = IF n >= MaxAttempts THEN "FAILED" ELSE "IN_PROGRESS"
          \/ /\ outcome'[j][n] = "HTTP_ERROR"
             /\ status'[j] = IF n >= MaxAttempts THEN "FAILED" ELSE "PENDING"
      BY <1>4, <2>2 DEF Records, RecordPostAttempt, StatusAfter, RowsOK
    <3> QED BY <1>0, <3>1, <3>2, TrackingConstants
            DEF Explained, LastOutcome, AttemptNo
  <2> QED BY <2>1, <2>2
<1>5. ASSUME NEW i \in Intent, Reopened(i) PROVE Explained(j)'
  BY <1>0, <1>5 DEF Reopened, RowsOK, Explained, LastOutcome
<1> QED BY <1>1, <1>2, <1>3, <1>4, <1>5 DEF RowMove

\* recordPostAttempt, listPendingPostIntents and the two replay operations keep
\* the attempts of every intent in step with its count and its status.
THEOREM LedgerCorrect == Spec => []Ledger
<1>1. Init => Ledger
  BY LedgerInit
<1>2. TypeOK /\ Ledger /\ [Next]_vars => Ledger'
  BY NextMoves, LedgerMove
<1> QED BY <1>1, <1>2, TypeCorrect, PTL DEF Spec

-----------------------------------------------------------------------------
(* The account of an intent.                                               *)

-----------------------------------------------------------------------------
(* ABORTED means never sent.                                               *)

HandPc == {"recheck", "abort", "authorize", "pace", "beforePost", "evidence", "send"}

\* The cycle of w has reserved i and may still abort it or send it.
Holds(w, i) ==
  \/ At(w, "recheck") /\ i \in todo[w] \cup kept[w]
  \/ At(w, "abort") /\ i \in todo[w]
  \/ pc[w] \in {"authorize", "pace", "beforePost", "evidence", "send"} /\ i \in kept[w]

\* An attempt in hand was never sent and its row is not ABORTED for it, ...
InHandUnsent ==
  \A w \in Worker, i \in Intent : Holds(w, i) =>
    /\ seen[w][i] \in 1..attempts[i]
    /\ verdict[i][seen[w][i]] = "unsent"
    /\ seen[w][i] = attempts[i] => status[i] # "ABORTED"

\* ... no two cycles have the same attempt in hand, ...
InOneHand ==
  \A w, v \in Worker, i \in Intent :
    w # v /\ Holds(w, i) /\ Holds(v, i) => seen[w][i] # seen[v][i]

\* ... and an attempt not reserved yet was never sent.
UnreservedUnsent ==
  \A i \in Intent, n \in AttemptNo : n > attempts[i] => verdict[i][n] = "unsent"

\* What was rechecked is not rechecked again.
Apart == \A w \in Worker : At(w, "recheck") => todo[w] \cap kept[w] = {}

AbortedUnsent ==
  \A i \in Intent : status[i] = "ABORTED" =>
    attempts[i] \in AttemptNo /\ verdict[i][attempts[i]] = "unsent"

NeverSent == InHandUnsent /\ InOneHand /\ UnreservedUnsent /\ Apart /\ AbortedUnsent

\* A step that reserves and sends nothing: hands only lose intents, and a row
\* becomes ABORTED only as the cycle that had its last attempt lets it go.
NoNewAborts == \A i \in Intent : status'[i] = "ABORTED" => status[i] = "ABORTED"

NoneSent ==
  \A i \in Intent, n \in AttemptNo : verdict[i][n] = "unsent" => verdict'[i][n] = "unsent"

HandsShrink ==
  \A v \in Worker :
    /\ \A i \in Intent : Holds(v, i)' => Holds(v, i) /\ seen'[v][i] = seen[v][i]
    /\ At(v, "recheck")' => /\ At(v, "recheck")
                            /\ todo'[v] \cap kept'[v] \subseteq todo[v] \cap kept[v]

Aborts(v, i) == Holds(v, i) /\ seen[v][i] = attempts[i] /\ ~Holds(v, i)'

Lesser ==
  /\ UNCHANGED attempts
  /\ NoneSent
  /\ HandsShrink
  /\ \A i \in Intent : status'[i] = "ABORTED" /\ status[i] # "ABORTED" =>
       \E v \in Worker : Aborts(v, i)

LEMMA LesserKeeps ==
  ASSUME TypeOK, NeverSent, Lesser PROVE NeverSent'
<1> USE DEF NeverSent
<1>1. \A i \in Intent : attempts[i] \in 0..MaxAttempts /\ attempts'[i] = attempts[i]
  BY DEF TypeOK, RowsOK, Lesser
<1>2. ASSUME NEW w \in Worker, NEW i \in Intent, Holds(w, i)'
      PROVE  /\ Holds(w, i)
             /\ seen'[w][i] = seen[w][i]
             /\ seen[w][i] \in 1..attempts[i]
             /\ verdict[i][seen[w][i]] = "unsent"
             /\ seen[w][i] = attempts[i] => status[i] # "ABORTED"
  BY <1>2 DEF Lesser, HandsShrink, InHandUnsent
<1>3. InHandUnsent'
  <2> SUFFICES ASSUME NEW w \in Worker, NEW i \in Intent, Holds(w, i)'
               PROVE  /\ seen'[w][i] \in 1..attempts'[i]
                      /\ verdict'[i][seen'[w][i]] = "unsent"
                      /\ seen'[w][i] = attempts'[i] => status'[i] # "ABORTED"
    BY DEF InHandUnsent
  <2>1. seen[w][i] \in AttemptNo
    BY <1>1, <1>2, TrackingConstants DEF AttemptNo
  <2>2. verdict'[i][seen[w][i]] = "unsent"
    BY <1>2, <2>1 DEF Lesser, NoneSent
  <2>3. ASSUME seen[w][i] = attempts[i], status'[i] = "ABORTED" PROVE FALSE
    <3>1. PICK v \in Worker : Aborts(v, i)
      BY <1>2, <2>3 DEF Lesser
    <3> QED BY <1>2, <2>3, <3>1 DEF InOneHand, Aborts
  <2> QED BY <1>1, <1>2, <2>2, <2>3
<1>4. InOneHand'
  BY <1>2 DEF InOneHand
<1>5. UnreservedUnsent'
  BY <1>1 DEF UnreservedUnsent, Lesser, NoneSent
<1>6. AbortedUnsent'
  <2> SUFFICES ASSUME NEW i \in Intent, status'[i] = "ABORTED"
               PROVE  attempts[i] \in AttemptNo /\ verdict'[i][attempts[i]] = "unsent"
    BY <1>1 DEF AbortedUnsent
  <2>1. attempts[i] \in AttemptNo /\ verdict[i][attempts[i]] = "unsent"
    <3>1. CASE status[i] = "ABORTED"
      BY <3>1 DEF AbortedUnsent
    <3>2. CASE status[i] # "ABORTED"
      <4>1. PICK v \in Worker : Aborts(v, i)
        BY <3>2 DEF Lesser
      <4> QED BY <1>1, <4>1, TrackingConstants DEF InHandUnsent, Aborts, AttemptNo
    <3> QED BY <3>1, <3>2
  <2> QED BY <2>1 DEF Lesser, NoneSent
<1>7. Apart'
  BY DEF Apart, Lesser, HandsShrink, At
<1> QED BY <1>3, <1>4, <1>5, <1>6, <1>7

\* Most steps record no abort at all.
LEMMA QuietIsLesser ==
  ASSUME UNCHANGED attempts, NoneSent, HandsShrink, NoNewAborts PROVE Lesser
BY DEF Lesser, NoNewAborts

\* A cycle is untouched by a step, as far as its hand goes.
Same(v) == /\ pc'[v] = pc[v] /\ todo'[v] = todo[v]
           /\ kept'[v] = kept[v] /\ seen'[v] = seen[v]

Others(w) == \A v \in Worker : v # w => Same(v)

LEMMA SameHolds ==
  ASSUME NEW v, NEW i, Same(v)
  PROVE  /\ Holds(v, i)' <=> Holds(v, i)
         /\ seen'[v][i] = seen[v][i]
         /\ At(v, "recheck")' => /\ At(v, "recheck")
                                 /\ todo'[v] \cap kept'[v] = todo[v] \cap kept[v]
BY DEF Same, Holds, At

LEMMA EmptyHand ==
  ASSUME NEW w, NEW i, pc'[w] \notin HandPc
  PROVE  ~Holds(w, i)' /\ ~At(w, "recheck")'
BY DEF Holds, At, HandPc

LEMMA CyclesUntouched ==
  ASSUME UNCHANGED cycles PROVE HandsShrink
<1>1. \A v : Same(v)
  BY DEF cycles, plan, Same
<1> QED BY <1>1, SameHolds DEF HandsShrink

LEMMA EmptiedHand ==
  ASSUME NEW w \in Worker, Others(w), pc'[w] \notin HandPc PROVE HandsShrink
BY SameHolds, EmptyHand DEF HandsShrink, Others

\* The updates a cycle makes are its own.
LEMMA OwnUpdates ==
  ASSUME CyclesOK, NEW w \in Worker, NEW v \in Worker, v # w
  PROVE  /\ \A p : Goto(w, p) => pc'[v] = pc[v] /\ pc'[w] = p
         /\ \A S : Visit(w, S) => todo'[v] = todo[v] /\ todo'[w] = S
         /\ \A i : Done(w, i) => todo'[v] = todo[v] /\ todo'[w] = todo[w] \ {i}
         /\ \A S : Keep(w, S) => kept'[v] = kept[v] /\ kept'[w] = S
         /\ \A S : Snapshot(w, S) => seen'[v] = seen[v]
         /\ \A S : Forget(w, S) => /\ todo'[v] = todo[v]
                                   /\ kept'[v] = kept[v]
                                   /\ seen'[v] = seen[v]
         /\ NextAccount(w) => Same(v)
         /\ EndCycle(w) => Same(v)
<1>1. \A p : Goto(w, p) => pc'[v] = pc[v] /\ pc'[w] = p
  BY DEF CyclesOK, Goto
<1>2. \A S : Visit(w, S) => todo'[v] = todo[v] /\ todo'[w] = S
  BY DEF CyclesOK, Visit
<1>3. \A i : Done(w, i) => todo'[v] = todo[v] /\ todo'[w] = todo[w] \ {i}
  BY <1>2 DEF Done
<1>4. \A S : Keep(w, S) => kept'[v] = kept[v] /\ kept'[w] = S
  BY DEF CyclesOK, Keep
<1>5. \A S : Snapshot(w, S) => seen'[v] = seen[v]
  BY DEF CyclesOK, Snapshot
<1>6. \A S : Forget(w, S) => /\ todo'[v] = todo[v]
                             /\ kept'[v] = kept[v]
                             /\ seen'[v] = seen[v]
  BY <1>2, <1>4 DEF CyclesOK, Forget
<1>7. NextAccount(w) => Same(v)
  BY <1>1, <1>6 DEF NextAccount, Same
<1>8. EndCycle(w) => Same(v)
  BY <1>1, <1>6 DEF EndCycle, Same
<1> QED BY <1>1, <1>2, <1>3, <1>4, <1>5, <1>6, <1>7, <1>8

LEMMA GoneTo ==
  ASSUME CyclesOK, NEW w \in Worker
  PROVE  /\ \A p : Goto(w, p) => pc'[w] = p
         /\ NextAccount(w) => pc'[w] = "account"
         /\ EndCycle(w) => pc'[w] = "idle"
BY DEF CyclesOK, Goto, NextAccount, EndCycle

LEMMA StatusAborted ==
  ASSUME NEW n, NEW how, how # "abort" PROVE StatusAfter(n, how) # "ABORTED"
BY DEF StatusAfter

LEMMA RecordQuiet ==
  ASSUME RowsOK, NEW i, NEW n, NEW out, NEW how, how # "abort",
         RecordPostAttempt(i, n, out, how)
  PROVE  NoNewAborts /\ UNCHANGED attempts
<1>1. status' = [status EXCEPT ![i] = StatusAfter(n, how)] /\ UNCHANGED attempts
  BY DEF RecordPostAttempt
<1> QED BY <1>1, StatusAborted DEF NoNewAborts, RowsOK

LEMMA CreateQuiet ==
  ASSUME RowsOK, NEW i, NEW a, Creates(i, a)
  PROVE  NoNewAborts /\ UNCHANGED attempts
BY DEF RowsOK, Creates, NoNewAborts

LEMMA RowsQuiet ==
  ASSUME UNCHANGED intentRows PROVE NoNewAborts /\ UNCHANGED attempts
BY DEF intentRows, NoNewAborts

LEMMA CotikQuiet ==
  ASSUME UNCHANGED verdict PROVE NoneSent
BY DEF NoneSent

LEMMA WorldLesser ==
  ASSUME TypeOK, World PROVE Lesser
<1>1. UNCHANGED cycles
  BY StagingMoves DEF World, SetSwitches, StageConfirmedForReplay, CreateForReplay,
     AccountChanges,
         ReopenPostIntentForReplay, EvidenceChanges, TrackedByHand, CotikApplies,
         CotikRejects
<1>2. NoneSent
  <2>1. CASE \E i \in Intent, n \in AttemptNo : CotikApplies(i, n) \/ CotikRejects(i, n)
    BY <2>1 DEF CotikApplies, CotikRejects, TypeOK, OutsideOK, NoneSent
  <2>2. CASE ~\E i \in Intent, n \in AttemptNo : CotikApplies(i, n) \/ CotikRejects(i, n)
    <3>1. UNCHANGED verdict
      BY <2>2, StagingMoves DEF World, SetSwitches, StageConfirmedForReplay, CreateForReplay,
         AccountChanges,
                  ReopenPostIntentForReplay, EvidenceChanges, TrackedByHand, cotik
    <3> QED BY <3>1, CotikQuiet
  <2> QED BY <2>1, <2>2
<1>3. NoNewAborts /\ UNCHANGED attempts
  <2>1. ASSUME NEW i \in Intent, StageConfirmedForReplay(i)
        PROVE  NoNewAborts /\ UNCHANGED attempts
    BY <2>1, ReplayMoves, CreateQuiet DEF TypeOK
  <2>4. ASSUME NEW s \in Stager, StageCotikTracking(s)
        PROVE  NoNewAborts /\ UNCHANGED attempts
    BY <2>4, StagingMoves, CreateQuiet, RowsQuiet DEF TypeOK
  <2>2. CASE \E i \in Intent : ReopenPostIntentForReplay(i)
    BY <2>2 DEF ReopenPostIntentForReplay, NoNewAborts, TypeOK, RowsOK
  <2>3. CASE /\ ~\E i \in Intent : \/ StageConfirmedForReplay(i)
                                   \/ ReopenPostIntentForReplay(i)
             /\ ~\E s \in Stager : StageCotikTracking(s)
    <3>1. UNCHANGED intentRows
      BY <2>3 DEF World, SetSwitches, AccountChanges, EvidenceChanges, TrackedByHand,
         CotikApplies,
                  CotikRejects
    <3> QED BY <3>1, RowsQuiet
  <2> QED BY <2>1, <2>2, <2>3, <2>4
<1> QED BY <1>1, <1>2, <1>3, CyclesUntouched, QuietIsLesser

\* A step after which the cycle has nothing in hand, and that records no abort.
LEMMA EmptiedIsLesser ==
  ASSUME NEW w \in Worker, Others(w), pc'[w] \notin HandPc,
         UNCHANGED attempts, NoNewAborts, UNCHANGED verdict
  PROVE  Lesser
BY EmptiedHand, CotikQuiet, QuietIsLesser

LEMMA PrepareLesser ==
  ASSUME TypeOK, NEW w \in Worker,
         \/ ReadDeployment(w) \/ ResetForDeployment(w) \/ ReadSettings(w)
         \/ EndSyncOff(w) \/ ListInProgress(w) \/ RecoverMissed(w)
         \/ RecoverRecord(w) \/ ListPending(w) \/ EndResolve(w) \/ FinishCycle(w)
         \/ SettlePrevious(w)
         \/ \E i \in Intent : \/ RecoverReadback(w, i) \/ RecoverAccount(w, i)
                              \/ ResolveIntent(w, i) \/ RerouteSelect(w, i)
                              \/ RerouteUpdate(w, i) \/ ReadbackPrevious(w, i)
                              \/ CheckReady(w, i)
         \/ \E a \in Account : PickAccount(w, a)
  PROVE  Lesser
<1> USE DEF TypeOK
<1>1. UNCHANGED verdict
  BY DEF ReadDeployment, ResetForDeployment, ReadSettings, EndSyncOff, ListInProgress,
     RecoverMissed, RecoverRecord, ListPending,
         EndResolve, FinishCycle, SettlePrevious, RecoverReadback, RecoverAccount,
         ResolveIntent, RerouteSelect, RerouteUpdate, ReadbackPrevious, CheckReady,
         PickAccount, outside, routing, cotik
<1>2. NoNewAborts /\ UNCHANGED attempts
  <2>1. CASE RecoverRecord(w)
    BY <2>1, RecordQuiet, RowsQuiet DEF RecoverRecord
  <2>2. CASE SettlePrevious(w)
    BY <2>2, RecordQuiet, RowsQuiet DEF SettlePrevious
  <2>3. CASE \E i \in Intent : ResolveIntent(w, i) \/ RerouteSelect(w, i) \/ RerouteUpdate(w, i)
    BY <2>3, StatementsCreate, CreateQuiet, RowsQuiet
    DEF ResolveIntent, RerouteSelect, RerouteUpdate
  <2>4. CASE /\ ~RecoverRecord(w)
             /\ ~SettlePrevious(w)
             /\ ~\E i \in Intent : ResolveIntent(w, i) \/ RerouteSelect(w, i) \/ RerouteUpdate(w, i)
    <3>1. UNCHANGED intentRows
      BY <2>4 DEF ReadDeployment, ResetForDeployment, ReadSettings, EndSyncOff,
         ListInProgress, RecoverMissed, ListPending,
                  EndResolve, FinishCycle, RecoverReadback, RecoverAccount,
                  ReadbackPrevious, CheckReady, PickAccount
    <3> QED BY <3>1, RowsQuiet
  <2> QED BY <2>1, <2>2, <2>3, <2>4
<1>3. pc'[w] \notin HandPc
  <2>1. CASE \/ ReadDeployment(w) \/ ResetForDeployment(w) \/ ReadSettings(w)
             \/ EndSyncOff(w) \/ ListInProgress(w) \/ RecoverMissed(w)
             \/ RecoverRecord(w)
    BY <2>1, GoneTo
    DEF ReadDeployment, ResetForDeployment, ReadSettings, EndSyncOff, ListInProgress,
       RecoverMissed, RecoverRecord, HandPc
  <2>2. CASE ListPending(w) \/ EndResolve(w) \/ FinishCycle(w) \/ SettlePrevious(w)
    BY <2>2, GoneTo DEF ListPending, EndResolve, FinishCycle, SettlePrevious, HandPc
  <2>3. CASE \E i \in Intent : \/ RecoverReadback(w, i) \/ RecoverAccount(w, i)
                               \/ ResolveIntent(w, i) \/ RerouteSelect(w, i)
                               \/ RerouteUpdate(w, i) \/ ReadbackPrevious(w, i)
                               \/ CheckReady(w, i)
    BY <2>3, GoneTo DEF RecoverReadback, RecoverAccount, ResolveIntent, RerouteSelect,
       RerouteUpdate, ReadbackPrevious,
                        CheckReady, HandPc, At
  <2>4. CASE \E a \in Account : PickAccount(w, a)
    BY <2>4, GoneTo DEF PickAccount, HandPc, At
  <2> QED BY <2>1, <2>2, <2>3, <2>4
<1>4. Others(w)
  <2> SUFFICES ASSUME NEW v \in Worker, v # w PROVE Same(v)
    BY DEF Others
  <2>1. CASE \/ ReadDeployment(w) \/ ResetForDeployment(w) \/ ReadSettings(w)
             \/ EndSyncOff(w) \/ ListInProgress(w) \/ RecoverMissed(w)
             \/ RecoverRecord(w)
    BY <2>1, OwnUpdates DEF ReadDeployment, ResetForDeployment, ReadSettings, EndSyncOff,
       ListInProgress, RecoverMissed,
                            RecoverRecord, plan, Same
  <2>2. CASE ListPending(w) \/ EndResolve(w) \/ FinishCycle(w) \/ SettlePrevious(w)
    BY <2>2, OwnUpdates DEF ListPending, EndResolve, FinishCycle, SettlePrevious,
                            plan, Same
  <2>3. CASE \E i \in Intent : \/ RecoverReadback(w, i) \/ RecoverAccount(w, i)
                               \/ ReadbackPrevious(w, i) \/ CheckReady(w, i)
    BY <2>3, OwnUpdates DEF RecoverReadback, RecoverAccount, ReadbackPrevious,
                            CheckReady, plan, Same
  <2>4. CASE \E a \in Account : PickAccount(w, a)
    BY <2>4, OwnUpdates DEF PickAccount, Same
  <2>5. ASSUME NEW i \in Intent,
               ResolveIntent(w, i) \/ RerouteSelect(w, i) \/ RerouteUpdate(w, i)
        PROVE  Same(v)
    <3>1. seen'[v] = seen[v]
      BY <2>5 DEF ResolveIntent, RerouteSelect, RerouteUpdate, DropRoute, CyclesOK
    <3> QED BY <2>5, <3>1, OwnUpdates DEF ResolveIntent, RerouteSelect, RerouteUpdate, Same
  <2> QED BY <2>1, <2>2, <2>3, <2>4, <2>5
<1> QED BY <1>1, <1>2, <1>3, <1>4, EmptiedIsLesser

LEMMA PausedLesser ==
  ASSUME TypeOK, NEW w \in Worker, NextAccount(w), UNCHANGED <<intentRows, verdict>>
  PROVE  Lesser
<1>1. Others(w) /\ pc'[w] \notin HandPc
  BY OwnUpdates, GoneTo DEF TypeOK, Others, HandPc
<1> QED BY <1>1, RowsQuiet, EmptiedIsLesser

LEMMA ResultsLesser ==
  ASSUME TypeOK, NEW w \in Worker,
         \/ BeforePostThrows(w) \/ PostThrows(w) \/ PostAnswered(w) \/ EndReadback(w)
         \/ EndBatch(w) \/ StartCycle(w) \/ Hang(w) \/ Crash(w) \/ StatementFails(w)
         \/ \E i \in Intent : Readback(w, i) \/ RecordResult(w, i)
  PROVE  Lesser
<1> USE DEF TypeOK
<1>1. UNCHANGED verdict
  BY DEF BeforePostThrows, PostThrows, PostAnswered, EndReadback, EndBatch, StartCycle,
         Hang, Crash, StatementFails, Readback, RecordResult, ReadBackAll, outside, routing,
         cotik
<1>2. NoNewAborts /\ UNCHANGED attempts
  <2>1. CASE \E i \in Intent : RecordResult(w, i)
    BY <2>1, RecordQuiet, RowsQuiet DEF RecordResult, RecordOrPause
  <2>2. CASE ~\E i \in Intent : RecordResult(w, i)
    <3>1. UNCHANGED intentRows
      BY <2>2 DEF BeforePostThrows, PostThrows, PostAnswered, EndReadback, EndBatch,
                  StartCycle, Hang, Crash, StatementFails, Readback, ReadBackAll
    <3> QED BY <3>1, RowsQuiet
  <2> QED BY <2>1, <2>2
<1>3. pc'[w] \notin HandPc
  <2>1. CASE \/ BeforePostThrows(w) \/ PostThrows(w) \/ PostAnswered(w)
             \/ EndReadback(w) \/ EndBatch(w)
    BY <2>1, GoneTo DEF BeforePostThrows, PostThrows, PostAnswered, EndReadback,
                        EndBatch, ReadBackAll, HandPc
  <2>2. CASE StartCycle(w) \/ Hang(w) \/ Crash(w) \/ StatementFails(w)
    BY <2>2, GoneTo DEF StartCycle, Hang, Crash, StatementFails, ReadBackAll, HandPc
  <2>3. CASE \E i \in Intent : Readback(w, i) \/ RecordResult(w, i)
    BY <2>3, GoneTo DEF Readback, RecordResult, RecordOrPause, HandPc, At
  <2> QED BY <2>1, <2>2, <2>3
<1>4. Others(w)
  <2> SUFFICES ASSUME NEW v \in Worker, v # w PROVE Same(v)
    BY DEF Others
  <2>1. CASE \/ BeforePostThrows(w) \/ PostThrows(w) \/ PostAnswered(w)
             \/ EndReadback(w) \/ EndBatch(w)
    BY <2>1, OwnUpdates DEF BeforePostThrows, PostThrows, PostAnswered, EndReadback,
                            EndBatch, ReadBackAll, plan, Same
  <2>2. CASE StartCycle(w) \/ Hang(w) \/ Crash(w) \/ StatementFails(w)
    BY <2>2, OwnUpdates DEF StartCycle, Hang, Crash, StatementFails, ReadBackAll, plan, Same
  <2>3. CASE \E i \in Intent : Readback(w, i) \/ RecordResult(w, i)
    BY <2>3, OwnUpdates DEF Readback, RecordResult, RecordOrPause, plan, Same
  <2> QED BY <2>1, <2>2, <2>3
<1> QED BY <1>1, <1>2, <1>3, <1>4, EmptiedIsLesser

\* From the guard to the send the same intents stay in hand.
LEMMA DispatchLesser ==
  ASSUME TypeOK, NEW w \in Worker,
         \/ Guard(w) \/ Authorize(w) \/ Paced(w) \/ BeforePost(w)
         \/ \E i \in Intent : BeforePostEvidence(w, i)
  PROVE  Lesser
<1> USE DEF TypeOK
<1>1. CASE NextAccount(w)
  <2>1. UNCHANGED <<intentRows, verdict>>
    BY DEF Guard, Authorize, Paced, BeforePost, BeforePostEvidence, outside, routing, cotik
  <2> QED BY <1>1, <2>1, PausedLesser
<1>2. CASE ~NextAccount(w)
  <2>1. UNCHANGED verdict /\ NoNewAborts /\ UNCHANGED attempts
    BY RowsQuiet DEF Guard, Authorize, Paced, BeforePost, BeforePostEvidence, outside,
       routing, cotik
  <2>2. Others(w)
    <3> SUFFICES ASSUME NEW v \in Worker, v # w PROVE Same(v)
      BY DEF Others
    <3> QED BY <1>2, OwnUpdates DEF Guard, Authorize, Paced, BeforePost,
                                    BeforePostEvidence, plan, Same
  <2>3. kept' = kept /\ seen' = seen
    BY <1>2 DEF Guard, Authorize, Paced, BeforePost, BeforePostEvidence, plan
  <2>4. ASSUME NEW i \in Intent, Holds(w, i)' PROVE Holds(w, i)
    <3>1. CASE Guard(w)
      <4>1. At(w, "recheck")
        BY <3>1 DEF Guard
      <4>2. i \in kept[w]
        BY <1>2, <2>3, <2>4, <3>1, GoneTo DEF Guard, Holds, At, Visit, CyclesOK
      <4> QED BY <4>1, <4>2 DEF Holds
    <3>2. CASE Authorize(w) \/ Paced(w) \/ BeforePost(w)
               \/ \E j \in Intent : BeforePostEvidence(w, j)
      <4>1. pc[w] \in {"authorize", "pace", "beforePost", "evidence"}
        BY <3>2 DEF Authorize, Paced, BeforePost, BeforePostEvidence, At
      <4>2. pc'[w] \notin {"recheck", "abort"}
        BY <3>2, GoneTo DEF Authorize, Paced, BeforePost, BeforePostEvidence
      <4> QED BY <2>3, <2>4, <4>1, <4>2 DEF Holds, At
    <3> QED BY <3>1, <3>2
  <2>5. pc'[w] # "recheck"
    BY <1>2, GoneTo DEF Guard, Authorize, Paced, BeforePost, BeforePostEvidence
  <2>6. HandsShrink
    <3>1. ASSUME NEW v \in Worker, NEW i \in Intent, Holds(v, i)'
          PROVE  Holds(v, i) /\ seen'[v][i] = seen[v][i]
      BY <2>2, <2>3, <2>4, <3>1, SameHolds DEF Others
    <3>2. ASSUME NEW v \in Worker, At(v, "recheck")'
          PROVE  At(v, "recheck") /\ todo'[v] \cap kept'[v] \subseteq todo[v] \cap kept[v]
      BY <2>2, <2>5, <3>2, SameHolds DEF Others, At
    <3> QED BY <3>1, <3>2 DEF HandsShrink
  <2> QED BY <2>1, <2>6, CotikQuiet, QuietIsLesser
<1> QED BY <1>1, <1>2

\* The abort of an intent in hand, or its passing the check after reservation.
LEMMA AbortLesser ==
  ASSUME TypeOK, Apart, NEW w \in Worker, NEW i \in Intent,
         Recheck(w, i) \/ AbortReserved(w, i)
  PROVE  Lesser
<1> USE DEF TypeOK
<1>1. UNCHANGED verdict
  BY DEF Recheck, AbortReserved, outside, routing, cotik
<1>2. CASE NextAccount(w) /\ UNCHANGED intentRows
  BY <1>1, <1>2, PausedLesser
<1>3. CASE At(w, "recheck") /\ i \in todo[w] /\ evidence[i] = route[w][i]
  <2>1. /\ Done(w, i) /\ Keep(w, kept[w] \cup {i})
        /\ UNCHANGED <<intentRows, pc, seen>>
    BY <1>3 DEF Recheck, AbortReserved, At, plan
  <2>2. Others(w)
    BY <2>1, OwnUpdates DEF Others, Same
  <2>3. ASSUME NEW j \in Intent, Holds(w, j)' PROVE Holds(w, j)
    <3>1. todo'[w] = todo[w] \ {i} /\ kept'[w] = kept[w] \cup {i}
      BY <2>1 DEF Done, Visit, Keep, CyclesOK
    <3> QED BY <1>3, <2>1, <2>3, <3>1 DEF Holds, At
  <2>4. HandsShrink
    <3>1. ASSUME NEW v \in Worker, NEW j \in Intent, Holds(v, j)'
          PROVE  Holds(v, j) /\ seen'[v][j] = seen[v][j]
      BY <2>1, <2>2, <2>3, <3>1, SameHolds DEF Others
    <3>2. ASSUME NEW v \in Worker, At(v, "recheck")'
          PROVE  At(v, "recheck") /\ todo'[v] \cap kept'[v] \subseteq todo[v] \cap kept[v]
      <4>1. CASE v = w
        BY <2>1, <3>2, <4>1 DEF Done, Visit, Keep, CyclesOK, At
      <4>2. CASE v # w
        BY <2>2, <3>2, <4>2, SameHolds DEF Others
      <4> QED BY <4>1, <4>2
    <3> QED BY <3>1, <3>2 DEF HandsShrink
  <2> QED BY <1>1, <2>1, <2>4, RowsQuiet, CotikQuiet, QuietIsLesser
<1>4. CASE /\ At(w, "recheck") \/ At(w, "abort")
           /\ i \in todo[w]
           /\ RecordPostAttempt(i, seen[w][i], "UNCONFIRMED", "abort")
           /\ Done(w, i)
           /\ UNCHANGED <<pc, kept, plan>>
           /\ At(w, "recheck") => i \notin kept[w]
  <2>1. todo'[w] = todo[w] \ {i} /\ UNCHANGED <<pc, kept, seen>>
    BY <1>4 DEF Done, Visit, CyclesOK, plan
  <2>2. Others(w)
    BY <1>4, <2>1, OwnUpdates DEF Others, Same
  <2>3. \A j \in Intent : Holds(w, j)' => Holds(w, j)
    BY <2>1 DEF Holds, At
  <2>4. HandsShrink
    <3>1. ASSUME NEW v \in Worker, NEW j \in Intent, Holds(v, j)'
          PROVE  Holds(v, j) /\ seen'[v][j] = seen[v][j]
      BY <2>1, <2>2, <2>3, <3>1, SameHolds DEF Others
    <3>2. ASSUME NEW v \in Worker, At(v, "recheck")'
          PROVE  At(v, "recheck") /\ todo'[v] \cap kept'[v] \subseteq todo[v] \cap kept[v]
      <4>1. CASE v = w
        BY <2>1, <3>2, <4>1 DEF Done, Visit, Keep, CyclesOK, At
      <4>2. CASE v # w
        BY <2>2, <3>2, <4>2, SameHolds DEF Others
      <4> QED BY <4>1, <4>2
    <3> QED BY <3>1, <3>2 DEF HandsShrink
  <2>5. Aborts(w, i)
    BY <1>4, <2>1 DEF Aborts, Holds, At, RecordPostAttempt, Recordable
  <2>6. UNCHANGED attempts /\ \A j \in Intent : j # i => status'[j] = status[j]
    BY <1>4 DEF RecordPostAttempt, RowsOK
  <2> QED BY <1>1, <2>4, <2>5, <2>6, CotikQuiet DEF Lesser
<1> QED BY <1>2, <1>3, <1>4 DEF Recheck, AbortReserved, RecordOrPause, Apart

\* The reservation takes up attempts that nobody has in hand.
LEMMA ReserveKeeps ==
  ASSUME TypeOK, NeverSent, NEW w \in Worker, Reserve(w) PROVE NeverSent'
<1> USE DEF TypeOK, NeverSent
<1>1. UNCHANGED verdict
  BY DEF Reserve, outside, routing, cotik
<1>2. CASE NextAccount(w) /\ UNCHANGED intentRows
  BY <1>1, <1>2, PausedLesser, LesserKeeps
<1>3. CASE ~(NextAccount(w) /\ UNCHANGED intentRows)
  <2> DEFINE S == {i \in kept[w] : Postable(i)}
  <2>1. /\ ReservePostIntents(S)
        /\ Goto(w, "recheck") /\ Visit(w, S) /\ Keep(w, {})
        /\ seen' = [seen EXCEPT
             ![w] = [i \in Intent |-> IF i \in S THEN attempts[i] + 1 ELSE @[i]]]
    BY <1>3 DEF Reserve
  <2>2. S \in SUBSET Intent /\ \A i \in S : attempts[i] + 1 \in AttemptNo
    BY TrackingConstants DEF Postable, RowsOK, CyclesOK, AttemptNo
  <2> HIDE DEF S
  <2>3. /\ pc'[w] = "recheck" /\ todo'[w] = S /\ kept'[w] = {}
        /\ \A i \in S : seen'[w][i] = attempts[i] + 1
    BY <2>1, <2>2 DEF Goto, Visit, Keep, CyclesOK
  <2>4. ASSUME NEW v \in Worker, v # w PROVE Same(v)
    BY <2>1, <2>4 DEF Goto, Visit, Keep, CyclesOK, Same
  <2>5. ASSUME NEW i \in Intent
        PROVE  /\ attempts[i] \in 0..MaxAttempts
               /\ attempts'[i] = IF i \in S THEN attempts[i] + 1 ELSE attempts[i]
               /\ status'[i] = IF i \in S THEN "IN_PROGRESS" ELSE status[i]
    BY <2>1 DEF ReservePostIntents, RowsOK
  <2>6. ASSUME NEW v \in Worker, NEW i \in Intent, Holds(v, i)'
        PROVE  \/ v = w /\ i \in S /\ seen'[v][i] = attempts[i] + 1
               \/ /\ v # w /\ Holds(v, i)
                  /\ seen'[v][i] = seen[v][i] /\ seen[v][i] \in 1..attempts[i]
                  /\ verdict[i][seen[v][i]] = "unsent"
                  /\ seen[v][i] = attempts[i] => status[i] # "ABORTED"
    <3>1. CASE v = w
      BY <2>3, <2>6, <3>1 DEF Holds, At
    <3>2. CASE v # w
      BY <2>4, <2>6, <3>2, SameHolds DEF InHandUnsent
    <3> QED BY <3>1, <3>2
  <2>7. InHandUnsent'
    <3> SUFFICES ASSUME NEW v \in Worker, NEW i \in Intent, Holds(v, i)'
                 PROVE  /\ seen'[v][i] \in 1..attempts'[i]
                        /\ verdict[i][seen'[v][i]] = "unsent"
                        /\ seen'[v][i] = attempts'[i] => status'[i] # "ABORTED"
      BY <1>1 DEF InHandUnsent
    <3>1. CASE v = w /\ i \in S /\ seen'[v][i] = attempts[i] + 1
      BY <2>2, <2>5, <3>1 DEF UnreservedUnsent
    <3>2. CASE ~(v = w /\ i \in S /\ seen'[v][i] = attempts[i] + 1)
      BY <2>5, <2>6, <3>2
    <3> QED BY <3>1, <3>2
  <2>8. InOneHand'
    <3> SUFFICES ASSUME NEW u \in Worker, NEW v \in Worker, NEW i \in Intent,
                        u # v, Holds(u, i)', Holds(v, i)'
                 PROVE  seen'[u][i] # seen'[v][i]
      BY DEF InOneHand
    <3> QED BY <2>5, <2>6 DEF InOneHand
  <2>9. UnreservedUnsent'
    BY <1>1, <2>5 DEF UnreservedUnsent, AttemptNo
  <2>10. Apart'
    BY <2>3, <2>4 DEF Apart, Same, At
  <2>11. AbortedUnsent'
    BY <1>1, <2>5 DEF AbortedUnsent
  <2> QED BY <2>7, <2>8, <2>9, <2>10, <2>11
<1> QED BY <1>2, <1>3

\* The POST sends what is in hand, and with it the hand is empty.
LEMMA SendKeeps ==
  ASSUME TypeOK, NeverSent, NEW w \in Worker, Send(w) PROVE NeverSent'
<1> USE DEF TypeOK, NeverSent
<1>1. UNCHANGED intentRows
  BY DEF Send
<1>2. ASSUME NEW v \in Worker, v # w PROVE Same(v)
  BY <1>2, OwnUpdates DEF Send, plan, Same
<1>3. pc'[w] = "await" /\ pc[w] = "send"
  BY GoneTo DEF Send, At
<1>4. ASSUME NEW i \in Intent, NEW n \in AttemptNo, verdict'[i][n] # verdict[i][n]
      PROVE  Holds(w, i) /\ n = seen[w][i]
  BY <1>3, <1>4 DEF Send, Holds, At, OutsideOK
<1>5. ASSUME NEW v \in Worker, NEW i \in Intent, Holds(v, i)'
      PROVE  v # w /\ Holds(v, i) /\ seen'[v][i] = seen[v][i]
  <2>1. v # w
    BY <1>3, <1>5, EmptyHand DEF HandPc
  <2> QED BY <1>2, <1>5, <2>1, SameHolds
<1>6. \A i \in Intent : 1..attempts[i] \subseteq AttemptNo
  BY TrackingConstants DEF RowsOK, AttemptNo
<1>7. InHandUnsent'
  <2> SUFFICES ASSUME NEW v \in Worker, NEW i \in Intent, Holds(v, i)'
               PROVE  /\ seen[v][i] \in 1..attempts[i]
                      /\ verdict'[i][seen[v][i]] = "unsent"
                      /\ seen[v][i] = attempts[i] => status[i] # "ABORTED"
    BY <1>1, <1>5 DEF InHandUnsent, intentRows
  <2>1. /\ seen[v][i] \in 1..attempts[i] /\ verdict[i][seen[v][i]] = "unsent"
        /\ seen[v][i] = attempts[i] => status[i] # "ABORTED"
    BY <1>5 DEF InHandUnsent
  <2>2. ~(Holds(w, i) /\ seen[v][i] = seen[w][i])
    BY <1>5 DEF InOneHand
  <2> QED BY <1>4, <1>6, <2>1, <2>2
<1>8. InOneHand'
  BY <1>5 DEF InOneHand
<1>9. UnreservedUnsent'
  <2> SUFFICES ASSUME NEW i \in Intent, NEW n \in AttemptNo, n > attempts[i]
               PROVE  verdict'[i][n] = "unsent"
    BY <1>1 DEF UnreservedUnsent, intentRows
  <2>1. ~(Holds(w, i) /\ n = seen[w][i])
    BY DEF InHandUnsent, RowsOK, AttemptNo
  <2> QED BY <1>4, <2>1 DEF UnreservedUnsent
<1>10. Apart'
  BY <1>2, <1>3 DEF Apart, Same, At
<1>11. AbortedUnsent'
  <2> SUFFICES ASSUME NEW i \in Intent, status[i] = "ABORTED"
               PROVE  /\ attempts[i] \in AttemptNo
                      /\ verdict'[i][attempts[i]] = "unsent"
    BY <1>1 DEF AbortedUnsent, intentRows
  <2>1. attempts[i] \in AttemptNo /\ verdict[i][attempts[i]] = "unsent"
    BY DEF AbortedUnsent
  <2>2. ~(Holds(w, i) /\ attempts[i] = seen[w][i])
    BY DEF InHandUnsent
  <2> QED BY <1>4, <2>1, <2>2
<1> QED BY <1>7, <1>8, <1>9, <1>10, <1>11

LEMMA NeverSentInit == Init => NeverSent
BY TrackingConstants
DEF Init, NeverSent, InHandUnsent, InOneHand, UnreservedUnsent, Apart, AbortedUnsent,
    Holds, At, NoCount, AttemptNo

LEMMA NeverSentStep == TypeOK /\ NeverSent /\ [Next]_vars => NeverSent'
<1> SUFFICES ASSUME TypeOK, NeverSent, [Next]_vars PROVE NeverSent'
  OBVIOUS
<1>1. CASE World
  BY <1>1, WorldLesser, LesserKeeps
<1>2. ASSUME NEW w \in Worker, CycleStep(w) PROVE NeverSent'
  <2>1. CASE Reserve(w)
    BY <2>1, ReserveKeeps
  <2>2. CASE Send(w)
    BY <2>2, SendKeeps
  <2>3. CASE ~Reserve(w) /\ ~Send(w)
    <3>1. Lesser
      BY <1>2, <2>3, PrepareLesser, ResultsLesser, DispatchLesser, AbortLesser
      DEF CycleStep, NeverSent
    <3> QED BY <3>1, LesserKeeps
  <2> QED BY <2>1, <2>2, <2>3
<1>3. ASSUME NEW w \in Worker, StartCycle(w) \/ Hang(w) \/ Crash(w) \/ StatementFails(w)
      PROVE  NeverSent'
  BY <1>3, ResultsLesser, LesserKeeps
<1>4. ASSUME NEW w \in Worker, LoseLockSession(w) PROVE NeverSent'
  <2>1. UNCHANGED cycles /\ UNCHANGED intentRows /\ UNCHANGED verdict
    BY <1>4 DEF LoseLockSession, cotik
  <2> QED BY <2>1, CyclesUntouched, RowsQuiet, CotikQuiet, QuietIsLesser, LesserKeeps
<1>5. CASE UNCHANGED vars
  <2>1. UNCHANGED cycles /\ UNCHANGED intentRows /\ UNCHANGED verdict
    BY <1>5 DEF vars, outside, routing, cotik
  <2> QED BY <2>1, CyclesUntouched, RowsQuiet, CotikQuiet, QuietIsLesser, LesserKeeps
<1> QED BY <1>1, <1>2, <1>3, <1>4, <1>5 DEF Next

\* An attempt recorded as ABORTED never reached COTIK, for any number of
\* daemons and CLI runs whose cycles overlap, crash or lose the lock anywhere.
THEOREM AbortedCorrect == Spec => []AbortedWasNeverSent
<1>1. Init => NeverSent
  BY NeverSentInit
<1>2. TypeOK /\ NeverSent /\ [Next]_vars => NeverSent'
  BY NeverSentStep
<1>3. NeverSent => AbortedWasNeverSent
  BY DEF NeverSent, AbortedUnsent, AbortedWasNeverSent
<1> QED BY <1>1, <1>2, <1>3, TypeCorrect, PTL DEF Spec

-----------------------------------------------------------------------------
(* CONFIRMED means held: when no order is staged with two tracking         *)
(* numbers, a row is CONFIRMED, and a replay row exists, only for a number *)
(* COTIK did hold. Without that premise the first claim is false: see the  *)
(* run CotikOneOrderTwoTrackings.cfg.                                      *)

\* Intent i has been seen in COTIK.
WasHeld(i) == TrackingOf[i] \in held[OrderOf[i]]

Sure == {"recovered", "settleYes"}

\* COTIK's present number is one it held, ...
PresentHeld == \A o \in Order : tracking[o] \in held[o] \cup {NoTracking}

\* ... an intent whose readback matched is one, and ...
SureHeld == \A w \in Worker : pc[w] \in Sure => cur[w] \in Intent /\ WasHeld(cur[w])

\* ... so are all intents of an order in the set of confirmed orders.
ConfHeld == \A w \in Worker, i \in Intent : OrderOf[i] \in conf[w] => WasHeld(i)

HeldInv == PresentHeld /\ SureHeld /\ ConfHeld /\ ConfirmedWasHeld /\ ReplayedOnlyIfHeld

HeldGrows == \A o \in Order : held[o] \subseteq held'[o]

\* As far as these sets go, the cycle of v is untouched.
Alike(v) == pc'[v] = pc[v] /\ cur'[v] = cur[v] /\ conf'[v] = conf[v]

\* What a step of the cycle of w may make certain: the intent it has just read
\* back, the orders it has read back, and the rows it records from those.
Certain(w) ==
  /\ UNCHANGED <<tracking, held>>
  /\ \A v \in Worker : v # w => Alike(v)
  /\ pc'[w] \in Sure => cur'[w] \in Intent /\ Matches(cur'[w])
  /\ conf'[w] \subseteq conf[w] \cup {OrderOf[i] : i \in {j \in Intent : Matches(j)}}

\* What a step may do to the statuses.
Confirms(w, i) == (pc[w] \in Sure /\ i = cur[w]) \/ OrderOf[i] \in conf[w]

NewlyConfirmed ==
  \A i \in Intent : status'[i] = "CONFIRMED" /\ status[i] # "CONFIRMED" =>
    \E w \in Worker : Confirms(w, i)

NewlyStaged ==
  \A i \in Intent :
    status[i] = "ABSENT" /\ status'[i] # "ABSENT" /\ SourceOf[i] # NoIntent
      => status[SourceOf[i]] = "CONFIRMED"

LEMMA MatchesHeld ==
  ASSUME PresentHeld, NEW i \in Intent, Matches(i) PROVE WasHeld(i)
BY TrackingConstants DEF PresentHeld, Matches, WasHeld

LEMMA HeldStays ==
  ASSUME HeldGrows, NEW i \in Intent, WasHeld(i) PROVE WasHeld(i)'
BY TrackingConstants DEF HeldGrows, WasHeld

LEMMA StatusKeeps ==
  ASSUME HeldInv, HeldGrows, NewlyConfirmed, NewlyStaged
  PROVE  ConfirmedWasHeld' /\ ReplayedOnlyIfHeld'
<1> USE DEF HeldInv
<1>1. ASSUME NEW i \in Intent, status'[i] = "CONFIRMED" PROVE WasHeld(i)
  <2>1. CASE status[i] = "CONFIRMED"
    BY <2>1 DEF ConfirmedWasHeld, WasHeld
  <2>2. CASE status[i] # "CONFIRMED"
    <3>1. PICK w \in Worker : Confirms(w, i)
      BY <1>1, <2>2 DEF NewlyConfirmed
    <3> QED BY <3>1 DEF Confirms, SureHeld, ConfHeld
  <2> QED BY <2>1, <2>2
<1>2. ASSUME NEW i \in Intent, status'[i] # "ABSENT", SourceOf[i] # NoIntent
      PROVE  WasHeld(i)
  <2>1. CASE status[i] # "ABSENT"
    BY <1>2, <2>1 DEF ReplayedOnlyIfHeld, WasHeld
  <2>2. CASE status[i] = "ABSENT"
    <3>1. SourceOf[i] \in Intent /\ status[SourceOf[i]] = "CONFIRMED"
      BY <1>2, <2>2, TrackingConstants DEF NewlyStaged
    <3> QED BY <1>2, <3>1, TrackingConstants DEF ConfirmedWasHeld, WasHeld
  <2> QED BY <2>1, <2>2
<1>3. ConfirmedWasHeld'
  BY <1>1, HeldStays DEF ConfirmedWasHeld, WasHeld
<1>4. ReplayedOnlyIfHeld'
  BY <1>2, HeldStays DEF ReplayedOnlyIfHeld, WasHeld
<1> QED BY <1>3, <1>4

LEMMA RowsQuietHeld ==
  ASSUME UNCHANGED status PROVE NewlyConfirmed /\ NewlyStaged
BY DEF NewlyConfirmed, NewlyStaged

LEMMA WorldKeepsHeld ==
  ASSUME TypeOK, HeldInv, World PROVE HeldInv'
<1> USE DEF TypeOK
<1>1. UNCHANGED cycles
  BY StagingMoves DEF World, SetSwitches, StageConfirmedForReplay, CreateForReplay,
     AccountChanges,
         ReopenPostIntentForReplay, EvidenceChanges, TrackedByHand, CotikApplies,
         CotikRejects
<1>2. HeldGrows /\ PresentHeld'
  <2>1. ASSUME NEW o \in Order, TrackedByHand(o) PROVE HeldGrows /\ PresentHeld'
    BY <2>1 DEF TrackedByHand, OutsideOK, HeldGrows, HeldInv, PresentHeld
  <2>2. ASSUME NEW i \in Intent, NEW n \in AttemptNo, CotikApplies(i, n)
        PROVE  HeldGrows /\ PresentHeld'
    BY <2>2 DEF CotikApplies, OutsideOK, HeldGrows, HeldInv, PresentHeld
  <2>3. CASE /\ ~\E o \in Order : TrackedByHand(o)
             /\ ~\E i \in Intent, n \in AttemptNo : CotikApplies(i, n)
    <3>1. UNCHANGED <<tracking, held>>
      BY <2>3, StagingMoves DEF World, SetSwitches, StageConfirmedForReplay, CreateForReplay,
         AccountChanges,
                  ReopenPostIntentForReplay, EvidenceChanges, CotikRejects, cotik
    <3> QED BY <3>1 DEF HeldGrows, HeldInv, PresentHeld
  <2> QED BY <2>1, <2>2, <2>3
<1>3. NewlyConfirmed /\ NewlyStaged
  <2>1. ASSUME NEW s \in Stager, StageCotikTracking(s)
        PROVE  NewlyConfirmed /\ NewlyStaged
    <3>1. CASE UNCHANGED intentRows
      BY <3>1, RowsQuietHeld DEF intentRows
    <3>2. ASSUME NEW i \in Intent, NEW a, SourceOf[i] = NoIntent, Creates(i, a)
          PROVE  NewlyConfirmed /\ NewlyStaged
      BY <3>2 DEF Creates, RowsOK, NewlyConfirmed, NewlyStaged
    <3> QED BY <2>1, <3>1, <3>2, StagingMoves
  <2>2. ASSUME NEW i \in Intent, StageConfirmedForReplay(i)
        PROVE  NewlyConfirmed /\ NewlyStaged
    BY <2>2, ReplayMoves DEF Creates, RowsOK, NewlyConfirmed, NewlyStaged
  <2>3. ASSUME NEW i \in Intent, ReopenPostIntentForReplay(i)
        PROVE  NewlyConfirmed /\ NewlyStaged
    BY <2>3 DEF ReopenPostIntentForReplay, RowsOK, NewlyConfirmed, NewlyStaged
  <2>4. CASE /\ ~\E i \in Intent : \/ StageConfirmedForReplay(i)
                                   \/ ReopenPostIntentForReplay(i)
             /\ ~\E s \in Stager : StageCotikTracking(s)
    <3>1. UNCHANGED status
      BY <2>4 DEF World, SetSwitches, AccountChanges, EvidenceChanges, TrackedByHand,
         CotikApplies,
                  CotikRejects, intentRows
    <3> QED BY <3>1 DEF NewlyConfirmed, NewlyStaged
  <2> QED BY <2>1, <2>2, <2>3, <2>4
<1>4. SureHeld'
  <2> SUFFICES ASSUME NEW w \in Worker, pc[w] \in Sure
               PROVE  \E i \in Intent : cur'[w] = i /\ WasHeld(i)'
    BY <1>1 DEF SureHeld, cycles, WasHeld
  <2>1. cur[w] \in Intent /\ WasHeld(cur[w]) /\ cur' = cur
    BY <1>1 DEF HeldInv, SureHeld, cycles
  <2>2. PICK i \in Intent : cur[w] = i
    BY <2>1
  <2> QED BY <1>2, <2>1, <2>2, HeldStays
<1>5. ConfHeld'
  <2> SUFFICES ASSUME NEW w \in Worker, NEW i \in Intent, OrderOf[i] \in conf[w]
               PROVE  WasHeld(i)'
    BY <1>1 DEF ConfHeld, cycles, results
  <2> QED BY <1>2, HeldStays DEF HeldInv, ConfHeld
<1> QED BY <1>2, <1>3, <1>4, <1>5, StatusKeeps DEF HeldInv

LEMMA CertainKeeps ==
  ASSUME OneTrackingPerOrder, HeldInv, NEW w \in Worker, Certain(w),
         NewlyConfirmed, NewlyStaged
  PROVE  HeldInv'
<1> USE DEF HeldInv
<1>1. HeldGrows /\ PresentHeld'
  BY DEF Certain, HeldGrows, PresentHeld
<1>2. \A i \in Intent : WasHeld(i)' <=> WasHeld(i)
  BY DEF Certain, WasHeld
<1>3. SureHeld'
  <2> SUFFICES ASSUME NEW v \in Worker, pc'[v] \in Sure
               PROVE  cur'[v] \in Intent /\ WasHeld(cur'[v])
    BY DEF SureHeld, Certain, WasHeld
  <2>1. CASE v = w
    BY <2>1, MatchesHeld DEF Certain
  <2>2. CASE v # w
    BY <2>2 DEF Certain, Alike, SureHeld
  <2> QED BY <2>1, <2>2
<1>4. ConfHeld'
  <2> SUFFICES ASSUME NEW v \in Worker, NEW i \in Intent, OrderOf[i] \in conf'[v]
               PROVE  WasHeld(i)
    BY <1>2 DEF ConfHeld
  <2>1. CASE v # w \/ OrderOf[i] \in conf[v]
    BY <2>1 DEF Certain, Alike, ConfHeld
  <2>2. CASE v = w /\ OrderOf[i] \notin conf[v]
    <3>1. PICK j \in Intent : Matches(j) /\ OrderOf[j] = OrderOf[i]
      BY <2>2 DEF Certain
    <3> QED BY <3>1, MatchesHeld DEF OneTrackingPerOrder, WasHeld
  <2> QED BY <2>1, <2>2
<1> QED BY <1>1, <1>3, <1>4, StatusKeeps

-----------------------------------------------------------------------------
(* The steps of a cycle.                                                   *)

LEMMA OwnSets ==
  ASSUME CyclesOK, NEW w \in Worker
  PROVE  /\ \A v \in Worker : v # w =>
              /\ \A p : Goto(w, p) => pc'[v] = pc[v]
              /\ \A i : Current(w, i) => cur'[v] = cur[v]
              /\ \A S : Forget(w, S) => cur'[v] = cur[v] /\ conf'[v] = conf[v]
              /\ NextAccount(w) => Alike(v)
              /\ EndCycle(w) => Alike(v)
         /\ \A p : Goto(w, p) => pc'[w] = p
         /\ \A i : Current(w, i) => cur'[w] = i
         /\ NextAccount(w) => pc'[w] = "account" /\ conf'[w] = {}
         /\ EndCycle(w) => pc'[w] = "idle" /\ conf'[w] = {}
<1>1. \A p : Goto(w, p) => pc'[w] = p /\ \A v \in Worker : v # w => pc'[v] = pc[v]
  BY DEF CyclesOK, Goto
<1>2. \A i : Current(w, i) => cur'[w] = i /\ \A v \in Worker : v # w => cur'[v] = cur[v]
  BY DEF CyclesOK, Current
<1>3. \A S : Forget(w, S) => /\ conf'[w] = {}
                             /\ \A v \in Worker : v # w => /\ cur'[v] = cur[v]
                                                           /\ conf'[v] = conf[v]
  BY <1>2 DEF CyclesOK, Forget
<1> QED BY <1>1, <1>2, <1>3 DEF NextAccount, EndCycle, Alike

LEMMA RecordStages ==
  ASSUME RowsOK, Ledger, NEW i, NEW n, NEW out, NEW how,
         RecordPostAttempt(i, n, out, how)
  PROVE  NewlyStaged
<1>1. i \in Intent => status[i] # "ABSENT"
  BY TrackingConstants
  DEF RecordPostAttempt, Recordable, Ledger, Explained, AttemptNo
<1> QED BY <1>1 DEF RecordPostAttempt, NewlyStaged, RowsOK

LEMMA RecordNotConfirming ==
  ASSUME RowsOK, Ledger, NEW i, NEW n, NEW out, NEW how, how # "confirmed",
         RecordPostAttempt(i, n, out, how)
  PROVE  NewlyConfirmed /\ NewlyStaged
<1>1. StatusAfter(n, how) # "CONFIRMED"
  BY DEF StatusAfter
<1>2. status' = [status EXCEPT ![i] = StatusAfter(n, how)]
  BY DEF RecordPostAttempt
<1> QED BY <1>1, <1>2, RecordStages DEF NewlyConfirmed, RowsOK

LEMMA RecordConfirming ==
  ASSUME RowsOK, Ledger, NEW w \in Worker, NEW i, NEW n, NEW out,
         Confirms(w, i), RecordPostAttempt(i, n, out, "confirmed")
  PROVE  NewlyConfirmed /\ NewlyStaged
<1>1. status' = [status EXCEPT ![i] = StatusAfter(n, "confirmed")]
  BY DEF RecordPostAttempt
<1> QED BY <1>1, RecordStages DEF NewlyConfirmed, RowsOK

LEMMA StatusSteps ==
  ASSUME TypeOK, Ledger, NEW w \in Worker,
         CycleStep(w) \/ StartCycle(w) \/ Hang(w) \/ Crash(w) \/ StatementFails(w)
  PROVE  NewlyConfirmed /\ NewlyStaged
<1> USE DEF TypeOK
<1>1. CASE RecoverRecord(w)
  <2>1. Confirms(w, cur[w])
    BY <1>1 DEF RecoverRecord, At, Confirms, Sure
  <2> QED BY <1>1, <2>1, RecordConfirming, RowsQuietHeld DEF RecoverRecord, intentRows
<1>2. CASE SettlePrevious(w)
  <2>1. CASE UNCHANGED intentRows
    BY <2>1, RowsQuietHeld DEF intentRows
  <2>2. CASE At(w, "settleYes") /\ RecordPostAttempt(cur[w], seen[w][cur[w]], "SUCCESS", "confirmed")
    <3>1. Confirms(w, cur[w])
      BY <2>2 DEF At, Confirms, Sure
    <3> QED BY <2>2, <3>1, RecordConfirming
  <2>3. CASE RecordPostAttempt(cur[w], seen[w][cur[w]], "UNCONFIRMED", "keep")
    BY <2>3, RecordNotConfirming
  <2> QED BY <1>2, <2>1, <2>2, <2>3 DEF SettlePrevious
<1>3. ASSUME NEW i \in Intent, RecordResult(w, i) PROVE NewlyConfirmed /\ NewlyStaged
  <2>1. CASE UNCHANGED intentRows
    BY <2>1, RowsQuietHeld DEF intentRows
  <2>2. CASE RecordPostAttempt(i, seen[w][i], "SUCCESS", "confirmed") /\ Confirmed(w, i)
    BY <2>2, RecordConfirming DEF Confirmed, Confirms
  <2>3. ASSUME NEW out, NEW how, how # "confirmed",
               RecordPostAttempt(i, seen[w][i], out, how)
        PROVE  NewlyConfirmed /\ NewlyStaged
    BY <2>3, RecordNotConfirming
  <2> QED BY <1>3, <2>1, <2>2, <2>3 DEF RecordResult, RecordOrPause
<1>4. ASSUME NEW i \in Intent, Recheck(w, i) \/ AbortReserved(w, i)
      PROVE  NewlyConfirmed /\ NewlyStaged
  BY <1>4, RecordNotConfirming, RowsQuietHeld
  DEF Recheck, AbortReserved, RecordOrPause, intentRows
<1>5. ASSUME NEW i \in Intent,
             ResolveIntent(w, i) \/ RerouteSelect(w, i) \/ RerouteUpdate(w, i)
      PROVE  NewlyConfirmed /\ NewlyStaged
  <2>1. CASE UNCHANGED intentRows
    BY <2>1, RowsQuietHeld DEF intentRows
  <2>2. CASE RerouteUnattempted(i, route[w][i])
    BY <2>2, RowsQuietHeld DEF RerouteUnattempted
  <2> QED BY <1>5, <2>1, <2>2 DEF ResolveIntent, RerouteSelect, RerouteUpdate
<1>6. CASE Reserve(w)
  <2>1. CASE UNCHANGED intentRows
    BY <2>1, RowsQuietHeld DEF intentRows
  <2>2. CASE ReservePostIntents({i \in kept[w] : Postable(i)})
    BY <2>2 DEF ReservePostIntents, Postable, NewlyConfirmed, NewlyStaged
  <2> QED BY <1>6, <2>1, <2>2 DEF Reserve
<1>7. CASE /\ ~RecoverRecord(w) /\ ~SettlePrevious(w) /\ ~Reserve(w)
           /\ ~\E i \in Intent : \/ RecordResult(w, i) \/ Recheck(w, i)
                                 \/ AbortReserved(w, i) \/ ResolveIntent(w, i)
                                 \/ RerouteSelect(w, i) \/ RerouteUpdate(w, i)
  <2>1. UNCHANGED intentRows
    BY <1>7 DEF CycleStep, StartCycle, Hang, Crash, StatementFails, ReadDeployment,
       ResetForDeployment, ReadSettings, EndSyncOff, ListInProgress, RecoverMissed,
       ListPending, EndResolve, FinishCycle, Guard,
       Authorize, Paced, BeforePost, BeforePostThrows, Send, PostThrows, PostAnswered,
       EndReadback, EndBatch, ReadBackAll, RecoverReadback, RecoverAccount,
       ReadbackPrevious, CheckReady, BeforePostEvidence, Readback, PickAccount
  <2> QED BY <2>1, RowsQuietHeld DEF intentRows
<1> QED BY <1>1, <1>2, <1>3, <1>4, <1>5, <1>6, <1>7

\* A step that learns nothing from COTIK.
LEMMA LearnsNothing ==
  ASSUME NEW w \in Worker, UNCHANGED <<tracking, held>>, pc'[w] \notin Sure,
         conf'[w] \subseteq conf[w], \A v \in Worker : v # w => Alike(v)
  PROVE  Certain(w)
BY DEF Certain

LEMMA CotikSteps ==
  ASSUME NEW w \in Worker,
         CycleStep(w) \/ StartCycle(w) \/ Hang(w) \/ Crash(w) \/ StatementFails(w)
  PROVE  UNCHANGED <<tracking, held>>
<1>1. CASE \/ ReadDeployment(w) \/ ResetForDeployment(w) \/ ReadSettings(w)
           \/ EndSyncOff(w) \/ ListInProgress(w) \/ RecoverMissed(w)
           \/ RecoverRecord(w) \/ ListPending(w) \/ EndResolve(w) \/ FinishCycle(w)
           \/ SettlePrevious(w) \/ Reserve(w) \/ Guard(w) \/ Authorize(w) \/ Paced(w)
  BY <1>1 DEF ReadDeployment, ResetForDeployment, ReadSettings, EndSyncOff, ListInProgress,
     RecoverMissed, RecoverRecord,
     ListPending, EndResolve, FinishCycle, SettlePrevious, Reserve, Guard, Authorize,
     Paced, outside, routing, cotik
<1>2. CASE \/ BeforePost(w) \/ BeforePostThrows(w) \/ Send(w) \/ PostThrows(w)
           \/ PostAnswered(w) \/ EndReadback(w) \/ EndBatch(w)
           \/ StartCycle(w) \/ Hang(w) \/ Crash(w) \/ StatementFails(w)
  BY <1>2 DEF BeforePost, BeforePostThrows, Send, PostThrows, PostAnswered, EndReadback,
     EndBatch, StartCycle, Hang, Crash, StatementFails, ReadBackAll, outside, routing, cotik
<1>3. CASE \E i \in Intent :
             \/ RecoverReadback(w, i) \/ RecoverAccount(w, i) \/ ResolveIntent(w, i)
             \/ RerouteSelect(w, i) \/ RerouteUpdate(w, i)
             \/ ReadbackPrevious(w, i) \/ CheckReady(w, i) \/ Recheck(w, i)
             \/ AbortReserved(w, i) \/ BeforePostEvidence(w, i) \/ Readback(w, i)
             \/ RecordResult(w, i)
  BY <1>3 DEF RecoverReadback, RecoverAccount, ResolveIntent, RerouteSelect, RerouteUpdate,
     ReadbackPrevious, CheckReady,
     Recheck, AbortReserved, BeforePostEvidence, Readback, RecordResult, outside, routing, cotik
<1>4. CASE \E a \in Account : PickAccount(w, a)
  BY <1>4 DEF PickAccount, outside, routing, cotik
<1> QED BY <1>1, <1>2, <1>3, <1>4 DEF CycleStep

LEMMA CertainSteps ==
  ASSUME TypeOK, NEW w \in Worker,
         CycleStep(w) \/ StartCycle(w) \/ Hang(w) \/ Crash(w) \/ StatementFails(w)
  PROVE  Certain(w)
<1> USE CotikSteps, LearnsNothing DEF TypeOK
<1>1. CASE NextAccount(w) \/ EndCycle(w)
  BY <1>1, OwnSets DEF Sure
<1>2. CASE /\ ~NextAccount(w) /\ ~EndCycle(w)
           /\ \/ ReadDeployment(w) \/ ResetForDeployment(w) \/ ReadSettings(w)
              \/ EndSyncOff(w) \/ ListInProgress(w) \/ RecoverMissed(w)
              \/ RecoverRecord(w) \/ ListPending(w) \/ SettlePrevious(w) \/ Reserve(w)
              \/ Guard(w) \/ Authorize(w) \/ Paced(w) \/ BeforePost(w)
              \/ BeforePostThrows(w) \/ Send(w) \/ PostThrows(w) \/ PostAnswered(w)
              \/ EndReadback(w) \/ StartCycle(w) \/ StatementFails(w)
  <2>1. UNCHANGED conf
    BY <1>2 DEF ReadDeployment, ResetForDeployment, ReadSettings, EndSyncOff, ListInProgress,
       RecoverMissed, RecoverRecord,
       ListPending, SettlePrevious, Reserve, Guard, Authorize, Paced, BeforePost,
       BeforePostThrows, Send, PostThrows, PostAnswered, EndReadback, StartCycle,
       StatementFails, ReadBackAll, results
  <2>2. UNCHANGED cur \/ Current(w, NoIntent)
    BY <1>2 DEF ReadDeployment, ResetForDeployment, ReadSettings, EndSyncOff, ListInProgress,
       RecoverMissed, RecoverRecord,
       ListPending, SettlePrevious, Reserve, Guard, Authorize, Paced, BeforePost,
       BeforePostThrows, Send, PostThrows, PostAnswered, EndReadback, StartCycle,
       StatementFails, ReadBackAll
  <2>3. \E p : p \notin Sure /\ Goto(w, p)
    <3>1. CASE \/ ReadDeployment(w) \/ ResetForDeployment(w) \/ ReadSettings(w)
               \/ EndSyncOff(w) \/ ListInProgress(w) \/ RecoverMissed(w)
               \/ RecoverRecord(w) \/ ListPending(w) \/ SettlePrevious(w) \/ Reserve(w)
      BY <1>2, <3>1 DEF ReadDeployment, ResetForDeployment, ReadSettings, EndSyncOff,
         ListInProgress, RecoverMissed, RecoverRecord,
         ListPending, SettlePrevious, Reserve, Sure
    <3>2. CASE \/ Guard(w) \/ Authorize(w) \/ Paced(w) \/ BeforePost(w)
               \/ BeforePostThrows(w) \/ Send(w)
      BY <1>2, <3>2 DEF Guard, Authorize, Paced, BeforePost, BeforePostThrows, Send,
         ReadBackAll, Sure
    <3>3. CASE \/ PostThrows(w) \/ PostAnswered(w) \/ EndReadback(w)
               \/ StartCycle(w) \/ StatementFails(w)
      BY <1>2, <3>3 DEF PostThrows, PostAnswered, EndReadback, StartCycle,
         StatementFails, ReadBackAll, Sure
    <3> QED BY <1>2, <3>1, <3>2, <3>3
  <2> QED BY <2>1, <2>2, <2>3, OwnSets DEF Alike
<1>3. ASSUME NEW i \in Intent, RecoverReadback(w, i) \/ ReadbackPrevious(w, i),
             pc'[w] \in Sure
      PROVE  Certain(w)
  <2>1. Matches(i) /\ UNCHANGED conf
    BY <1>3, OwnSets DEF RecoverReadback, ReadbackPrevious, results, Sure
  <2>2. \E p : Goto(w, p)
    BY <1>3 DEF RecoverReadback, ReadbackPrevious
  <2>4. Current(w, i) \/ (UNCHANGED cur /\ cur[w] = i)
    BY <1>3 DEF RecoverReadback, ReadbackPrevious
  <2>3. cur'[w] = i /\ \A v \in Worker : v # w => Alike(v)
    BY <2>1, <2>2, <2>4, OwnSets DEF Alike
  <2> QED BY <2>1, <2>3 DEF Certain, Matches
<1>4. ASSUME NEW i \in Intent, ReadbackPrevious(w, i), pc'[w] \notin Sure
      PROVE  Certain(w)
  <2>1. Current(w, i) /\ UNCHANGED conf /\ \E p : Goto(w, p)
    BY <1>4 DEF ReadbackPrevious, results
  <2> QED BY <1>4, <2>1, OwnSets DEF Alike
<1>5. ASSUME NEW i \in Intent, ~NextAccount(w),
             \/ RecoverAccount(w, i) \/ ResolveIntent(w, i) \/ RerouteSelect(w, i)
             \/ RerouteUpdate(w, i) \/ CheckReady(w, i)
             \/ Recheck(w, i) \/ AbortReserved(w, i) \/ BeforePostEvidence(w, i)
             \/ RecordResult(w, i)
      PROVE  Certain(w)
  <2>1. UNCHANGED conf /\ (UNCHANGED cur \/ \E j : Current(w, j))
    BY <1>5 DEF RecoverAccount, ResolveIntent, RerouteSelect, RerouteUpdate, CheckReady,
       Recheck, AbortReserved, BeforePostEvidence, RecordResult, RecordOrPause, results
  <2>2. /\ pc'[w] \notin Sure
        /\ UNCHANGED pc \/ \E p : Goto(w, p)
    BY <1>5, OwnSets DEF RecoverAccount, ResolveIntent, RerouteSelect, RerouteUpdate,
       CheckReady, Recheck, AbortReserved,
       BeforePostEvidence, RecordResult, RecordOrPause, At, Sure
  <2> QED BY <2>1, <2>2, OwnSets DEF Alike
<1>6. ASSUME NEW i \in Intent, Readback(w, i) PROVE Certain(w)
  <2>1. UNCHANGED <<pc, cur>> /\ pc[w] \notin Sure
    BY <1>6 DEF Readback, At, Sure
  <2>2. \/ UNCHANGED conf
        \/ Matches(i) /\ conf' = [conf EXCEPT ![w] = conf[w] \cup {OrderOf[i]}]
    BY <1>6 DEF Readback
  <2>3. \A v \in Worker : v # w => Alike(v)
    BY <2>1, <2>2 DEF Alike, CyclesOK
  <2>4. conf'[w] \subseteq conf[w] \cup {OrderOf[j] : j \in {k \in Intent : Matches(k)}}
    BY <2>2 DEF CyclesOK
  <2> QED BY <2>1, <2>3, <2>4 DEF Certain
<1>7. ASSUME NEW a \in Account, PickAccount(w, a) PROVE Certain(w)
  <2>1. UNCHANGED <<cur, conf>>
    BY <1>7 DEF PickAccount, results
  <2>2. /\ pc'[w] \notin Sure
        /\ UNCHANGED pc \/ \E p : Goto(w, p)
    BY <1>7, OwnSets DEF PickAccount, At, Sure
  <2> QED BY <2>1, <2>2, OwnSets DEF Alike
<1>10. CASE Hang(w)
  <2>1. conf'[w] \subseteq conf[w] /\ pc'[w] \notin Sure /\ \A v \in Worker : v # w => Alike(v)
    BY <1>10 DEF Hang, Goto, Forget, Current, CyclesOK, Alike, Sure
  <2> QED BY <2>1
<1>8. CASE EndResolve(w) \/ FinishCycle(w) \/ EndBatch(w) \/ Crash(w) \/ EndSyncOff(w)
  BY <1>1, <1>8 DEF EndSyncOff, EndResolve, FinishCycle, EndBatch, Crash
<1>9. ASSUME NEW i \in Intent, RecoverReadback(w, i) PROVE pc'[w] \in Sure
  BY <1>9, OwnSets DEF RecoverReadback, Sure
<1> QED BY <1>1, <1>2, <1>3, <1>4, <1>5, <1>6, <1>7, <1>8, <1>9, <1>10 DEF CycleStep

LEMMA HeldInit == Init => HeldInv
BY TrackingConstants
DEF Init, HeldInv, PresentHeld, SureHeld, ConfHeld, ConfirmedWasHeld,
    ReplayedOnlyIfHeld, Sure

LEMMA HeldStep ==
  OneTrackingPerOrder /\ TypeOK /\ Ledger /\ HeldInv /\ [Next]_vars => HeldInv'
<1> SUFFICES ASSUME OneTrackingPerOrder, TypeOK, Ledger, HeldInv, [Next]_vars
             PROVE  HeldInv'
  OBVIOUS
<1>1. CASE World
  BY <1>1, WorldKeepsHeld
<1>2. ASSUME NEW w \in Worker,
             CycleStep(w) \/ StartCycle(w) \/ Hang(w) \/ Crash(w) \/ StatementFails(w)
      PROVE  HeldInv'
  BY <1>2, StatusSteps, CertainSteps, CertainKeeps
<1>3. CASE UNCHANGED vars \/ \E w \in Worker : LoseLockSession(w)
  <2>1. UNCHANGED <<tracking, held, pc, cur, conf, status>>
    BY <1>3 DEF vars, outside, routing, cotik, cycles, results, intentRows, LoseLockSession
  <2> QED BY <2>1 DEF HeldInv, PresentHeld, SureHeld, ConfHeld, ConfirmedWasHeld,
                      ReplayedOnlyIfHeld, WasHeld
<1> QED BY <1>1, <1>2, <1>3 DEF Next

\* If no order is ever staged with two tracking numbers, a row is CONFIRMED only
\* when COTIK held its number at some time: neither a late answer, an overlap of
\* cycles nor a batch of several intents confirms a row for something else.
THEOREM ConfirmedCorrect ==
  ASSUME OneTrackingPerOrder PROVE Spec => []ConfirmedWasHeld
<1>1. Init => HeldInv
  BY HeldInit
<1>2. TypeOK /\ Ledger /\ HeldInv /\ [Next]_vars => HeldInv'
  BY OneTrackingPerOrder, HeldStep
<1>3. HeldInv => ConfirmedWasHeld
  BY DEF HeldInv
<1> QED BY <1>1, <1>2, <1>3, TypeCorrect, LedgerCorrect, PTL DEF Spec

\* Under the same premise a row of a replay run exists only for a number COTIK
\* did hold, although its source row may be reopened and posted again meanwhile.
THEOREM ReplayCorrect ==
  ASSUME OneTrackingPerOrder PROVE Spec => []ReplayedOnlyIfHeld
<1>1. Init => HeldInv
  BY HeldInit
<1>2. TypeOK /\ Ledger /\ HeldInv /\ [Next]_vars => HeldInv'
  BY OneTrackingPerOrder, HeldStep
<1>3. HeldInv => ReplayedOnlyIfHeld
  BY DEF HeldInv
<1> QED BY <1>1, <1>2, <1>3, TypeCorrect, LedgerCorrect, PTL DEF Spec

-----------------------------------------------------------------------------
(***************************************************************************)
(* 2. The moment of sending: the hook of the POST saw the switches ON and  *)
(* the evidence unchanged, a new deployment was armed anew, and no attempt *)
(* is sent twice or while an earlier one is open.                          *)
(***************************************************************************)

\* A step of the cycle of w, a fault included.
StepOf(w) == CycleStep(w) \/ StartCycle(w) \/ Hang(w) \/ Crash(w) \/ StatementFails(w)

\* The cycle of v and what is known of its POST are untouched.
Untouched(v) ==
  /\ Same(v)
  /\ cur'[v] = cur[v] /\ later'[v] = later[v] /\ route'[v] = route[v]
  /\ conf'[v] = conf[v] /\ unconf'[v] = unconf[v] /\ fail'[v] = fail[v]
  /\ fresh'[v] = fresh[v]

-----------------------------------------------------------------------------
(* The invariants.                                                         *)

Dispatch == {"beforePost", "evidence", "send"}

\* What the hook has seen so far was so at some instant since the POST left
\* the pacing queue, and what is so now is known to have been.
FreshSoFar(w) ==
  /\ pc[w] = "beforePost" /\ armed => fresh[w].on
  /\ pc[w] \in {"evidence", "send"} => fresh[w].on
  /\ pc[w] \in Dispatch =>
       \A i \in kept[w] : evidence[i] = route[w][i] => i \in fresh[w].routed
  /\ pc[w] = "evidence" => kept[w] \ todo[w] \subseteq fresh[w].routed
  /\ pc[w] = "send" => kept[w] \subseteq fresh[w].routed

Freshness == \A w \in Worker : FreshSoFar(w)

\* The deployment before is gone: none of its processes runs any more.
OldIsGone == \A w \in Worker : VersionOf[w] # OldVersion

IsNew(w) == VersionOf[w] \notin {NoVersion, OldVersion}

BeforeReset == {"idle", "reset", "resetWrite", "hung"}

\* Once a new process has reset the settings they are no longer the old
\* deployment's, and what is armed then, and seen armed, was armed anew.
Rearmed ==
  /\ \A w \in Worker : IsNew(w) /\ pc[w] \notin BeforeReset => deployment # OldVersion
  /\ deployment # OldVersion /\ armed => armedUnder # OldVersion
  /\ \A w \in Worker : IsNew(w) /\ pc[w] \notin BeforeReset \cup {"gate", "syncOff"}
       => armedUnder # OldVersion

\* The cycle of w has reserved or sent the attempt seen[w][i] of i and has not
\* recorded what became of it.
Owns(w, i) ==
  \/ Holds(w, i)
  \/ pc[w] \in {"await", "readback"} /\ i \in kept[w]
  \/ pc[w] = "record" /\ i \in todo[w]

\* No attempt of i before n may still take effect, or it makes no difference.
Settled(i, n) ==
  WasHeld(i) \/ \A m \in AttemptNo : m < n => verdict[i][m] # "queued"

\* An owned attempt is in one cycle alone, ...
InOneCycle ==
  \A w, v \in Worker, i \in Intent :
    w # v /\ Owns(w, i) /\ Owns(v, i) => seen[w][i] # seen[v][i]

\* ... it is the last and its row is closed to reservations, unless COTIK held
\* the number, and the attempts before it are settled.
OwnedOpen ==
  \A w \in Worker, i \in Intent : Owns(w, i) =>
    /\ seen[w][i] \in 1..attempts[i]
    /\ \/ seen[w][i] = attempts[i] /\ status[i] \in {"IN_PROGRESS", "FAILED"}
       \/ WasHeld(i)
    /\ Settled(i, seen[w][i])

\* All attempts of a row that can be reserved or reopened are settled.
ReservableSettled ==
  \A i \in Intent : status[i] \in {"PENDING", "ABORTED"} => Settled(i, attempts[i] + 1)

\* A failure that is certain, no readback having been tried, was answered.
FailureAnswered ==
  \A w \in Worker, i \in Intent :
    /\ i \in kept[w]
    /\ \/ pc[w] = "record"
       \/ pc[w] = "readback" /\ i \notin todo[w]
    /\ OrderOf[i] \in fail[w] /\ OrderOf[i] \notin conf[w] \cup unconf[w]
    => seen[w][i] \in AttemptNo /\ verdict[i][seen[w][i]] \in Answered

\* A batch has failures only once its POST is over, and records what it kept.
Recording ==
  \A w \in Worker :
    /\ pc[w] \notin {"readback", "record"} => fail[w] = {}
    /\ pc[w] = "record" => todo[w] \subseteq kept[w]

OneInFlight ==
  InOneCycle /\ OwnedOpen /\ ReservableSettled /\ FailureAnswered /\ Recording

-----------------------------------------------------------------------------
(* A step of one cycle leaves the others alone.                            *)

LEMMA OwnPlan ==
  ASSUME CyclesOK, NEW w \in Worker, NEW v \in Worker, v # w
  PROVE  /\ \A i : Current(w, i) => cur'[v] = cur[v]
         /\ \A S : Snapshot(w, S) => seen'[v] = seen[v]
         /\ \A S : Forget(w, S) =>
              /\ todo'[v] = todo[v] /\ kept'[v] = kept[v] /\ cur'[v] = cur[v]
              /\ later'[v] = later[v] /\ route'[v] = route[v] /\ seen'[v] = seen[v]
              /\ conf'[v] = conf[v] /\ unconf'[v] = unconf[v] /\ fail'[v] = fail[v]
<1>1. \A i : Current(w, i) => cur'[v] = cur[v]
  BY DEF CyclesOK, Current
<1>2. \A S : Snapshot(w, S) => seen'[v] = seen[v]
  BY DEF CyclesOK, Snapshot
<1>3. \A S : Forget(w, S) => later'[v] = later[v] /\ route'[v] = route[v] /\ seen'[v] = seen[v]
  BY DEF CyclesOK, Forget
<1>4. \A S : Forget(w, S) => todo'[v] = todo[v] /\ kept'[v] = kept[v] /\ cur'[v] = cur[v]
  BY <1>1, OwnUpdates DEF Forget
<1>5. \A S : Forget(w, S) => conf'[v] = conf[v] /\ unconf'[v] = unconf[v] /\ fail'[v] = fail[v]
  BY DEF CyclesOK, Forget
<1> QED BY <1>1, <1>2, <1>3, <1>4, <1>5

LEMMA Locality ==
  ASSUME TypeOK, NEW w \in Worker, NEW v \in Worker, v # w, StepOf(w)
  PROVE  Untouched(v)
<1> USE OwnUpdates, OwnPlan DEF TypeOK, Untouched, Same
<1>1. ASSUME NextAccount(w), UNCHANGED fresh PROVE Untouched(v)
  BY <1>1 DEF NextAccount
<1>2. ASSUME EndCycle(w), fresh'[v] = fresh[v] PROVE Untouched(v)
  BY <1>2 DEF EndCycle
<1>3. CASE \/ ReadDeployment(w) \/ ResetForDeployment(w) \/ ReadSettings(w)
           \/ EndSyncOff(w) \/ ListInProgress(w) \/ RecoverMissed(w)
           \/ RecoverRecord(w) \/ EndResolve(w) \/ FinishCycle(w)
  BY <1>1, <1>2, <1>3 DEF ReadDeployment, ResetForDeployment, ReadSettings, EndSyncOff,
     ListInProgress, RecoverMissed, RecoverRecord,
     EndResolve, FinishCycle, outside, routing, plan, results
<1>4. CASE ListPending(w)
  <2>1. route'[v] = route[v]
    BY <1>4 DEF ListPending, CyclesOK
  <2> QED BY <1>4, <2>1 DEF ListPending, outside, routing, results
<1>5. CASE SettlePrevious(w) \/ Guard(w) \/ Authorize(w) \/ EndBatch(w)
  BY <1>1, <1>5 DEF SettlePrevious, Guard, Authorize, EndBatch, outside, routing, plan, results
<1>6. CASE Reserve(w)
  <2>1. CASE NextAccount(w)
    BY <1>1, <1>6, <2>1 DEF Reserve, outside, routing
  <2>2. CASE ~NextAccount(w)
    <3>1. seen'[v] = seen[v]
      BY <1>6, <2>2 DEF Reserve, CyclesOK
    <3> QED BY <1>6, <2>2, <3>1 DEF Reserve, outside, routing, results
  <2> QED BY <2>1, <2>2
<1>7. CASE Paced(w) \/ Send(w)
  <2>1. fresh'[v] = fresh[v]
    BY <1>7 DEF Paced, Send, OutsideOK
  <2> QED BY <1>7, <2>1 DEF Paced, Send, plan, results
<1>8. ASSUME ReadBackAll(w) PROVE Untouched(v)
  <2>1. fresh'[v] = fresh[v] /\ fail'[v] = fail[v]
    BY <1>8 DEF ReadBackAll, OutsideOK, CyclesOK
  <2> QED BY <1>8, <2>1 DEF ReadBackAll, plan
<1>9. CASE BeforePost(w) \/ BeforePostThrows(w) \/ PostThrows(w) \/ EndReadback(w)
  BY <1>8, <1>9
  DEF BeforePost, BeforePostThrows, PostThrows, EndReadback, outside, routing, plan, results
<1>10. CASE PostAnswered(w)
  <2>1. fail'[v] = fail[v]
    BY <1>10 DEF PostAnswered, CyclesOK
  <2> QED BY <1>10, <2>1 DEF PostAnswered, outside, routing, plan
<1>11. ASSUME NEW i \in Intent,
              \/ RecoverReadback(w, i) \/ RecoverAccount(w, i) \/ ReadbackPrevious(w, i)
              \/ CheckReady(w, i) \/ BeforePostEvidence(w, i)
       PROVE  Untouched(v)
  BY <1>11 DEF RecoverReadback, RecoverAccount, ReadbackPrevious, CheckReady,
               BeforePostEvidence, outside, routing, plan, results
<1>12. ASSUME NEW i \in Intent, Recheck(w, i) \/ AbortReserved(w, i) \/ RecordResult(w, i)
       PROVE  Untouched(v)
  <2>1. UNCHANGED fresh
    BY <1>12 DEF Recheck, AbortReserved, RecordResult, outside, routing
  <2>2. \A out, how : RecordOrPause(w, i, out, how) => Untouched(v)
    BY <1>1, <2>1 DEF RecordOrPause, plan, results
  <2> QED BY <1>12, <2>1, <2>2 DEF Recheck, AbortReserved, RecordResult, plan, results
<1>13. ASSUME NEW i \in Intent, Readback(w, i) PROVE Untouched(v)
  <2>1. conf'[v] = conf[v] /\ unconf'[v] = unconf[v]
    BY <1>13 DEF Readback, CyclesOK
  <2> QED BY <1>13, <2>1 DEF Readback, outside, routing, plan
<1>14. ASSUME NEW i \in Intent,
              ResolveIntent(w, i) \/ RerouteSelect(w, i) \/ RerouteUpdate(w, i)
       PROVE  Untouched(v)
  <2>1. later'[v] = later[v] /\ route'[v] = route[v] /\ seen'[v] = seen[v]
    BY <1>14 DEF ResolveIntent, RerouteSelect, RerouteUpdate, DropRoute, CyclesOK
  <2> QED BY <1>14, <2>1 DEF ResolveIntent, RerouteSelect, RerouteUpdate, outside, routing,
             results
<1>15. ASSUME NEW a \in Account, PickAccount(w, a) PROVE Untouched(v)
  <2>1. later'[v] = later[v]
    BY <1>15 DEF PickAccount, CyclesOK
  <2> QED BY <1>15, <2>1 DEF PickAccount, outside, routing, results
<1>16. CASE StartCycle(w)
  BY <1>16 DEF StartCycle, plan, results
<1>17. CASE Crash(w)
  <2>1. fresh'[v] = fresh[v]
    BY <1>17 DEF Crash, OutsideOK
  <2> QED BY <1>2, <1>17, <2>1 DEF Crash
<1>19. CASE Hang(w)
  BY <1>19 DEF Hang, outside
<1>18. CASE StatementFails(w)
  BY <1>1, <1>8, <1>18 DEF StatementFails
<1> QED BY <1>3, <1>4, <1>5, <1>6, <1>7, <1>9, <1>10, <1>11, <1>12, <1>13, <1>14, <1>15,
           <1>16, <1>17, <1>18, <1>19 DEF StepOf, CycleStep

LEMMA EvidenceStays ==
  ASSUME NEW w \in Worker, StepOf(w)
  PROVE  UNCHANGED evidence /\ (armed' => armed)
<1>1. CASE \/ ReadDeployment(w) \/ ResetForDeployment(w) \/ ReadSettings(w)
           \/ EndSyncOff(w) \/ ListInProgress(w) \/ RecoverMissed(w)
           \/ RecoverRecord(w) \/ ListPending(w) \/ EndResolve(w) \/ FinishCycle(w)
           \/ SettlePrevious(w) \/ Reserve(w) \/ Guard(w) \/ Authorize(w) \/ Paced(w)
  BY <1>1 DEF ReadDeployment, ResetForDeployment, ReadSettings, EndSyncOff, ListInProgress,
     RecoverMissed, RecoverRecord,
     ListPending, EndResolve, FinishCycle, SettlePrevious, Reserve, Guard, Authorize,
     Paced, outside, settings, routing
<1>2. CASE \/ BeforePost(w) \/ BeforePostThrows(w) \/ Send(w) \/ PostThrows(w)
           \/ PostAnswered(w) \/ EndReadback(w) \/ EndBatch(w)
           \/ StartCycle(w) \/ Hang(w) \/ Crash(w) \/ StatementFails(w)
  BY <1>2 DEF BeforePost, BeforePostThrows, Send, PostThrows, PostAnswered, EndReadback,
     EndBatch, StartCycle, Hang, Crash, StatementFails, ReadBackAll, outside, settings, routing
<1>3. CASE \E i \in Intent :
             \/ RecoverReadback(w, i) \/ RecoverAccount(w, i) \/ ResolveIntent(w, i)
             \/ RerouteSelect(w, i) \/ RerouteUpdate(w, i)
             \/ ReadbackPrevious(w, i) \/ CheckReady(w, i) \/ Recheck(w, i)
             \/ AbortReserved(w, i) \/ BeforePostEvidence(w, i) \/ Readback(w, i)
             \/ RecordResult(w, i)
  BY <1>3 DEF RecoverReadback, RecoverAccount, ResolveIntent, RerouteSelect, RerouteUpdate,
     ReadbackPrevious, CheckReady,
     Recheck, AbortReserved, BeforePostEvidence, Readback, RecordResult, outside, settings,
     routing
<1>4. CASE \E a \in Account : PickAccount(w, a)
  BY <1>4 DEF PickAccount, outside, settings, routing
<1> QED BY <1>1, <1>2, <1>3, <1>4 DEF StepOf, CycleStep

\* Only the steps of the dispatch itself leave a cycle in it.
LEMMA DispatchSteps ==
  ASSUME TypeOK, NEW w \in Worker, StepOf(w), pc'[w] \in Dispatch
  PROVE  Paced(w) \/ BeforePost(w) \/ \E i \in Intent : BeforePostEvidence(w, i)
<1> USE GoneTo DEF TypeOK, Dispatch, At
<1>1. CASE \/ ReadDeployment(w) \/ ResetForDeployment(w) \/ ReadSettings(w)
           \/ EndSyncOff(w) \/ ListInProgress(w) \/ RecoverMissed(w)
           \/ RecoverRecord(w) \/ ListPending(w) \/ EndResolve(w) \/ FinishCycle(w)
           \/ SettlePrevious(w) \/ Reserve(w) \/ Guard(w) \/ Authorize(w)
  BY <1>1 DEF ReadDeployment, ResetForDeployment, ReadSettings, EndSyncOff, ListInProgress,
     RecoverMissed, RecoverRecord,
     ListPending, EndResolve, FinishCycle, SettlePrevious, Reserve, Guard, Authorize
<1>2. CASE \/ BeforePostThrows(w) \/ Send(w) \/ PostThrows(w)
           \/ PostAnswered(w) \/ EndReadback(w) \/ EndBatch(w)
           \/ StartCycle(w) \/ Hang(w) \/ Crash(w) \/ StatementFails(w)
  BY <1>2 DEF BeforePostThrows, Send, PostThrows, PostAnswered, EndReadback,
     EndBatch, StartCycle, Hang, Crash, StatementFails, ReadBackAll
<1>3. CASE \E i \in Intent :
             \/ RecoverReadback(w, i) \/ RecoverAccount(w, i) \/ ResolveIntent(w, i)
             \/ RerouteSelect(w, i) \/ RerouteUpdate(w, i)
             \/ ReadbackPrevious(w, i) \/ CheckReady(w, i) \/ Recheck(w, i)
             \/ AbortReserved(w, i) \/ Readback(w, i)
             \/ RecordResult(w, i)
  BY <1>3 DEF RecoverReadback, RecoverAccount, ResolveIntent, RerouteSelect, RerouteUpdate,
     ReadbackPrevious, CheckReady,
     Recheck, AbortReserved, Readback, RecordResult, RecordOrPause
<1>4. CASE \E a \in Account : PickAccount(w, a)
  BY <1>4 DEF PickAccount
<1> QED BY <1>1, <1>2, <1>3, <1>4 DEF StepOf, CycleStep

-----------------------------------------------------------------------------
(* The hook of the POST.                                                   *)

LEMMA FreshInit == Init => Freshness
BY DEF Init, Freshness, FreshSoFar, Dispatch

LEMMA SwitchesKeepFresh ==
  ASSUME TypeOK, Freshness, NEW on \in BOOLEAN, SetSwitches(on), NEW w \in Worker
  PROVE  FreshSoFar(w)'
<1>1. FreshSoFar(w) /\ armed' = on /\ UNCHANGED <<evidence, pc, todo, kept, route>>
  BY DEF Freshness, SetSwitches, routing, cycles, plan
<1>2. CASE pc[w] \in Dispatch
  <2>1. fresh'[w].on = (fresh[w].on \/ on) /\ fresh'[w].routed = fresh[w].routed
    BY <1>2 DEF SetSwitches, Dispatch, TypeOK, OutsideOK
  <2> QED BY <1>1, <2>1 DEF FreshSoFar
<1>3. CASE pc[w] \notin Dispatch
  BY <1>1, <1>3 DEF FreshSoFar, Dispatch
<1> QED BY <1>2, <1>3

LEMMA EvidenceKeepsFresh ==
  ASSUME TypeOK, Freshness, NEW j \in Intent, NEW a \in Account \cup {NoAccount},
         EvidenceChanges(j, a), NEW w \in Worker
  PROVE  FreshSoFar(w)'
<1>1. FreshSoFar(w) /\ UNCHANGED <<armed, pc, todo, kept, route>>
  BY DEF Freshness, EvidenceChanges, settings, routing, cycles, plan
<1>2. evidence' = [evidence EXCEPT ![j] = a]
  BY DEF EvidenceChanges
<1>3. CASE pc[w] \in Dispatch
  <2>1. /\ fresh'[w].on = fresh[w].on
        /\ fresh'[w].routed = IF a = route[w][j] THEN fresh[w].routed \cup {j}
                                                 ELSE fresh[w].routed
    BY <1>3 DEF EvidenceChanges, Dispatch, TypeOK, OutsideOK
  <2>2. ASSUME NEW i \in kept[w], evidence'[i] = route[w][i] PROVE i \in fresh'[w].routed
    <3>1. i \in Intent
      BY DEF TypeOK, CyclesOK
    <3> QED BY <1>1, <1>2, <1>3, <2>1, <2>2, <3>1 DEF FreshSoFar, TypeOK, OutsideOK
  <2> QED BY <1>1, <2>1, <2>2 DEF FreshSoFar
<1>4. CASE pc[w] \notin Dispatch
  BY <1>1, <1>4 DEF FreshSoFar, Dispatch
<1> QED BY <1>3, <1>4

LEMMA CycleKeepsFresh ==
  ASSUME TypeOK, Freshness, NEW w \in Worker, StepOf(w) PROVE Freshness'
<1> USE DEF TypeOK, Freshness
<1>1. UNCHANGED evidence /\ (armed' => armed)
  BY EvidenceStays
<1>2. ASSUME NEW v \in Worker, v # w PROVE FreshSoFar(v)'
  BY <1>1, <1>2, Locality DEF FreshSoFar, Untouched, Same, Dispatch
<1>3. FreshSoFar(w)'
  <2>1. CASE pc'[w] \notin Dispatch
    BY <2>1 DEF FreshSoFar, Dispatch
  <2>2. CASE Paced(w)
    <3>1. /\ pc'[w] = "beforePost" /\ kept' = kept /\ route' = route /\ armed' = armed
          /\ fresh'[w].on = armed
          /\ fresh'[w].routed = {i \in kept[w] : evidence[i] = route[w][i]}
      BY <2>2, GoneTo DEF Paced, plan, settings, routing, OutsideOK
    <3> QED BY <1>1, <3>1 DEF FreshSoFar
  <2>3. CASE BeforePost(w)
    <3>1. /\ pc[w] = "beforePost" /\ armed /\ pc'[w] = "evidence" /\ todo'[w] = kept[w]
          /\ kept' = kept /\ route' = route /\ fresh' = fresh
      BY <2>3, GoneTo DEF BeforePost, plan, outside, routing, At, Visit, CyclesOK
    <3> QED BY <1>1, <3>1 DEF FreshSoFar, Dispatch
  <2>4. ASSUME NEW i \in Intent, BeforePostEvidence(w, i) PROVE FreshSoFar(w)'
    <3>1. /\ pc[w] = "evidence" /\ evidence[i] = route[w][i]
          /\ pc'[w] = IF todo[w] = {i} THEN "send" ELSE "evidence"
          /\ todo'[w] = todo[w] \ {i}
          /\ kept' = kept /\ route' = route /\ fresh' = fresh
      BY <2>4, GoneTo DEF BeforePostEvidence, plan, outside, routing, At, Done, Visit, CyclesOK
    <3>2. kept[w] \ todo'[w] \subseteq fresh[w].routed
      BY <3>1 DEF FreshSoFar, Dispatch
    <3> QED BY <1>1, <3>1, <3>2 DEF FreshSoFar, Dispatch
  <2> QED BY <2>1, <2>2, <2>3, <2>4, DispatchSteps
<1> QED BY <1>2, <1>3

LEMMA FreshStep == TypeOK /\ Freshness /\ [Next]_vars => Freshness'
<1> SUFFICES ASSUME TypeOK, Freshness, [Next]_vars PROVE Freshness'
  OBVIOUS
<1>1. ASSUME NEW on \in BOOLEAN, SetSwitches(on) PROVE Freshness'
  BY <1>1, SwitchesKeepFresh DEF Freshness
<1>2. ASSUME NEW i \in Intent, NEW a \in Account \cup {NoAccount}, EvidenceChanges(i, a)
      PROVE  Freshness'
  BY <1>2, EvidenceKeepsFresh DEF Freshness
<1>3. ASSUME NEW w \in Worker, StepOf(w) PROVE Freshness'
  BY <1>3, CycleKeepsFresh
<1>4. ASSUME UNCHANGED <<armed, evidence, pc, todo, kept, route, fresh>> PROVE Freshness'
  BY <1>4 DEF Freshness, FreshSoFar
<1>5. CASE \/ \E i \in Intent : ReopenPostIntentForReplay(i)
           \/ \E a \in Account : AccountChanges(a)
           \/ \E o \in Order : TrackedByHand(o)
           \/ \E i \in Intent, n \in AttemptNo : CotikApplies(i, n) \/ CotikRejects(i, n)
           \/ \E w \in Worker : LoseLockSession(w)
           \/ UNCHANGED vars
  BY <1>4, <1>5 DEF ReopenPostIntentForReplay, AccountChanges, TrackedByHand, CotikApplies,
     CotikRejects, LoseLockSession, vars, outside, settings, routing, cycles, plan
<1>6. CASE \/ \E i \in Intent : StageConfirmedForReplay(i)
           \/ \E s \in Stager : StageCotikTracking(s)
  BY <1>4, <1>6, StagingMoves
  DEF StageConfirmedForReplay, CreateForReplay, settings, routing, cycles, plan
<1> QED BY <1>1, <1>2, <1>3, <1>5, <1>6 DEF Next, World, StepOf

\* Whenever a POST goes out the switches were ON, and the evidence of each of
\* its intents named the account it goes to, at some instant after the pacing
\* wait: the two reads of the beforePost hook are enough, whatever operators
\* and discovery change between them and the POST.
THEOREM SentFreshCorrect == Spec => []SentOnFreshEvidence
<1>1. Init => Freshness
  BY FreshInit
<1>2. TypeOK /\ Freshness /\ [Next]_vars => Freshness'
  BY FreshStep
<1>3. Freshness => SentOnFreshEvidence
  BY DEF Freshness, FreshSoFar, SentOnFreshEvidence, At
<1> QED BY <1>1, <1>2, <1>3, TypeCorrect, PTL DEF Spec

-----------------------------------------------------------------------------
(* The switches of a new deployment.                                       *)

LEMMA RearmedInit == Init => Rearmed
BY DEF Init, Rearmed, BeforeReset

\* The settings change only by the reset of a cycle.
LEMMA SettingsSteps ==
  ASSUME TypeOK, NEW w \in Worker, StepOf(w)
  PROVE  \/ ResetForDeployment(w)
         \/ /\ UNCHANGED <<armed, deployment, armedUnder>>
            /\ \/ pc'[w] \in BeforeReset
               \/ pc'[w] = "gate" /\ VersionOf[w] \in {NoVersion, deployment}
               \/ pc'[w] = "syncOff" /\ pc[w] \notin BeforeReset
               \/ /\ pc'[w] \notin BeforeReset \cup {"gate", "syncOff"}
                  /\ \/ pc[w] \notin BeforeReset \cup {"gate", "syncOff"}
                     \/ pc[w] = "gate" /\ armed
<1> USE GoneTo DEF TypeOK, At, BeforeReset
<1>1. CASE \/ ReadDeployment(w) \/ ReadSettings(w) \/ EndSyncOff(w) \/ ListInProgress(w)
           \/ RecoverMissed(w) \/ StartCycle(w) \/ FinishCycle(w)
           \/ RecoverRecord(w) \/ Crash(w) \/ Hang(w)
  BY <1>1 DEF ReadDeployment, ReadSettings, EndSyncOff, ListInProgress, RecoverMissed,
     StartCycle, FinishCycle, RecoverRecord, Hang, Crash,
     outside, settings, routing
<1>2. CASE \/ ListPending(w) \/ EndResolve(w)
           \/ SettlePrevious(w) \/ Reserve(w) \/ Guard(w) \/ Authorize(w)
           \/ Paced(w)
  BY <1>2 DEF ListPending, EndResolve, SettlePrevious, Reserve, Guard, Authorize, Paced,
     outside, settings, routing
<1>3. CASE \/ BeforePost(w) \/ BeforePostThrows(w) \/ Send(w) \/ PostThrows(w)
           \/ PostAnswered(w) \/ EndReadback(w) \/ EndBatch(w) \/ StatementFails(w)
  BY <1>3 DEF BeforePost, BeforePostThrows, Send, PostThrows, PostAnswered, EndReadback,
     EndBatch, StatementFails, ReadBackAll, outside, settings, routing
<1>4. CASE \E i \in Intent :
             \/ RecoverReadback(w, i) \/ RecoverAccount(w, i) \/ ResolveIntent(w, i)
             \/ RerouteSelect(w, i) \/ RerouteUpdate(w, i)
             \/ ReadbackPrevious(w, i) \/ CheckReady(w, i) \/ Recheck(w, i)
             \/ AbortReserved(w, i) \/ BeforePostEvidence(w, i) \/ Readback(w, i)
             \/ RecordResult(w, i)
  BY <1>4 DEF RecoverReadback, RecoverAccount, ResolveIntent, RerouteSelect, RerouteUpdate,
     ReadbackPrevious, CheckReady,
     Recheck, AbortReserved, BeforePostEvidence, Readback, RecordResult, RecordOrPause,
     outside, settings, routing
<1>5. CASE \E a \in Account : PickAccount(w, a)
  BY <1>5 DEF PickAccount, outside, settings, routing
<1> QED BY <1>1, <1>2, <1>3, <1>4, <1>5 DEF StepOf, CycleStep

LEMMA CycleKeepsRearmed ==
  ASSUME OldIsGone, TypeOK, Rearmed, NEW w \in Worker, StepOf(w) PROVE Rearmed'
<1>1. \A v \in Worker : v # w => pc'[v] = pc[v]
  BY Locality DEF Untouched, Same
<1>2. CASE ResetForDeployment(w)
  <2>1. /\ armed' = FALSE /\ deployment' = VersionOf[w] /\ armedUnder' = armedUnder
        /\ pc'[w] = "gate"
    BY <1>2, GoneTo DEF ResetForDeployment, TypeOK
  <2>2. deployment' # OldVersion
    BY <2>1 DEF OldIsGone
  <2> QED BY <1>1, <2>1, <2>2 DEF Rearmed, BeforeReset, IsNew
<1>3. CASE ~ResetForDeployment(w)
  <2>1. UNCHANGED <<armed, deployment, armedUnder>>
    BY <1>3, SettingsSteps
  <2>2. IsNew(w) /\ pc'[w] \notin BeforeReset => deployment # OldVersion
    BY <1>3, SettingsSteps DEF Rearmed, IsNew, BeforeReset
  <2>3. IsNew(w) /\ pc'[w] \notin BeforeReset \cup {"gate", "syncOff"} => armedUnder # OldVersion
    BY <1>3, SettingsSteps DEF Rearmed, IsNew, BeforeReset
  <2> QED BY <1>1, <2>1, <2>2, <2>3 DEF Rearmed, IsNew
<1> QED BY <1>2, <1>3

LEMMA RearmedStep ==
  OldIsGone /\ TypeOK /\ Rearmed /\ [Next]_vars => Rearmed'
<1> SUFFICES ASSUME OldIsGone, TypeOK, Rearmed, [Next]_vars PROVE Rearmed'
  OBVIOUS
<1>1. ASSUME NEW on \in BOOLEAN, SetSwitches(on) PROVE Rearmed'
  <2>1. /\ armed' = on /\ UNCHANGED <<pc, deployment>>
        /\ armedUnder' = IF on THEN deployment ELSE armedUnder
    BY <1>1 DEF SetSwitches, cycles
  <2> QED BY <2>1 DEF Rearmed, IsNew
<1>2. ASSUME NEW w \in Worker, StepOf(w) PROVE Rearmed'
  BY <1>2, CycleKeepsRearmed
<1>3. ASSUME UNCHANGED <<armed, deployment, armedUnder, pc>> PROVE Rearmed'
  BY <1>3 DEF Rearmed, IsNew
<1>4. CASE \/ \E i \in Intent : ReopenPostIntentForReplay(i)
           \/ \E i \in Intent, a \in Account \cup {NoAccount} : EvidenceChanges(i, a)
           \/ \E a \in Account : AccountChanges(a)
           \/ \E o \in Order : TrackedByHand(o)
           \/ \E i \in Intent, n \in AttemptNo : CotikApplies(i, n) \/ CotikRejects(i, n)
           \/ \E w \in Worker : LoseLockSession(w)
           \/ UNCHANGED vars
  BY <1>3, <1>4 DEF ReopenPostIntentForReplay, EvidenceChanges, AccountChanges,
     TrackedByHand, CotikApplies, CotikRejects, LoseLockSession, vars, outside, settings,
     cycles
<1>5. CASE \/ \E i \in Intent : StageConfirmedForReplay(i)
           \/ \E s \in Stager : StageCotikTracking(s)
  BY <1>3, <1>5, StagingMoves DEF StageConfirmedForReplay, CreateForReplay, settings, cycles
<1> QED BY <1>1, <1>2, <1>4, <1>5 DEF Next, World, StepOf

\* Once no process of the old deployment is left, a process of a new one posts
\* nothing on switches that were last set ON before it, although the reset reads
\* and writes in two statements and CLI runs never reset. A process of the old
\* deployment that is still running could set its own id again, and be armed.
THEOREM RearmedCorrect ==
  ASSUME OldIsGone PROVE Spec => []RearmedForDeployment
<1>1. Init => Rearmed
  BY RearmedInit
<1>2. TypeOK /\ Rearmed /\ [Next]_vars => Rearmed'
  BY OldIsGone, RearmedStep
<1>3. Rearmed => RearmedForDeployment
  BY DEF Rearmed, RearmedForDeployment, IsNew, BeforeReset, At
<1> QED BY <1>1, <1>2, <1>3, TypeCorrect, PTL DEF Spec

-----------------------------------------------------------------------------
(* One attempt of an intent at a time.                                     *)

\* The cycles take up no attempt, ...
OwnersShrink ==
  \A v \in Worker, i \in Intent :
    Owns(v, i)' => Owns(v, i) /\ seen'[v][i] = seen[v][i]

\* ... and a row becomes open again only if it was, or was CONFIRMED, or by the
\* owner of its last attempt, that lets it go when it cannot take effect.
LetsGo(w, i) ==
  /\ Owns(w, i) /\ ~Owns(w, i)'
  /\ seen[w][i] = attempts[i]
  /\ verdict[i][attempts[i]] # "queued"

Reopens ==
  \A i \in Intent :
    /\ status'[i] = "ABSENT" => status[i] = "ABSENT"
    /\ status'[i] \in {"PENDING", "ABORTED"} =>
         \/ status[i] \in {"ABSENT", "PENDING", "ABORTED", "CONFIRMED"}
         \/ \E w \in Worker : LetsGo(w, i)

NoneQueued ==
  \A i \in Intent, n \in AttemptNo : verdict'[i][n] = "queued" => verdict[i][n] = "queued"

InFlight == InOneCycle /\ OwnedOpen /\ ReservableSettled

LEMMA SettledStays ==
  ASSUME HeldGrows, NoneQueued, NEW i \in Intent, NEW n, Settled(i, n)
  PROVE  Settled(i, n)'
BY HeldStays DEF Settled, NoneQueued

LEMMA HeldIsSettled ==
  ASSUME NEW i \in Intent, NEW n, WasHeld(i) PROVE Settled(i, n)
BY DEF Settled

LEMMA OwnedAttempt ==
  ASSUME TypeOK, OwnedOpen, NEW w \in Worker, NEW i \in Intent, Owns(w, i)
  PROVE  seen[w][i] \in AttemptNo /\ seen[w][i] <= attempts[i] /\ attempts[i] \in AttemptNo
BY TrackingConstants DEF OwnedOpen, TypeOK, RowsOK, AttemptNo

LEMMA InFlightKept ==
  ASSUME TypeOK, Ledger, HeldInv, HeldInv', InFlight, UNCHANGED attempts,
         HeldGrows, NoneQueued, OwnersShrink, Reopens, RowsOK'
  PROVE  InFlight'
<1> USE DEF InFlight
<1>1. InOneCycle'
  BY DEF InOneCycle, OwnersShrink
<1>2. OwnedOpen'
  <2> SUFFICES ASSUME NEW w \in Worker, NEW i \in Intent, Owns(w, i)'
               PROVE  /\ seen'[w][i] \in 1..attempts'[i]
                      /\ \/ /\ seen'[w][i] = attempts'[i]
                            /\ status'[i] \in {"IN_PROGRESS", "FAILED"}
                         \/ WasHeld(i)'
                      /\ Settled(i, seen[w][i])'
    BY DEF OwnedOpen, OwnersShrink, Settled, WasHeld
  <2>1. Owns(w, i) /\ seen'[w][i] = seen[w][i]
    BY DEF OwnersShrink
  <2>2. /\ seen[w][i] \in 1..attempts[i]
        /\ Settled(i, seen[w][i])
        /\ \/ seen[w][i] = attempts[i] /\ status[i] \in {"IN_PROGRESS", "FAILED"}
           \/ WasHeld(i)
    BY <2>1 DEF OwnedOpen
  <2>3. CASE WasHeld(i)
    BY <2>1, <2>2, <2>3, HeldStays, SettledStays
  <2>4. CASE seen[w][i] = attempts[i] /\ status[i] \in {"IN_PROGRESS", "FAILED"}
    <3>1. status'[i] \notin {"PENDING", "ABORTED", "ABSENT"}
      <4>1. ASSUME NEW v \in Worker, LetsGo(v, i) PROVE FALSE
        <5>1. Owns(v, i) /\ ~Owns(v, i)' /\ seen[v][i] = seen[w][i]
          BY <2>4, <4>1 DEF LetsGo
        <5> QED BY <2>1, <5>1 DEF InOneCycle
      <4> QED BY <2>4, <4>1 DEF Reopens
    <3>2. status'[i] = "CONFIRMED" => WasHeld(i)'
      BY DEF HeldInv, ConfirmedWasHeld, WasHeld
    <3>3. status'[i] \in {"CONFIRMED", "IN_PROGRESS", "FAILED"} \/ WasHeld(i)'
      BY <3>1 DEF RowsOK, Status
    <3> QED BY <2>1, <2>2, <2>4, <3>2, <3>3, SettledStays
  <2> QED BY <2>2, <2>3, <2>4
<1>3. ReservableSettled'
  <2> SUFFICES ASSUME NEW i \in Intent, status'[i] \in {"PENDING", "ABORTED"}
               PROVE  Settled(i, attempts[i] + 1)'
    BY DEF ReservableSettled, Settled, WasHeld
  <2> SUFFICES Settled(i, attempts[i] + 1)
    BY SettledStays DEF Settled, WasHeld
  <2>1. CASE status[i] \in {"PENDING", "ABORTED"}
    BY <2>1 DEF ReservableSettled
  <2>2. CASE status[i] = "ABSENT"
    BY <2>2, TrackingConstants DEF Ledger, Explained, Settled, AttemptNo
  <2>3. CASE status[i] = "CONFIRMED"
    BY <2>3 DEF HeldInv, ConfirmedWasHeld, WasHeld, Settled
  <2>4. ASSUME NEW w \in Worker, LetsGo(w, i) PROVE Settled(i, attempts[i] + 1)
    <3>1. Settled(i, attempts[i]) /\ verdict[i][attempts[i]] # "queued"
      BY <2>4 DEF LetsGo, OwnedOpen
    <3>2. \A m \in AttemptNo : m < attempts[i] + 1 => m < attempts[i] \/ m = attempts[i]
      BY TrackingConstants DEF AttemptNo, TypeOK, RowsOK
    <3> QED BY <3>1, <3>2 DEF Settled
  <2> QED BY <2>1, <2>2, <2>3, <2>4 DEF Reopens
<1> QED BY <1>1, <1>2, <1>3

LEMMA VerdictSteps ==
  ASSUME NEW w \in Worker, StepOf(w), ~Send(w) PROVE UNCHANGED verdict
<1>1. CASE \/ ReadDeployment(w) \/ ResetForDeployment(w) \/ ReadSettings(w)
           \/ EndSyncOff(w) \/ ListInProgress(w) \/ RecoverMissed(w)
           \/ RecoverRecord(w) \/ ListPending(w) \/ EndResolve(w) \/ FinishCycle(w)
           \/ SettlePrevious(w) \/ Reserve(w) \/ Guard(w) \/ Authorize(w) \/ Paced(w)
  BY <1>1 DEF ReadDeployment, ResetForDeployment, ReadSettings, EndSyncOff, ListInProgress,
     RecoverMissed, RecoverRecord,
     ListPending, EndResolve, FinishCycle, SettlePrevious, Reserve, Guard, Authorize,
     Paced, outside, routing, cotik
<1>2. CASE \/ BeforePost(w) \/ BeforePostThrows(w) \/ PostThrows(w)
           \/ PostAnswered(w) \/ EndReadback(w) \/ EndBatch(w)
           \/ StartCycle(w) \/ Hang(w) \/ Crash(w) \/ StatementFails(w)
  BY <1>2 DEF BeforePost, BeforePostThrows, PostThrows, PostAnswered, EndReadback,
     EndBatch, StartCycle, Hang, Crash, StatementFails, ReadBackAll, outside, routing, cotik
<1>3. CASE \E i \in Intent :
             \/ RecoverReadback(w, i) \/ RecoverAccount(w, i) \/ ResolveIntent(w, i)
             \/ RerouteSelect(w, i) \/ RerouteUpdate(w, i)
             \/ ReadbackPrevious(w, i) \/ CheckReady(w, i) \/ Recheck(w, i)
             \/ AbortReserved(w, i) \/ BeforePostEvidence(w, i) \/ Readback(w, i)
             \/ RecordResult(w, i)
  BY <1>3 DEF RecoverReadback, RecoverAccount, ResolveIntent, RerouteSelect, RerouteUpdate,
     ReadbackPrevious, CheckReady,
     Recheck, AbortReserved, BeforePostEvidence, Readback, RecordResult, outside, routing, cotik
<1>4. CASE \E a \in Account : PickAccount(w, a)
  BY <1>4 DEF PickAccount, outside, routing, cotik
<1> QED BY <1>1, <1>2, <1>3, <1>4 DEF StepOf, CycleStep

Throws(w) == ReadBackAll(w) /\ pc[w] \in {"beforePost", "evidence", "await"}

\* A POST that is over, or refused, is read back and recorded step by step.
LEMMA PastSteps ==
  ASSUME TypeOK, NEW w \in Worker, StepOf(w), pc'[w] \in {"await", "readback", "record"}
  PROVE  \/ Send(w) \/ Throws(w) \/ PostAnswered(w) \/ Authorize(w) \/ EndReadback(w)
         \/ \E i \in Intent : Readback(w, i) \/ RecordResult(w, i)
<1> USE GoneTo DEF TypeOK, At
<1>1. CASE \/ ReadDeployment(w) \/ ResetForDeployment(w) \/ ReadSettings(w)
           \/ EndSyncOff(w) \/ ListInProgress(w) \/ RecoverMissed(w)
           \/ RecoverRecord(w) \/ ListPending(w) \/ EndResolve(w) \/ FinishCycle(w)
           \/ SettlePrevious(w) \/ Reserve(w) \/ Guard(w) \/ Paced(w)
  BY <1>1 DEF ReadDeployment, ResetForDeployment, ReadSettings, EndSyncOff, ListInProgress,
     RecoverMissed, RecoverRecord,
     ListPending, EndResolve, FinishCycle, SettlePrevious, Reserve, Guard, Paced
<1>2. CASE \/ BeforePost(w) \/ BeforePostThrows(w) \/ PostThrows(w) \/ EndBatch(w)
           \/ StartCycle(w) \/ Hang(w) \/ Crash(w) \/ StatementFails(w)
  BY <1>2 DEF BeforePost, BeforePostThrows, PostThrows, EndBatch, StartCycle, Hang, Crash,
     StatementFails, Throws
<1>3. CASE \E i \in Intent :
             \/ RecoverReadback(w, i) \/ RecoverAccount(w, i) \/ ResolveIntent(w, i)
             \/ RerouteSelect(w, i) \/ RerouteUpdate(w, i)
             \/ ReadbackPrevious(w, i) \/ CheckReady(w, i) \/ Recheck(w, i)
             \/ AbortReserved(w, i) \/ BeforePostEvidence(w, i)
  BY <1>3 DEF RecoverReadback, RecoverAccount, ResolveIntent, RerouteSelect, RerouteUpdate,
     ReadbackPrevious, CheckReady,
     Recheck, AbortReserved, BeforePostEvidence, RecordOrPause
<1>4. CASE \E a \in Account : PickAccount(w, a)
  BY <1>4 DEF PickAccount
<1> QED BY <1>1, <1>2, <1>3, <1>4 DEF StepOf, CycleStep

\* What those steps do to the batch of w.
LEMMA PastMoves ==
  ASSUME TypeOK, NEW w \in Worker, StepOf(w), pc'[w] \in {"await", "readback", "record"}
  PROVE  /\ kept'[w] = kept[w] /\ seen' = seen
         /\ pc'[w] = "await" => pc[w] = "send"
         /\ pc'[w] = "readback" =>
              \/ /\ pc[w] \in {"beforePost", "evidence", "await"}
                 /\ todo'[w] = kept[w]
              \/ /\ pc[w] = "await"
                 /\ \A i \in kept[w] : verdict[i][seen[w][i]] \in Answered
                 /\ verdict' = verdict
              \/ /\ pc[w] = "readback" /\ fail'[w] = fail[w]
                 /\ \E i \in Intent : /\ todo'[w] = todo[w] \ {i}
                                      /\ conf[w] \cup unconf[w] \cup {OrderOf[i]}
                                           \subseteq conf'[w] \cup unconf'[w]
         /\ pc'[w] = "record" =>
              /\ conf'[w] = conf[w] /\ unconf'[w] = unconf[w] /\ fail'[w] = fail[w]
              /\ \/ pc[w] = "authorize" /\ todo'[w] = kept[w]
                 \/ pc[w] = "readback" /\ todo[w] = {} /\ todo'[w] = kept[w]
                 \/ pc[w] = "record" /\ todo'[w] \subseteq todo[w]
<1> USE GoneTo DEF TypeOK, At, plan, results
<1>1. CASE Send(w)
  BY <1>1 DEF Send
<1>2. CASE Throws(w)
  BY <1>2 DEF Throws, ReadBackAll, Visit, CyclesOK
<1>3. CASE PostAnswered(w)
  BY <1>3 DEF PostAnswered, outside, routing, cotik
<1>4. CASE Authorize(w)
  BY <1>4 DEF Authorize, Visit, CyclesOK
<1>5. CASE EndReadback(w)
  BY <1>5 DEF EndReadback, Visit, CyclesOK
<1>6. ASSUME NEW i \in Intent, Readback(w, i)
      PROVE  /\ kept'[w] = kept[w] /\ seen' = seen /\ pc[w] = "readback"
             /\ pc'[w] = "readback" /\ fail'[w] = fail[w]
             /\ todo'[w] = todo[w] \ {i}
             /\ conf[w] \cup unconf[w] \cup {OrderOf[i]} \subseteq conf'[w] \cup unconf'[w]
  <2>1. todo'[w] = todo[w] \ {i}
    BY <1>6 DEF Readback, Done, Visit, CyclesOK
  <2>2. conf[w] \cup unconf[w] \cup {OrderOf[i]} \subseteq conf'[w] \cup unconf'[w]
    BY <1>6 DEF Readback, CyclesOK
  <2> QED BY <1>6, <2>1, <2>2 DEF Readback
<1>7. ASSUME NEW i \in Intent, RecordResult(w, i)
      PROVE  /\ kept'[w] = kept[w] /\ seen' = seen /\ pc[w] = "record"
             /\ pc'[w] = "record"
             /\ conf'[w] = conf[w] /\ unconf'[w] = unconf[w] /\ fail'[w] = fail[w]
             /\ todo'[w] \subseteq todo[w]
  BY <1>7, OwnUpdates DEF RecordResult, RecordOrPause, Done, Visit, CyclesOK
<1> QED BY <1>1, <1>2, <1>3, <1>4, <1>5, <1>6, <1>7, PastSteps

LEMMA UntouchedOwns ==
  ASSUME NEW v, NEW i, Untouched(v)
  PROVE  (Owns(v, i)' <=> Owns(v, i)) /\ seen'[v][i] = seen[v][i]
BY SameHolds DEF Untouched, Same, Owns

LEMMA StepsLesser ==
  ASSUME TypeOK, NeverSent, NEW w \in Worker, StepOf(w), ~Reserve(w), ~Send(w)
  PROVE  Lesser
BY PrepareLesser, ResultsLesser, DispatchLesser, AbortLesser DEF StepOf, CycleStep, NeverSent

LEMMA OwnersShrinkSteps ==
  ASSUME TypeOK, NeverSent, NEW w \in Worker, StepOf(w), ~Reserve(w)
  PROVE  OwnersShrink
<1> SUFFICES ASSUME NEW v \in Worker, NEW i \in Intent, Owns(v, i)'
             PROVE  Owns(v, i) /\ seen'[v][i] = seen[v][i]
  BY DEF OwnersShrink
<1>1. CASE v # w
  BY <1>1, Locality, UntouchedOwns
<1>2. CASE v = w /\ Holds(w, i)'
  <2>1. ~Send(w)
    BY <1>2, GoneTo, EmptyHand DEF Send, HandPc, TypeOK
  <2> QED BY <1>2, <2>1, StepsLesser DEF Lesser, HandsShrink, Owns
<1>3. CASE v = w /\ ~Holds(w, i)'
  <2>1. pc'[w] \in {"await", "readback", "record"}
    BY <1>3 DEF Owns
  <2>2. pc'[w] = "record" => i \in todo'[w]
    BY <1>3 DEF Owns
  <2>3. pc'[w] \in {"await", "readback"} => i \in kept'[w]
    BY <1>3 DEF Owns
  <2>4. seen' = seen /\ kept'[w] = kept[w]
    BY <2>1, PastMoves
  <2>5. CASE pc'[w] = "await"
    BY <1>3, <2>1, <2>3, <2>4, <2>5, PastMoves DEF Owns, Holds
  <2>6. CASE pc'[w] = "readback"
    <3>1. pc[w] \in {"beforePost", "evidence", "await", "readback"}
      BY <2>1, <2>6, PastMoves
    <3> QED BY <1>3, <2>3, <2>4, <2>6, <3>1 DEF Owns, Holds
  <2>7. CASE pc'[w] = "record"
    <3>1. \/ pc[w] \in {"authorize", "readback"} /\ todo'[w] = kept[w]
          \/ pc[w] = "record" /\ todo'[w] \subseteq todo[w]
      BY <2>1, <2>7, PastMoves
    <3> QED BY <1>3, <2>2, <2>4, <2>7, <3>1 DEF Owns, Holds
  <2> QED BY <2>1, <2>5, <2>6, <2>7
<1> QED BY <1>1, <1>2, <1>3

-----------------------------------------------------------------------------
(* Which rows a step opens again.                                          *)

LEMMA RowsStandReopen ==
  ASSUME UNCHANGED intentRows PROVE Reopens
BY DEF Reopens, intentRows

LEMMA CreateReopens ==
  ASSUME RowsOK, NEW i \in Intent, NEW a, Creates(i, a) PROVE Reopens
BY DEF Creates, RowsOK, Reopens

LEMMA RecordClosing ==
  ASSUME RowsOK, NEW i, NEW n, NEW out, NEW how \in {"confirmed", "keep"},
         RecordPostAttempt(i, n, out, how)
  PROVE  Reopens
<1>1. StatusAfter(n, how) \in {"CONFIRMED", "FAILED", "IN_PROGRESS"}
  BY DEF StatusAfter
<1> QED BY <1>1 DEF RecordPostAttempt, Reopens, RowsOK

LEMMA RecordLetsGo ==
  ASSUME RowsOK, NEW i, NEW out, NEW how, NEW w \in Worker,
         RecordPostAttempt(i, seen[w][i], out, how), LetsGo(w, i)
  PROVE  Reopens
<1>1. StatusAfter(seen[w][i], how) # "ABSENT"
  BY DEF StatusAfter
<1> QED BY <1>1 DEF RecordPostAttempt, Reopens, RowsOK

LEMMA WorldReopens ==
  ASSUME TypeOK, Ledger, World PROVE Reopens
<1>1. ASSUME NEW i \in Intent, StageConfirmedForReplay(i) PROVE Reopens
  BY <1>1, ReplayMoves, CreateReopens DEF TypeOK
<1>4. ASSUME NEW s \in Stager, StageCotikTracking(s) PROVE Reopens
  BY <1>4, StagingMoves, CreateReopens, RowsStandReopen DEF TypeOK
<1>2. ASSUME NEW i \in Intent, ReopenPostIntentForReplay(i) PROVE Reopens
  <2>1. status[i] \in {"CONFIRMED", "ABORTED"}
    BY <1>2, TrackingConstants DEF ReopenPostIntentForReplay, Ledger, Explained
  <2> QED BY <1>2, <2>1 DEF ReopenPostIntentForReplay, Reopens, TypeOK, RowsOK
<1>3. CASE /\ ~\E i \in Intent : \/ StageConfirmedForReplay(i)
                                 \/ ReopenPostIntentForReplay(i)
           /\ ~\E s \in Stager : StageCotikTracking(s)
  BY <1>3, RowsStandReopen DEF World, SetSwitches, AccountChanges, EvidenceChanges,
     TrackedByHand, CotikApplies, CotikRejects
<1> QED BY <1>1, <1>2, <1>3, <1>4

\* An abort before the POST.
LEMMA AbortLetsGo ==
  ASSUME TypeOK, NeverSent, NEW w \in Worker, NEW i \in Intent,
         At(w, "recheck") \/ At(w, "abort"), i \in todo[w],
         RecordPostAttempt(i, seen[w][i], "UNCONFIRMED", "abort"),
         Done(w, i), UNCHANGED <<pc, kept>>
  PROVE  Reopens
<1>1. Holds(w, i)
  BY DEF Holds
<1>2. seen[w][i] = attempts[i] /\ verdict[i][seen[w][i]] = "unsent"
  BY <1>1 DEF RecordPostAttempt, Recordable, NeverSent, InHandUnsent
<1>3. i \notin todo'[w] /\ (At(w, "recheck") => i \notin kept[w])
  BY DEF Done, Visit, TypeOK, CyclesOK, NeverSent, Apart
<1>4. ~Owns(w, i)'
  BY <1>3 DEF Owns, Holds, At
<1>5. LetsGo(w, i)
  BY <1>1, <1>2, <1>4 DEF LetsGo, Owns
<1> QED BY <1>5, RecordLetsGo DEF TypeOK

\* A rejected attempt, recorded for a retry.
LEMMA RetryLetsGo ==
  ASSUME TypeOK, FailureAnswered, Recording, NEW w \in Worker, NEW i \in Intent,
         At(w, "record"), i \in todo[w], ~Confirmed(w, i), ~Uncertain(w, i), NEW out,
         RecordPostAttempt(i, seen[w][i], out, "retry"),
         Done(w, i), UNCHANGED pc
  PROVE  Reopens
<1>1. i \in kept[w] /\ Owns(w, i)
  BY DEF Recording, Owns, At
<1>2. OrderOf[i] \in fail[w] /\ OrderOf[i] \notin conf[w] \cup unconf[w]
  BY DEF Confirmed, Uncertain, Failed
<1>3. verdict[i][seen[w][i]] \in Answered /\ seen[w][i] = attempts[i]
  BY <1>1, <1>2 DEF FailureAnswered, At, RecordPostAttempt, Recordable
<1>4. i \notin todo'[w] /\ pc'[w] = "record"
  BY DEF Done, Visit, TypeOK, CyclesOK, At
<1>5. ~Owns(w, i)'
  BY <1>4 DEF Owns, Holds, At
<1>6. LetsGo(w, i)
  BY <1>1, <1>3, <1>5 DEF LetsGo, Answered
<1> QED BY <1>6, RecordLetsGo DEF TypeOK

LEMMA StepsReopen ==
  ASSUME TypeOK, NeverSent, FailureAnswered, Recording, NEW w \in Worker, StepOf(w),
         ~Reserve(w)
  PROVE  Reopens
<1> USE RowsStandReopen
<1>1. CASE RecoverRecord(w)
  BY <1>1, RecordClosing DEF RecoverRecord, TypeOK
<1>2. CASE SettlePrevious(w)
  BY <1>2, RecordClosing DEF SettlePrevious, TypeOK
<1>3. ASSUME NEW i \in Intent, RecordResult(w, i) PROVE Reopens
  <2>1. CASE UNCHANGED intentRows
    BY <2>1
  <2>2. ASSUME NEW out, NEW how \in {"confirmed", "keep"},
               RecordPostAttempt(i, seen[w][i], out, how)
        PROVE  Reopens
    BY <2>2, RecordClosing DEF TypeOK
  <2>3. ASSUME NEW out, ~Confirmed(w, i), ~Uncertain(w, i), RecordOrPause(w, i, out, "retry"),
               ~UNCHANGED intentRows
        PROVE  Reopens
    BY <1>3, <2>3, RetryLetsGo DEF RecordResult, RecordOrPause
  <2> QED BY <1>3, <2>1, <2>2, <2>3 DEF RecordResult, RecordOrPause
<1>4. ASSUME NEW i \in Intent, Recheck(w, i) \/ AbortReserved(w, i) PROVE Reopens
  BY <1>4, AbortLetsGo DEF Recheck, AbortReserved, RecordOrPause
<1>5. ASSUME NEW i \in Intent,
             ResolveIntent(w, i) \/ RerouteSelect(w, i) \/ RerouteUpdate(w, i)
      PROVE  Reopens
  BY <1>5, StatementsCreate, CreateReopens DEF ResolveIntent, RerouteSelect, RerouteUpdate,
     TypeOK
<1>6. CASE /\ ~RecoverRecord(w) /\ ~SettlePrevious(w)
           /\ ~\E i \in Intent : \/ RecordResult(w, i) \/ Recheck(w, i)
                                 \/ AbortReserved(w, i) \/ ResolveIntent(w, i)
                                 \/ RerouteSelect(w, i) \/ RerouteUpdate(w, i)
  <2>1. UNCHANGED intentRows
    BY <1>6 DEF StepOf, CycleStep, StartCycle, Hang, Crash, StatementFails, ReadDeployment,
       ResetForDeployment, ReadSettings, EndSyncOff, ListInProgress, RecoverMissed,
       ListPending, EndResolve, FinishCycle, Guard,
       Authorize, Paced, BeforePost, BeforePostThrows, Send, PostThrows, PostAnswered,
       EndReadback, EndBatch, ReadBackAll, RecoverReadback, RecoverAccount,
       ReadbackPrevious, CheckReady, BeforePostEvidence, Readback, PickAccount
  <2> QED BY <2>1
<1> QED BY <1>1, <1>2, <1>3, <1>4, <1>5, <1>6

-----------------------------------------------------------------------------
(* The reservation and the POST.                                           *)

LEMMA SendKeepsInFlight ==
  ASSUME TypeOK, NeverSent, InFlight, NEW w \in Worker, Send(w) PROVE InFlight'
<1> USE DEF InFlight
<1>1. UNCHANGED <<status, attempts, held>>
  BY DEF Send, intentRows
<1>2. OwnersShrink
  <2>1. StepOf(w) /\ ~Reserve(w)
    BY DEF StepOf, CycleStep, Send, Reserve, At
  <2> QED BY <2>1, OwnersShrinkSteps
<1>3. ASSUME NEW i \in Intent, NEW n \in AttemptNo, verdict'[i][n] # verdict[i][n]
      PROVE  Owns(w, i) /\ n = seen[w][i]
  BY <1>3 DEF Send, Owns, Holds, At, TypeOK, OutsideOK
<1>4. ASSUME NEW i \in Intent, NEW n, Settled(i, n),
             \A m \in AttemptNo : m < n => ~(Owns(w, i) /\ m = seen[w][i])
      PROVE  Settled(i, n)'
  BY <1>1, <1>3, <1>4 DEF Settled, WasHeld
<1>5. \A i \in Intent : WasHeld(i)' <=> WasHeld(i)
  BY <1>1 DEF WasHeld
<1>6. InOneCycle'
  BY <1>2 DEF InOneCycle, OwnersShrink
<1>7. OwnedOpen'
  <2> SUFFICES ASSUME NEW v \in Worker, NEW i \in Intent, Owns(v, i), seen'[v][i] = seen[v][i]
               PROVE  /\ seen[v][i] \in 1..attempts[i]
                      /\ \/ /\ seen[v][i] = attempts[i]
                            /\ status[i] \in {"IN_PROGRESS", "FAILED"}
                         \/ WasHeld(i)
                      /\ Settled(i, seen[v][i])'
    BY <1>1, <1>2, <1>5 DEF OwnedOpen, OwnersShrink, Settled, WasHeld
  <2>1. /\ seen[v][i] \in 1..attempts[i]
        /\ Settled(i, seen[v][i])
        /\ \/ seen[v][i] = attempts[i] /\ status[i] \in {"IN_PROGRESS", "FAILED"}
           \/ WasHeld(i)
    BY DEF OwnedOpen
  <2>2. CASE WasHeld(i)
    BY <1>5, <2>1, <2>2 DEF Settled, WasHeld
  <2>3. CASE ~WasHeld(i)
    <3>1. seen[v][i] = attempts[i] /\ (Owns(w, i) => seen[w][i] = attempts[i])
      BY <2>1, <2>3 DEF OwnedOpen
    <3>2. \A m \in AttemptNo : m < seen[v][i] => ~(Owns(w, i) /\ m = seen[w][i])
      BY <2>1, <3>1 DEF AttemptNo
    <3> QED BY <1>4, <2>1, <3>2
  <2> QED BY <2>2, <2>3
<1>8. ReservableSettled'
  <2> SUFFICES ASSUME NEW i \in Intent, status[i] \in {"PENDING", "ABORTED"}
               PROVE  Settled(i, attempts[i] + 1)'
    BY <1>1 DEF ReservableSettled, Settled, WasHeld
  <2>1. Settled(i, attempts[i] + 1)
    BY DEF ReservableSettled
  <2>2. CASE WasHeld(i)
    BY <1>5, <2>2 DEF Settled, WasHeld
  <2>3. CASE ~WasHeld(i)
    <3>1. ~Owns(w, i)
      BY <2>3 DEF OwnedOpen
    <3>2. \A m \in AttemptNo : verdict'[i][m] = verdict[i][m]
      BY <1>3, <3>1
    <3> QED BY <1>1, <2>1, <3>2 DEF Settled, WasHeld
  <2> QED BY <2>2, <2>3
<1> QED BY <1>6, <1>7, <1>8

LEMMA ReserveKeepsInFlight ==
  ASSUME TypeOK, InFlight, NEW w \in Worker, Reserve(w) PROVE InFlight'
<1> USE DEF InFlight
<1>1. UNCHANGED <<verdict, held>>
  BY DEF Reserve, outside, routing, cotik
<1>2. \A v \in Worker : v # w => Untouched(v)
  BY Locality DEF StepOf, CycleStep
<1>3. PICK S \in SUBSET Intent :
        /\ \A i \in S : Postable(i)
        /\ \A i \in Intent : Owns(w, i)' => i \in S /\ seen'[w][i] = attempts[i] + 1
        /\ \A i \in Intent : /\ attempts'[i] = IF i \in S THEN attempts[i] + 1 ELSE attempts[i]
                             /\ status'[i] = IF i \in S THEN "IN_PROGRESS" ELSE status[i]
  <2>1. CASE NextAccount(w) /\ UNCHANGED intentRows
    <3>1. \A i : ~Owns(w, i)'
      BY <2>1, GoneTo DEF Owns, Holds, At, TypeOK
    <3>2. UNCHANGED <<attempts, status>>
      BY <2>1 DEF intentRows
    <3> WITNESS {} \in SUBSET Intent
    <3> QED BY <3>1, <3>2
  <2>2. CASE ~(NextAccount(w) /\ UNCHANGED intentRows)
    <3> DEFINE S == {i \in kept[w] : Postable(i)}
    <3>1. /\ ReservePostIntents(S)
          /\ Goto(w, "recheck") /\ Visit(w, S) /\ Keep(w, {})
          /\ seen' = [seen EXCEPT
               ![w] = [i \in Intent |-> IF i \in S THEN attempts[i] + 1 ELSE @[i]]]
      BY <2>2 DEF Reserve
    <3>2. S \in SUBSET Intent /\ \A i \in S : Postable(i)
      BY DEF TypeOK, CyclesOK
    <3> HIDE DEF S
    <3>3. /\ pc'[w] = "recheck" /\ todo'[w] = S /\ kept'[w] = {}
          /\ \A i \in S : seen'[w][i] = attempts[i] + 1
      BY <3>1, <3>2 DEF Goto, Visit, Keep, TypeOK, CyclesOK
    <3>4. \A i \in Intent : Owns(w, i)' => i \in S
      BY <3>3 DEF Owns, Holds, At
    <3>5. \A i \in Intent :
            /\ attempts'[i] = IF i \in S THEN attempts[i] + 1 ELSE attempts[i]
            /\ status'[i] = IF i \in S THEN "IN_PROGRESS" ELSE status[i]
      BY <3>1 DEF ReservePostIntents
    <3> QED BY <3>2, <3>3, <3>4, <3>5
  <2> QED BY <2>1, <2>2
<1>4. ASSUME NEW v \in Worker, NEW i \in Intent, v # w, Owns(v, i)'
      PROVE  Owns(v, i) /\ seen'[v][i] = seen[v][i]
  BY <1>2, <1>4, UntouchedOwns
<1>5. \A i \in Intent : attempts[i] \in 0..MaxAttempts
  BY DEF TypeOK, RowsOK
<1>6. \A i \in Intent : WasHeld(i)' <=> WasHeld(i)
  BY <1>1 DEF WasHeld
<1>7. InOneCycle'
  <2> SUFFICES ASSUME NEW u \in Worker, NEW v \in Worker, NEW i \in Intent, u # v,
                      Owns(u, i)', Owns(v, i)'
               PROVE  seen'[u][i] # seen'[v][i]
    BY DEF InOneCycle
  <2>1. ASSUME NEW x \in Worker, x # w, Owns(x, i)'
        PROVE  seen'[x][i] \in 1..attempts[i]
    BY <1>4, <2>1 DEF OwnedOpen
  <2>2. CASE u = w \/ v = w
    BY <1>3, <1>5, <2>1, <2>2
  <2>3. CASE u # w /\ v # w
    BY <1>4, <2>3 DEF InOneCycle
  <2> QED BY <2>2, <2>3
<1>8. OwnedOpen'
  <2> SUFFICES ASSUME NEW v \in Worker, NEW i \in Intent, Owns(v, i)'
               PROVE  /\ seen'[v][i] \in 1..attempts'[i]
                      /\ \/ /\ seen'[v][i] = attempts'[i]
                            /\ status'[i] \in {"IN_PROGRESS", "FAILED"}
                         \/ WasHeld(i)
                      /\ Settled(i, seen'[v][i])
    BY <1>1, <1>6 DEF OwnedOpen, Settled, WasHeld
  <2>1. CASE v = w
    BY <1>3, <1>5, <2>1 DEF ReservableSettled, Postable
  <2>2. CASE v # w
    <3>1. /\ seen'[v][i] \in 1..attempts[i]
          /\ Settled(i, seen'[v][i])
          /\ \/ seen'[v][i] = attempts[i] /\ status[i] \in {"IN_PROGRESS", "FAILED"}
             \/ WasHeld(i)
      BY <1>4, <2>2 DEF OwnedOpen
    <3>2. i \in S => WasHeld(i)
      BY <1>3, <3>1 DEF Postable
    <3>3. seen'[v][i] \in 1..attempts'[i]
      BY <1>3, <1>5, <3>1
    <3> QED BY <1>3, <3>1, <3>2, <3>3
  <2> QED BY <2>1, <2>2
<1>9. ReservableSettled'
  <2> SUFFICES ASSUME NEW i \in Intent, status'[i] \in {"PENDING", "ABORTED"}
               PROVE  Settled(i, attempts'[i] + 1)
    BY <1>1, <1>6 DEF ReservableSettled, Settled, WasHeld
  <2>1. i \notin S /\ attempts'[i] = attempts[i] /\ status'[i] = status[i]
    BY <1>3
  <2> QED BY <2>1 DEF ReservableSettled
<1> QED BY <1>7, <1>8, <1>9

-----------------------------------------------------------------------------
(* The results of a batch.                                                 *)

AnswersStay ==
  \A i \in Intent, n \in AttemptNo :
    verdict[i][n] \in Answered => verdict'[i][n] \in Answered

LEMMA AnswersStaySteps ==
  ASSUME TypeOK, NeverSent, NEW w \in Worker, StepOf(w) PROVE AnswersStay
<1>1. CASE Send(w)
  <2>1. ASSUME NEW i \in Intent, NEW n \in AttemptNo, verdict'[i][n] # verdict[i][n]
        PROVE  Holds(w, i) /\ n = seen[w][i]
    BY <1>1, <2>1 DEF Send, Holds, At, TypeOK, OutsideOK
  <2> QED BY <2>1 DEF NeverSent, InHandUnsent, AnswersStay, Answered
<1>2. CASE ~Send(w)
  BY <1>2, VerdictSteps DEF AnswersStay
<1> QED BY <1>1, <1>2

LEMMA UntouchedResults ==
  ASSUME FailureAnswered, Recording, AnswersStay, NEW v \in Worker, Untouched(v)
  PROVE  /\ pc'[v] \notin {"readback", "record"} => fail'[v] = {}
         /\ pc'[v] = "record" => todo'[v] \subseteq kept'[v]
         /\ \A i \in Intent :
              /\ i \in kept'[v]
              /\ \/ pc'[v] = "record"
                 \/ pc'[v] = "readback" /\ i \notin todo'[v]
              /\ OrderOf[i] \in fail'[v] /\ OrderOf[i] \notin conf'[v] \cup unconf'[v]
              => seen'[v][i] \in AttemptNo /\ verdict'[i][seen'[v][i]] \in Answered
BY DEF FailureAnswered, Recording, AnswersStay, Untouched, Same

\* Outside readback and record a step leaves no failures behind.
LEMMA FailuresCleared ==
  ASSUME TypeOK, Recording, NEW w \in Worker, StepOf(w), pc'[w] \notin {"readback", "record"}
  PROVE  fail'[w] = {}
<1> USE GoneTo DEF TypeOK, At, Recording
<1>0. NextAccount(w) \/ EndCycle(w) \/ Hang(w) => fail'[w] = {}
  BY DEF NextAccount, EndCycle, Hang, Forget, CyclesOK
<1>1. CASE \/ ReadDeployment(w) \/ ResetForDeployment(w) \/ ReadSettings(w)
           \/ EndSyncOff(w) \/ ListInProgress(w) \/ RecoverMissed(w)
           \/ RecoverRecord(w) \/ ListPending(w) \/ EndResolve(w) \/ FinishCycle(w)
           \/ SettlePrevious(w) \/ Reserve(w) \/ Guard(w) \/ Authorize(w) \/ Paced(w)
  BY <1>0, <1>1 DEF ReadDeployment, ResetForDeployment, ReadSettings, EndSyncOff,
     ListInProgress, RecoverMissed, RecoverRecord,
     ListPending, EndResolve, FinishCycle, SettlePrevious, Reserve, Guard, Authorize,
     Paced, results
<1>2. CASE \/ BeforePost(w) \/ BeforePostThrows(w) \/ Send(w) \/ PostThrows(w)
           \/ PostAnswered(w) \/ EndReadback(w) \/ EndBatch(w)
           \/ StartCycle(w) \/ Crash(w) \/ StatementFails(w)
  BY <1>0, <1>2 DEF BeforePost, BeforePostThrows, Send, PostThrows, PostAnswered, EndReadback,
     EndBatch, StartCycle, Crash, StatementFails, ReadBackAll, results
<1>3. CASE \E i \in Intent :
             \/ RecoverReadback(w, i) \/ RecoverAccount(w, i) \/ ResolveIntent(w, i)
             \/ RerouteSelect(w, i) \/ RerouteUpdate(w, i)
             \/ ReadbackPrevious(w, i) \/ CheckReady(w, i) \/ Recheck(w, i)
             \/ AbortReserved(w, i) \/ BeforePostEvidence(w, i) \/ Readback(w, i)
             \/ RecordResult(w, i)
  BY <1>0, <1>3 DEF RecoverReadback, RecoverAccount, ResolveIntent, RerouteSelect,
     RerouteUpdate, ReadbackPrevious, CheckReady,
     Recheck, AbortReserved, BeforePostEvidence, Readback, RecordResult, RecordOrPause, results
<1>4. CASE \E a \in Account : PickAccount(w, a)
  BY <1>4 DEF PickAccount, results
<1>5. CASE Hang(w)
  BY <1>0, <1>5
<1> QED BY <1>1, <1>2, <1>3, <1>4, <1>5 DEF StepOf, CycleStep

LEMMA ResultsKept ==
  ASSUME TypeOK, NeverSent, OwnedOpen, FailureAnswered, Recording, NEW w \in Worker, StepOf(w)
  PROVE  FailureAnswered' /\ Recording'
<1>1. AnswersStay
  BY AnswersStaySteps
<1>2. ASSUME NEW v \in Worker, v # w PROVE Untouched(v)
  BY <1>2, Locality
<1>3. Recording'
  <2> SUFFICES ASSUME NEW v \in Worker
               PROVE  /\ pc'[v] \notin {"readback", "record"} => fail'[v] = {}
                      /\ pc'[v] = "record" => todo'[v] \subseteq kept'[v]
    BY DEF Recording
  <2>1. CASE v # w
    BY <1>1, <1>2, <2>1, UntouchedResults
  <2>2. pc'[w] = "record" => todo'[w] \subseteq kept'[w]
    BY PastMoves DEF Recording
  <2> QED BY <2>1, <2>2, FailuresCleared
<1>4. FailureAnswered'
  <2> SUFFICES ASSUME NEW v \in Worker, NEW i \in Intent, i \in kept'[v],
                      \/ pc'[v] = "record"
                      \/ pc'[v] = "readback" /\ i \notin todo'[v],
                      OrderOf[i] \in fail'[v], OrderOf[i] \notin conf'[v] \cup unconf'[v]
               PROVE  seen'[v][i] \in AttemptNo /\ verdict'[i][seen'[v][i]] \in Answered
    BY DEF FailureAnswered
  <2>1. CASE v # w
    BY <1>1, <1>2, <2>1, UntouchedResults
  <2>2. CASE v = w
    <3>1. kept'[w] = kept[w] /\ seen' = seen /\ i \in kept[w]
      BY <2>2, PastMoves
    <3> SUFFICES seen[w][i] \in AttemptNo /\ verdict[i][seen[w][i]] \in Answered
      BY <1>1, <2>2, <3>1 DEF AnswersStay
    <3>2. CASE pc'[w] = "readback"
      <4>1. CASE pc[w] = "await" /\ \A j \in kept[w] : verdict[j][seen[w][j]] \in Answered
        <5>1. Owns(w, i)
          BY <3>1, <4>1 DEF Owns
        <5> QED BY <3>1, <4>1, <5>1, OwnedAttempt
      <4>2. ASSUME pc[w] = "readback", fail'[w] = fail[w],
                   NEW j \in Intent, todo'[w] = todo[w] \ {j},
                   conf[w] \cup unconf[w] \cup {OrderOf[j]} \subseteq conf'[w] \cup unconf'[w]
            PROVE  seen[w][i] \in AttemptNo /\ verdict[i][seen[w][i]] \in Answered
        <5>1. i # j /\ i \notin todo[w]
          BY <2>2, <3>2, <4>2
        <5>2. OrderOf[i] \in fail[w] /\ OrderOf[i] \notin conf[w] \cup unconf[w]
          BY <2>2, <4>2
        <5> QED BY <3>1, <4>2, <5>1, <5>2 DEF FailureAnswered
      <4> QED BY <2>2, <3>1, <3>2, <4>1, <4>2, PastMoves
    <3>3. CASE pc'[w] = "record"
      <4>1. OrderOf[i] \in fail[w] /\ OrderOf[i] \notin conf[w] \cup unconf[w]
        BY <2>2, <3>3, PastMoves
      <4>2. \/ pc[w] = "authorize"
            \/ pc[w] = "readback" /\ todo[w] = {}
            \/ pc[w] = "record"
        BY <3>3, PastMoves
      <4> QED BY <3>1, <4>1, <4>2 DEF FailureAnswered, Recording
    <3> QED BY <2>2, <3>2, <3>3
  <2> QED BY <2>1, <2>2
<1> QED BY <1>3, <1>4

-----------------------------------------------------------------------------
LEMMA OneInFlightInit == Init => OneInFlight
BY TrackingConstants
DEF Init, OneInFlight, InOneCycle, OwnedOpen, ReservableSettled, FailureAnswered, Recording,
    Owns, Holds, At

\* A step outside the cycles sends nothing and takes no answer back.
LEMMA WorldVerdicts ==
  ASSUME TypeOK, World PROVE NoneQueued /\ AnswersStay
<1>1. ASSUME NEW i \in Intent, NEW n \in AttemptNo, CotikApplies(i, n) \/ CotikRejects(i, n)
      PROVE  NoneQueued /\ AnswersStay
  <2>1. PICK x \in Answered : verdict' = [verdict EXCEPT ![i][n] = x]
    BY <1>1 DEF CotikApplies, CotikRejects, Answered
  <2> QED BY <2>1 DEF TypeOK, OutsideOK, NoneQueued, AnswersStay, Answered
<1>2. CASE ~\E i \in Intent, n \in AttemptNo : CotikApplies(i, n) \/ CotikRejects(i, n)
  <2>1. UNCHANGED verdict
    BY <1>2, StagingMoves
    DEF World, SetSwitches, StageConfirmedForReplay, CreateForReplay, AccountChanges,
        ReopenPostIntentForReplay, EvidenceChanges, TrackedByHand, cotik
  <2> QED BY <2>1 DEF NoneQueued, AnswersStay
<1> QED BY <1>1, <1>2

LEMMA WorldRest ==
  ASSUME TypeOK, World PROVE UNCHANGED <<cycles, attempts>> /\ HeldGrows
<1>1. ASSUME NEW i \in Intent, StageConfirmedForReplay(i)
      PROVE  UNCHANGED <<cycles, attempts, held>>
  BY <1>1, ReplayMoves DEF Creates, cotik, TypeOK
<1>2. ASSUME NEW s \in Stager, StageCotikTracking(s)
      PROVE  UNCHANGED <<cycles, attempts, held>>
  BY <1>2, StagingMoves DEF Creates, cotik, intentRows
<1>3. UNCHANGED <<cycles, attempts>>
  BY <1>1, <1>2 DEF World, SetSwitches, AccountChanges, ReopenPostIntentForReplay,
     EvidenceChanges, TrackedByHand, CotikApplies, CotikRejects, intentRows
<1>4. HeldGrows
  BY <1>1, <1>2 DEF World, SetSwitches, AccountChanges, ReopenPostIntentForReplay,
     EvidenceChanges, TrackedByHand, CotikApplies, CotikRejects, HeldGrows, cotik, TypeOK,
     OutsideOK
<1> QED BY <1>3, <1>4

LEMMA WorldKeepsOneInFlight ==
  ASSUME TypeOK, TypeOK', Ledger, HeldInv, HeldInv', OneInFlight, World
  PROVE  OneInFlight'
<1>1. /\ UNCHANGED <<cycles, attempts>> /\ HeldGrows /\ NoneQueued /\ AnswersStay
      /\ Reopens
  BY WorldRest, WorldVerdicts, WorldReopens
<1>2. UNCHANGED <<pc, todo, kept, seen, conf, unconf, fail>>
  BY <1>1 DEF cycles, plan, results
<1>3. OwnersShrink
  BY <1>2 DEF OwnersShrink, Owns, Holds, At
<1>4. InFlight'
  BY <1>1, <1>3, InFlightKept DEF OneInFlight, InFlight, TypeOK
<1>5. Recording' /\ FailureAnswered'
  <2>1. Recording'
    BY <1>2 DEF OneInFlight, Recording
  <2>2. FailureAnswered'
    BY <1>1, <1>2 DEF OneInFlight, FailureAnswered, AnswersStay
  <2> QED BY <2>1, <2>2
<1> QED BY <1>4, <1>5 DEF OneInFlight, InFlight

LEMMA CycleKeepsOneInFlight ==
  ASSUME TypeOK, TypeOK', Ledger, NeverSent, HeldInv, HeldInv', OneInFlight,
         NEW w \in Worker, StepOf(w)
  PROVE  OneInFlight'
<1> USE DEF OneInFlight
<1>1. FailureAnswered' /\ Recording'
  BY ResultsKept
<1>2. InFlight'
  <2>1. CASE Reserve(w)
    BY <2>1, ReserveKeepsInFlight DEF InFlight
  <2>2. CASE Send(w)
    BY <2>2, SendKeepsInFlight DEF InFlight
  <2>3. CASE ~Reserve(w) /\ ~Send(w)
    <3>1. UNCHANGED <<attempts, tracking, held, verdict>>
      BY <2>3, StepsLesser, CotikSteps, VerdictSteps DEF StepOf, Lesser
    <3>2. HeldGrows /\ NoneQueued
      BY <3>1 DEF HeldGrows, NoneQueued
    <3>3. OwnersShrink /\ Reopens
      BY <2>3, OwnersShrinkSteps, StepsReopen
    <3> QED BY <3>1, <3>2, <3>3, InFlightKept DEF InFlight, TypeOK
  <2> QED BY <2>1, <2>2, <2>3
<1> QED BY <1>1, <1>2 DEF InFlight

LEMMA OneInFlightStep ==
  /\ OneTrackingPerOrder /\ TypeOK /\ Ledger /\ NeverSent /\ HeldInv
  /\ OneInFlight /\ [Next]_vars
  => OneInFlight'
<1> SUFFICES ASSUME OneTrackingPerOrder, TypeOK, Ledger, NeverSent, HeldInv, OneInFlight,
                    [Next]_vars
             PROVE  OneInFlight'
  OBVIOUS
<1>1. TypeOK' /\ HeldInv'
  BY TypeStep, HeldStep
<1>2. CASE World
  BY <1>1, <1>2, WorldKeepsOneInFlight
<1>3. ASSUME NEW w \in Worker, StepOf(w) PROVE OneInFlight'
  BY <1>1, <1>3, CycleKeepsOneInFlight
<1>4. CASE UNCHANGED vars \/ \E w \in Worker : LoseLockSession(w)
  <2>1. UNCHANGED <<status, attempts, verdict, held, pc, todo, kept, seen, conf, unconf, fail>>
    BY <1>4 DEF vars, outside, routing, cotik, cycles, plan, results, intentRows,
       LoseLockSession
  <2>2. InOneCycle' /\ OwnedOpen'
    BY <2>1 DEF OneInFlight, InOneCycle, OwnedOpen, Owns, Holds, At, Settled, WasHeld
  <2>3. ReservableSettled' /\ FailureAnswered' /\ Recording'
    BY <2>1 DEF OneInFlight, ReservableSettled, FailureAnswered, Recording, Settled, WasHeld
  <2> QED BY <2>2, <2>3 DEF OneInFlight
<1> QED BY <1>2, <1>3, <1>4 DEF Next, StepOf

LEMMA SendSettled ==
  ASSUME TypeOK, NeverSent, OneInFlight, [Next]_vars, NEW i \in Intent, NEW n \in AttemptNo,
         verdict[i][n] # "queued", verdict'[i][n] = "queued"
  PROVE  /\ verdict[i][n] = "unsent"
         /\ \/ \A m \in AttemptNo : m < n => verdict[i][m] # "queued"
            \/ TrackingOf[i] \in held[OrderOf[i]]
<1>1. ~World /\ ~UNCHANGED vars /\ ~\E w \in Worker : LoseLockSession(w)
  <2>1. ~World
    BY WorldVerdicts DEF NoneQueued
  <2>2. verdict' # verdict
    OBVIOUS
  <2> QED BY <2>1, <2>2 DEF vars, outside, routing, cotik, LoseLockSession
<1>2. PICK w \in Worker : StepOf(w)
  BY <1>1 DEF Next, StepOf
<1>3. Send(w)
  BY <1>2, VerdictSteps
<1>4. Holds(w, i) /\ n = seen[w][i]
  BY <1>3 DEF Send, Holds, At, TypeOK, OutsideOK
<1>5. verdict[i][n] = "unsent"
  BY <1>4 DEF NeverSent, InHandUnsent
<1>6. Settled(i, n)
  BY <1>4 DEF OneInFlight, OwnedOpen, Owns
<1> QED BY <1>5, <1>6 DEF Settled, WasHeld

\* When no order is staged with two tracking numbers, no attempt is sent twice,
\* and none while an earlier one of its intent may still take effect at COTIK,
\* but for a number COTIK has held: overlapping cycles, lost locks, crashes,
\* timeouts of the POST and reopening by hand included.
THEOREM SentOnceCorrect ==
  ASSUME OneTrackingPerOrder PROVE Spec => SentOnceAndSettled
<1>1. Init => NeverSent /\ HeldInv /\ OneInFlight
  BY NeverSentInit, HeldInit, OneInFlightInit
<1>2. /\ TypeOK /\ Ledger /\ NeverSent /\ HeldInv /\ OneInFlight /\ [Next]_vars
      => NeverSent' /\ HeldInv' /\ OneInFlight'
  BY OneTrackingPerOrder, NeverSentStep, HeldStep, OneInFlightStep
<1>3. TypeOK /\ NeverSent /\ OneInFlight /\ [Next]_vars =>
        [\A i \in Intent, n \in AttemptNo :
           verdict[i][n] # "queued" /\ verdict'[i][n] = "queued" =>
             /\ verdict[i][n] = "unsent"
             /\ \/ \A m \in AttemptNo : m < n => verdict[i][m] # "queued"
                \/ TrackingOf[i] \in held[OrderOf[i]]]_vars
  BY SendSettled
<1> QED BY <1>1, <1>2, <1>3, TypeCorrect, LedgerCorrect, PTL DEF Spec, SentOnceAndSettled

-----------------------------------------------------------------------------
(***************************************************************************)
(* 3. CotikTracking implements TrackingContract, when no order is staged   *)
(* with two tracking numbers. The invariants say what a cycle may still    *)
(* record for a row that an overlapping cycle or an operator has moved in  *)
(* the meantime.                                                           *)
(***************************************************************************)

-----------------------------------------------------------------------------
(* The invariants.                                                         *)

\* Before it lists the pending rows a cycle has none in hand.
Early == {"idle", "reset", "resetWrite", "gate", "syncOn", "syncOff", "recover", "fetch",
          "recovered"}

Resolving == {"resolve", "reroute", "rerouteSame", "rerouteOther"}

\* The intents of accounts to come are not those of the batch at work.
LaterApart(w) ==
  /\ pc[w] \in Early => later[w] = {}
  /\ pc[w] \notin Early \cup Resolving => later[w] \cap (todo[w] \cup kept[w]) = {}

\* No cycle has seen an attempt that was not reserved.
SeenReserved == \A w \in Worker, i \in Intent : seen[w][i] <= attempts[i]

\* The cycle of w listed i as pending and has not reserved it since.
Choosing == Resolving \cup {"account", "prepare", "settleYes", "settleNo"}

Waits(w, i) == pc[w] \in Choosing \/ (pc[w] \notin Early /\ i \in later[w])

\* An attempt that was on record when i was listed has tries after it; that
\* its row is closed by an abort, or that a cycle still has it in hand, is so
\* only for a number COTIK held, whose row an operator reopened.
ListedOpen ==
  \A w \in Worker, i \in Intent :
    Waits(w, i) /\ attempts[i] # 0 /\ seen[w][i] = attempts[i] =>
      /\ attempts[i] < MaxAttempts
      /\ status[i] = "ABORTED" => WasHeld(i)
      /\ \A u \in Worker : Owns(u, i) /\ seen[u][i] = attempts[i] => WasHeld(i)

\* The row of an attempt in hand is not ABORTED for it.
OwnedNotAborted ==
  \A w \in Worker, i \in Intent :
    Owns(w, i) /\ seen[w][i] = attempts[i] => status[i] # "ABORTED"

\* COTIK refused an attempt for the order o.
Refused(o) ==
  \E j \in Intent, m \in AttemptNo : OrderOf[j] = o /\ verdict[j][m] = "rejected"

\* A failure that is certain, no readback having been tried, is one of those.
FailureRefused ==
  \A w \in Worker, i \in Intent :
    /\ i \in kept[w]
    /\ \/ pc[w] = "record"
       \/ pc[w] = "readback" /\ i \notin todo[w]
    /\ OrderOf[i] \in fail[w] /\ OrderOf[i] \notin conf[w] \cup unconf[w]
    => Refused(OrderOf[i])

InTheirOrder ==
  /\ \A w \in Worker : LaterApart(w)
  /\ SeenReserved /\ ListedOpen /\ OwnedNotAborted /\ FailureRefused

-----------------------------------------------------------------------------
(* What a step does to the plan of its cycle.                              *)

\* What w had seen stands, is forgotten, or was read from the row just now.
SeenMoves(w) ==
  \A i \in Intent :
    \/ seen'[w][i] \in {0, seen[w][i]}
    \/ seen'[w][i] = attempts'[i]

LEMMA ForgottenSeen ==
  ASSUME CyclesOK, NEW w \in Worker, NEW S, Forget(w, S)
  PROVE  /\ SeenMoves(w)
         /\ \A i \in Intent : seen'[w][i] = IF i \in S THEN seen[w][i] ELSE 0
         /\ later'[w] = S /\ todo'[w] = {} /\ kept'[w] = {}
<1>1. \A i \in Intent : seen'[w][i] = IF i \in S THEN seen[w][i] ELSE 0
  BY DEF Forget, CyclesOK
<1>2. later'[w] = S /\ todo'[w] = {} /\ kept'[w] = {}
  BY DEF Forget, Visit, Keep, CyclesOK
<1> QED BY <1>1, <1>2 DEF SeenMoves

\* A batch or a cycle that ends, whatever came of it.
LEMMA EndedPlan ==
  ASSUME CyclesOK, NEW w \in Worker, NextAccount(w) \/ EndCycle(w) \/ Hang(w)
  PROVE  /\ SeenMoves(w)
         /\ \A i \in Intent : seen'[w][i] # 0 => i \in later'[w] /\ seen'[w][i] = seen[w][i]
         /\ todo'[w] = {} /\ kept'[w] = {}
         /\ \/ pc'[w] = "account" /\ later'[w] = later[w]
            \/ pc'[w] \in {"idle", "hung"} /\ later'[w] = {}
<1>1. CASE NextAccount(w)
  BY <1>1, GoneTo, ForgottenSeen DEF NextAccount
<1>2. CASE EndCycle(w)
  BY <1>2, GoneTo, ForgottenSeen DEF EndCycle
<1>3. CASE Hang(w)
  BY <1>3, GoneTo, ForgottenSeen DEF Hang
<1> QED BY <1>1, <1>2, <1>3

Ended(w) == NextAccount(w) \/ EndCycle(w) \/ Hang(w)

\* The steps that end a batch or a cycle, list, or reserve are the only ones
\* that touch what w has seen, but for an intent it no longer waits for.
LEMMA PlanSteps ==
  ASSUME TypeOK, NEW w \in Worker, StepOf(w)
  PROVE  \/ Ended(w)
         \/ ListInProgress(w) \/ ListPending(w)
         \/ \E i \in Intent : ResolveIntent(w, i) \/ RerouteSelect(w, i) \/ RerouteUpdate(w, i)
         \/ \E a \in Account : PickAccount(w, a)
         \/ Reserve(w)
         \/ /\ seen' = seen /\ later' = later /\ pc[w] \notin Resolving
            /\ pc[w] \in Early => pc'[w] \in Early
            /\ pc[w] \notin Early => pc'[w] \notin Early \cup Resolving \cup {"account"} \/ pc'[w] = pc[w]
            /\ pc'[w] \in Choosing => pc[w] \in Choosing
            /\ pc[w] \notin Early \cup Resolving =>
                 todo'[w] \cup kept'[w] \subseteq todo[w] \cup kept[w]
<1> USE GoneTo DEF TypeOK, At, Early, Resolving, Choosing, plan, results, Ended
<1>1. CASE \/ ReadDeployment(w) \/ ResetForDeployment(w) \/ ReadSettings(w)
           \/ EndSyncOff(w) \/ RecoverMissed(w)
           \/ RecoverRecord(w) \/ EndResolve(w) \/ FinishCycle(w)
           \/ SettlePrevious(w)
  BY <1>1 DEF ReadDeployment, ResetForDeployment, ReadSettings, EndSyncOff, RecoverMissed,
     RecoverRecord, EndResolve, FinishCycle, SettlePrevious
<1>2. CASE Guard(w) \/ Authorize(w) \/ Paced(w) \/ BeforePost(w) \/ BeforePostThrows(w)
  BY <1>2 DEF Guard, Authorize, Paced, BeforePost, BeforePostThrows, ReadBackAll, Visit,
     CyclesOK
<1>3. CASE \/ Send(w) \/ PostThrows(w) \/ PostAnswered(w) \/ EndReadback(w) \/ EndBatch(w)
  BY <1>3 DEF Send, PostThrows, PostAnswered, EndReadback, EndBatch, ReadBackAll, Visit,
     CyclesOK
<1>4. CASE StartCycle(w) \/ Hang(w) \/ Crash(w) \/ StatementFails(w)
  BY <1>4 DEF StartCycle, Hang, Crash, StatementFails, ReadBackAll, Visit, CyclesOK
<1>5. ASSUME NEW i \in Intent,
             RecoverReadback(w, i) \/ RecoverAccount(w, i) \/ ReadbackPrevious(w, i)
      PROVE  /\ seen' = seen /\ later' = later /\ kept' = kept /\ todo'[w] \subseteq todo[w]
             /\ pc[w] \in {"recover", "fetch", "prepare"}
             /\ pc[w] \in {"recover", "fetch"} => pc'[w] \in {"recover", "fetch", "recovered"}
             /\ pc[w] = "prepare" => pc'[w] \in {"settleYes", "settleNo"}
  BY <1>5, OwnUpdates DEF RecoverReadback, RecoverAccount, ReadbackPrevious, Done, Visit,
     CyclesOK
<1>6. ASSUME NEW i \in Intent, CheckReady(w, i) \/ BeforePostEvidence(w, i) \/ Readback(w, i)
      PROVE  /\ seen' = seen /\ later' = later /\ i \in todo[w]
             /\ todo'[w] \subseteq todo[w] /\ kept'[w] \subseteq kept[w] \cup {i}
             /\ \/ pc[w] = "prepare" /\ pc'[w] = "prepare"
                \/ pc[w] = "evidence" /\ pc'[w] \in {"evidence", "send"}
                \/ pc[w] = "readback" /\ pc'[w] = "readback"
  BY <1>6 DEF CheckReady, BeforePostEvidence, Readback, Done, Visit, Keep, CyclesOK
<1>7. ASSUME NEW i \in Intent,
             Recheck(w, i) \/ AbortReserved(w, i) \/ RecordResult(w, i), ~Ended(w)
      PROVE  /\ seen' = seen /\ later' = later /\ i \in todo[w]
             /\ todo'[w] \subseteq todo[w] /\ kept'[w] \subseteq kept[w] \cup {i}
             /\ pc'[w] = pc[w] /\ pc[w] \in {"recheck", "abort", "record"}
  BY <1>7 DEF Recheck, AbortReserved, RecordResult, RecordOrPause, Done, Visit, Keep, CyclesOK
<1>8. CASE \E i \in Intent : RecoverReadback(w, i) \/ RecoverAccount(w, i)
                                                   \/ ReadbackPrevious(w, i)
  BY <1>5, <1>8
<1>9. CASE \E i \in Intent : CheckReady(w, i) \/ BeforePostEvidence(w, i) \/ Readback(w, i)
  BY <1>6, <1>9
<1>10. CASE \E i \in Intent : Recheck(w, i) \/ AbortReserved(w, i) \/ RecordResult(w, i)
  BY <1>7, <1>10
<1> QED BY <1>1, <1>2, <1>3, <1>4, <1>8, <1>9, <1>10 DEF StepOf, CycleStep

\* The steps that list: what they see they read from the rows.
LEMMA ListingPlan ==
  ASSUME TypeOK, NEW w \in Worker, ListInProgress(w) \/ ListPending(w)
  PROVE  /\ UNCHANGED intentRows
         /\ \/ Ended(w)
            \/ pc'[w] = "recover" /\ pc[w] = "syncOn" /\ later' = later /\ SeenMoves(w)
            \/ /\ pc'[w] = "resolve" /\ later' = later /\ SeenMoves(w)
               /\ \A i \in Intent : seen'[w][i] # 0 => Postable(i) /\ seen'[w][i] = attempts[i]
<1>1. UNCHANGED intentRows
  BY DEF ListInProgress, ListPending
<1>2. ASSUME NEW S, Snapshot(w, S)
      PROVE  \A i \in Intent : seen'[w][i] = IF i \in S THEN attempts[i] ELSE 0
  BY <1>2 DEF Snapshot, TypeOK, CyclesOK
<1>3. CASE ListInProgress(w)
  <2>1. PICK S : Snapshot(w, S)
    BY <1>3 DEF ListInProgress
  <2>2. pc'[w] = "recover" /\ pc[w] = "syncOn" /\ later' = later
    BY <1>3, GoneTo DEF ListInProgress, At, TypeOK
  <2> QED BY <1>1, <1>2, <2>1, <2>2 DEF SeenMoves, intentRows
<1>4. CASE ListPending(w)
  <2>1. PICK S \in Scopes : Snapshot(w, {i \in S : Postable(i)})
    BY <1>4 DEF ListPending
  <2>2. pc'[w] = "resolve" /\ later' = later
    BY <1>4, GoneTo DEF ListPending, TypeOK
  <2>3. \A i \in Intent : seen'[w][i] = IF i \in S /\ Postable(i) THEN attempts[i] ELSE 0
    BY <1>2, <2>1
  <2> QED BY <1>1, <2>2, <2>3 DEF SeenMoves, intentRows
<1> QED BY <1>1, <1>3, <1>4

\* The reservation, for the cycle that makes it.
LEMMA ReservePlan ==
  ASSUME TypeOK, NEW w \in Worker, Reserve(w), ~Ended(w)
  PROVE  /\ pc[w] = "prepare" /\ pc'[w] = "recheck" /\ later' = later
         /\ todo'[w] = {i \in kept[w] : Postable(i)} /\ kept'[w] = {}
         /\ \A i \in Intent :
              IF i \in kept[w] /\ Postable(i)
              THEN /\ seen'[w][i] = attempts[i] + 1 /\ attempts'[i] = attempts[i] + 1
                   /\ status'[i] = "IN_PROGRESS"
              ELSE /\ seen'[w][i] = seen[w][i] /\ attempts'[i] = attempts[i]
                   /\ status'[i] = status[i]
<1> DEFINE S == {i \in kept[w] : Postable(i)}
<1>1. /\ ReservePostIntents(S) /\ pc[w] = "prepare" /\ later' = later
      /\ Goto(w, "recheck") /\ Visit(w, S) /\ Keep(w, {})
      /\ seen' = [seen EXCEPT
           ![w] = [i \in Intent |-> IF i \in S THEN attempts[i] + 1 ELSE @[i]]]
  BY DEF Reserve, Ended, At
<1>2. pc'[w] = "recheck" /\ todo'[w] = S /\ kept'[w] = {}
  BY <1>1 DEF Goto, Visit, Keep, TypeOK, CyclesOK
<1>3. \A i \in Intent : seen'[w][i] = IF i \in S THEN attempts[i] + 1 ELSE seen[w][i]
  BY <1>1 DEF TypeOK, CyclesOK
<1>4. \A i \in Intent :
        /\ attempts'[i] = IF i \in S THEN attempts[i] + 1 ELSE attempts[i]
        /\ status'[i] = IF i \in S THEN "IN_PROGRESS" ELSE status[i]
  BY <1>1 DEF ReservePostIntents
<1> QED BY <1>1, <1>2, <1>3, <1>4

LEMMA ChoicePlan ==
  ASSUME TypeOK, NEW w \in Worker, NEW i \in Intent,
         ResolveIntent(w, i) \/ RerouteSelect(w, i) \/ RerouteUpdate(w, i)
  PROVE  /\ pc[w] \in Resolving /\ pc'[w] \in Resolving /\ SeenMoves(w)
         /\ \A j \in Intent : seen'[w][j] \in {0, seen[w][j]}
<1>1. pc[w] \in Resolving /\ pc'[w] \in Resolving
  BY GoneTo DEF ResolveIntent, RerouteSelect, RerouteUpdate, Resolving, At, TypeOK
<1>2. seen' = seen \/ seen' = [seen EXCEPT ![w][i] = 0]
  BY DEF ResolveIntent, RerouteSelect, RerouteUpdate, DropRoute
<1>3. \A j \in Intent : seen'[w][j] \in {0, seen[w][j]}
  BY <1>2 DEF TypeOK, CyclesOK
<1> QED BY <1>1, <1>3 DEF SeenMoves

LEMMA PickPlan ==
  ASSUME TypeOK, NEW w \in Worker, NEW a \in Account, PickAccount(w, a)
  PROVE  /\ pc[w] = "account" /\ seen' = seen /\ later'[w] \subseteq later[w] /\ kept' = kept
         /\ \/ pc'[w] = "prepare" /\ later'[w] \cap todo'[w] = {}
            \/ pc'[w] = "account" /\ todo' = todo
BY GoneTo DEF PickAccount, At, Visit, TypeOK, CyclesOK

-----------------------------------------------------------------------------
(* The invariants are kept.                                                *)

\* No step takes an attempt back.
LEMMA AttemptsGrow ==
  ASSUME TypeOK, [Next]_vars, NEW i \in Intent
  PROVE  attempts[i] \in Nat /\ attempts'[i] \in {attempts[i], attempts[i] + 1}
<1>1. attempts[i] \in 0..MaxAttempts
  BY DEF TypeOK, RowsOK
<1>2. RowMove
  BY NextMoves
<1>3. attempts'[i] \in {attempts[i], attempts[i] + 1}
  BY <1>2 DEF RowMove, intentRows, Creates, ReservePostIntents, Records,
     RecordPostAttempt, Reopened
<1> QED BY <1>1, <1>3

LEMMA SeenSteps ==
  ASSUME TypeOK, NEW w \in Worker, StepOf(w) PROVE SeenMoves(w)
<1>1. \/ Ended(w)
      \/ ListInProgress(w) \/ ListPending(w)
      \/ \E i \in Intent : ResolveIntent(w, i) \/ RerouteSelect(w, i) \/ RerouteUpdate(w, i)
      \/ \E a \in Account : PickAccount(w, a)
      \/ Reserve(w)
      \/ seen' = seen
  BY PlanSteps
<1>2. CASE Ended(w)
  BY <1>2, EndedPlan DEF Ended, TypeOK
<1>3. CASE ListInProgress(w) \/ ListPending(w)
  BY <1>2, <1>3, ListingPlan
<1>4. CASE Reserve(w) /\ ~Ended(w)
  BY <1>4, ReservePlan DEF SeenMoves
<1> QED BY <1>1, <1>2, <1>3, <1>4, ChoicePlan, PickPlan DEF SeenMoves

LEMMA SeenReservedStep ==
  ASSUME TypeOK, SeenReserved, [Next]_vars PROVE SeenReserved'
<1> SUFFICES ASSUME NEW v \in Worker, NEW i \in Intent PROVE seen'[v][i] <= attempts'[i]
  BY DEF SeenReserved
<1>1. /\ attempts[i] \in Nat /\ attempts'[i] \in {attempts[i], attempts[i] + 1}
      /\ seen[v][i] \in Nat /\ seen[v][i] <= attempts[i]
  BY AttemptsGrow DEF SeenReserved, TypeOK, CyclesOK
<1>2. seen'[v][i] \in {0, seen[v][i], attempts'[i]}
  <2>1. CASE World \/ UNCHANGED vars \/ \E w \in Worker : LoseLockSession(w)
    <3>1. UNCHANGED cycles
      BY <2>1, WorldRest DEF LoseLockSession, vars
    <3> QED BY <3>1 DEF cycles, plan
  <2>2. ASSUME NEW w \in Worker, StepOf(w), w # v PROVE seen'[v] = seen[v]
    BY <2>2, Locality DEF Untouched, Same
  <2>3. CASE StepOf(v)
    BY <2>3, SeenSteps DEF SeenMoves
  <2> QED BY <2>1, <2>2, <2>3 DEF Next, StepOf
<1> QED BY <1>1, <1>2

LEMMA LaterApartStep ==
  ASSUME TypeOK, NEW w \in Worker, StepOf(w), LaterApart(w) PROVE LaterApart(w)'
<1> USE DEF LaterApart, Early, Resolving
<1>1. CASE Ended(w)
  BY <1>1, EndedPlan DEF Ended, TypeOK
<1>2. CASE ListInProgress(w) \/ ListPending(w)
  BY <1>1, <1>2, ListingPlan
<1>3. ASSUME NEW i \in Intent,
             ResolveIntent(w, i) \/ RerouteSelect(w, i) \/ RerouteUpdate(w, i)
      PROVE  LaterApart(w)'
  BY <1>3, ChoicePlan
<1>4. ASSUME NEW a \in Account, PickAccount(w, a) PROVE LaterApart(w)'
  BY <1>4, PickPlan
<1>5. CASE Reserve(w) /\ ~Ended(w)
  BY <1>5, ReservePlan
<1>6. CASE /\ seen' = seen /\ later' = later /\ pc[w] \notin Resolving
           /\ pc[w] \in Early => pc'[w] \in Early
           /\ pc[w] \notin Early => pc'[w] \notin Early \cup Resolving \cup {"account"} \/ pc'[w] = pc[w]
           /\ pc'[w] \in Choosing => pc[w] \in Choosing
           /\ pc[w] \notin Early \cup Resolving =>
                todo'[w] \cup kept'[w] \subseteq todo[w] \cup kept[w]
  BY <1>6
<1> QED BY <1>1, <1>2, <1>3, <1>4, <1>5, <1>6, PlanSteps

LEMMA LaterApartAlways ==
  ASSUME TypeOK, \A v \in Worker : LaterApart(v), [Next]_vars
  PROVE  \A v \in Worker : LaterApart(v)'
<1> SUFFICES ASSUME NEW v \in Worker PROVE LaterApart(v)'
  OBVIOUS
<1>1. CASE World \/ UNCHANGED vars \/ \E w \in Worker : LoseLockSession(w)
  <2>1. UNCHANGED cycles
    BY <1>1, WorldRest DEF LoseLockSession, vars
  <2> QED BY <2>1 DEF cycles, plan, LaterApart
<1>2. ASSUME NEW w \in Worker, StepOf(w), w # v PROVE LaterApart(v)'
  BY <1>2, Locality DEF Untouched, Same, LaterApart
<1>3. CASE StepOf(v)
  BY <1>3, LaterApartStep
<1> QED BY <1>1, <1>2, <1>3 DEF Next, StepOf

\* A cycle that waits for i after a step, with an attempt on record, waited for
\* it before with the same, unless it has just listed it.
LEMMA WaitsSteps ==
  ASSUME TypeOK, NEW w \in Worker, StepOf(w), LaterApart(w), NEW i \in Intent,
         Waits(w, i)', seen'[w][i] # 0
  PROVE  \/ Waits(w, i) /\ seen'[w][i] = seen[w][i]
         \/ ListPending(w) /\ Postable(i) /\ seen'[w][i] = attempts[i]
<1> USE DEF Waits, Early, Resolving, Choosing
<1>1. CASE Ended(w)
  <2>1. i \in later'[w] /\ seen'[w][i] = seen[w][i]
    BY <1>1, EndedPlan DEF Ended, TypeOK
  <2>2. pc'[w] = "account" /\ later'[w] = later[w]
    BY <1>1, <2>1, EndedPlan DEF Ended, TypeOK
  <2> QED BY <2>1, <2>2 DEF LaterApart
<1>2. CASE (ListInProgress(w) \/ ListPending(w)) /\ ~Ended(w)
  <2>1. CASE ListInProgress(w)
    BY <1>2, <2>1, ListingPlan, GoneTo DEF ListInProgress, Ended, TypeOK
  <2>2. CASE ListPending(w)
    BY <1>2, <2>2, ListingPlan, GoneTo DEF ListPending, TypeOK
  <2> QED BY <1>2, <2>1, <2>2
<1>3. ASSUME NEW j \in Intent,
             ResolveIntent(w, j) \/ RerouteSelect(w, j) \/ RerouteUpdate(w, j)
      PROVE  Waits(w, i) /\ seen'[w][i] = seen[w][i]
  BY <1>3, ChoicePlan
<1>4. ASSUME NEW a \in Account, PickAccount(w, a) PROVE Waits(w, i) /\ seen'[w][i] = seen[w][i]
  BY <1>4, PickPlan
<1>5. CASE Reserve(w) /\ ~Ended(w)
  <2>1. i \in later[w] /\ i \notin kept[w]
    BY <1>5, ReservePlan DEF LaterApart
  <2> QED BY <1>5, <2>1, ReservePlan
<1>6. CASE /\ seen' = seen /\ later' = later /\ pc[w] \notin Resolving
           /\ pc[w] \in Early => pc'[w] \in Early
           /\ pc'[w] \in Choosing => pc[w] \in Choosing
  BY <1>6
<1> QED BY <1>1, <1>2, <1>3, <1>4, <1>5, <1>6, PlanSteps

\* The steps outside the cycles close no row by an abort.
LEMMA OutsideAborts ==
  ASSUME TypeOK, World \/ UNCHANGED vars \/ \E w \in Worker : LoseLockSession(w)
  PROVE  UNCHANGED <<cycles, attempts>> /\ NoNewAborts /\ HeldGrows
<1>1. CASE World
  <2>1. UNCHANGED <<cycles, attempts>> /\ HeldGrows
    BY <1>1, WorldRest
  <2>2. ASSUME NEW k \in Intent, StageConfirmedForReplay(k) PROVE NoNewAborts
    BY <2>2, ReplayMoves, CreateQuiet DEF TypeOK
  <2>3. ASSUME NEW s \in Stager, StageCotikTracking(s) PROVE NoNewAborts
    BY <2>3, StagingMoves, CreateQuiet, RowsQuiet DEF TypeOK
  <2>4. NoNewAborts
    BY <1>1, <2>2, <2>3 DEF World, SetSwitches, AccountChanges, ReopenPostIntentForReplay,
       EvidenceChanges, TrackedByHand, CotikApplies, CotikRejects, intentRows, NoNewAborts,
       TypeOK, RowsOK
  <2> QED BY <2>1, <2>4
<1>2. CASE UNCHANGED vars \/ \E w \in Worker : LoseLockSession(w)
  BY <1>2 DEF vars, outside, routing, cotik, intentRows, LoseLockSession, NoNewAborts, HeldGrows
<1> QED BY <1>1, <1>2

\* Any other step but a reservation: a row is closed by an abort only by the
\* cycle that had its last attempt in hand, and no cycle takes one up.
LEMMA AbortsOwned ==
  ASSUME TypeOK, NeverSent, NEW w \in Worker, StepOf(w), ~Reserve(w)
  PROVE  /\ UNCHANGED attempts /\ OwnersShrink /\ UNCHANGED held
         /\ \A i \in Intent : status'[i] = "ABORTED" /\ status[i] # "ABORTED" =>
              \E v \in Worker : Aborts(v, i)
<1>1. OwnersShrink /\ UNCHANGED held
  BY OwnersShrinkSteps, CotikSteps DEF StepOf
<1>2. CASE Send(w)
  BY <1>1, <1>2 DEF Send, intentRows
<1>3. CASE ~Send(w)
  BY <1>1, <1>3, StepsLesser DEF Lesser
<1> QED BY <1>2, <1>3

\* A reservation takes up the attempts it adds, and no cycle another one.
LEMMA ReserveOwns ==
  ASSUME TypeOK, NEW w \in Worker, Reserve(w), NEW i \in Intent
  PROVE  /\ UNCHANGED held
         /\ \A v \in Worker : Owns(v, i)' =>
              \/ Owns(v, i) /\ seen'[v][i] = seen[v][i]
              \/ attempts'[i] = attempts[i] + 1
         /\ \/ attempts'[i] = attempts[i] + 1 /\ status'[i] = "IN_PROGRESS"
            \/ attempts'[i] = attempts[i] /\ status'[i] = status[i]
<1>1. UNCHANGED held
  BY DEF Reserve, outside, routing, cotik
<1>2. \A v \in Worker : v # w => Untouched(v)
  BY Locality DEF StepOf, CycleStep
<1>3. CASE Ended(w)
  <2>1. \A j : ~Owns(w, j)'
    BY <1>3, EndedPlan DEF Ended, Owns, Holds, At, TypeOK
  <2>2. UNCHANGED <<attempts, status>>
    <3>1. NextAccount(w)
      BY <1>3, GoneTo DEF Ended, EndCycle, Hang, Reserve, NextAccount, TypeOK
    <3> QED BY <3>1, GoneTo DEF Reserve, NextAccount, intentRows, TypeOK
  <2> QED BY <1>1, <1>2, <2>1, <2>2, UntouchedOwns
<1>4. CASE ~Ended(w)
  <2>1. Owns(w, i)' => i \in kept[w] /\ Postable(i)
    BY <1>4, ReservePlan DEF Owns, Holds, At
  <2> QED BY <1>1, <1>2, <1>4, <2>1, ReservePlan, UntouchedOwns
<1> QED BY <1>3, <1>4

LEMMA ListedOpenStep ==
  ASSUME TypeOK, NeverSent, OwnedOpen, \A v \in Worker : LaterApart(v), SeenReserved,
         ListedOpen, [Next]_vars
  PROVE  ListedOpen'
<1> SUFFICES ASSUME NEW w \in Worker, NEW i \in Intent,
                    Waits(w, i)', attempts'[i] # 0, seen'[w][i] = attempts'[i]
             PROVE  /\ attempts'[i] < MaxAttempts
                    /\ status'[i] = "ABORTED" => WasHeld(i)'
                    /\ \A u \in Worker : Owns(u, i)' /\ seen'[u][i] = attempts'[i] => WasHeld(i)'
  BY DEF ListedOpen
<1>1. /\ attempts[i] \in Nat /\ attempts'[i] \in {attempts[i], attempts[i] + 1}
      /\ seen[w][i] \in Nat /\ seen[w][i] <= attempts[i]
  BY AttemptsGrow DEF SeenReserved, TypeOK, CyclesOK
<1>2. Waits(w, i) /\ attempts[i] # 0 /\ seen[w][i] = attempts[i] =>
        /\ attempts[i] < MaxAttempts
        /\ status[i] = "ABORTED" => WasHeld(i)
        /\ \A u \in Worker : Owns(u, i) /\ seen[u][i] = attempts[i] => WasHeld(i)
  BY DEF ListedOpen
<1>3. CASE World \/ UNCHANGED vars \/ \E v \in Worker : LoseLockSession(v)
  <2>1. UNCHANGED <<cycles, attempts>> /\ NoNewAborts /\ HeldGrows
    BY <1>3, OutsideAborts
  <2>2. Waits(w, i) /\ seen' = seen /\ \A u : Owns(u, i)' <=> Owns(u, i)
    BY <2>1 DEF cycles, plan, Waits, Owns, Holds, At
  <2>3. WasHeld(i) => WasHeld(i)'
    BY <2>1, HeldStays
  <2> QED BY <1>2, <2>1, <2>2, <2>3 DEF NoNewAborts
<1>4. ASSUME NEW v \in Worker, StepOf(v)
      PROVE  \/ Waits(w, i) /\ seen'[w][i] = seen[w][i]
             \/ ListPending(w) /\ Postable(i) /\ seen'[w][i] = attempts[i]
  <2>1. CASE v = w
    BY <1>4, <2>1, WaitsSteps
  <2>2. CASE v # w
    BY <1>4, <2>2, Locality DEF Untouched, Same, Waits
  <2> QED BY <2>1, <2>2
<1>5. ASSUME NEW v \in Worker, StepOf(v), ~Reserve(v), Waits(w, i), seen'[w][i] = seen[w][i]
      PROVE  /\ attempts'[i] < MaxAttempts
             /\ status'[i] = "ABORTED" => WasHeld(i)'
             /\ \A u \in Worker : Owns(u, i)' /\ seen'[u][i] = attempts'[i] => WasHeld(i)'
  <2>1. /\ UNCHANGED attempts /\ OwnersShrink /\ UNCHANGED held
        /\ status'[i] = "ABORTED" /\ status[i] # "ABORTED" => \E u \in Worker : Aborts(u, i)
    BY <1>5, AbortsOwned
  <2>2. WasHeld(i)' <=> WasHeld(i)
    BY <2>1 DEF WasHeld
  <2>3. \A u \in Worker : Aborts(u, i) => Owns(u, i) /\ seen[u][i] = attempts[i]
    BY DEF Aborts, Owns
  <2>4. \A u \in Worker : Owns(u, i)' => Owns(u, i) /\ seen'[u][i] = seen[u][i]
    BY <2>1 DEF OwnersShrink
  <2> QED BY <1>2, <1>5, <2>1, <2>2, <2>3, <2>4
<1>6. ASSUME ListPending(w), Postable(i), seen'[w][i] = attempts[i]
      PROVE  /\ attempts'[i] < MaxAttempts
             /\ status'[i] = "ABORTED" => WasHeld(i)'
             /\ \A u \in Worker : Owns(u, i)' /\ seen'[u][i] = attempts'[i] => WasHeld(i)'
  <2>1. StepOf(w) /\ ~Reserve(w)
    BY <1>6 DEF StepOf, CycleStep, ListPending, Reserve, At
  <2>2. UNCHANGED attempts /\ OwnersShrink /\ UNCHANGED held /\ UNCHANGED status
    BY <1>6, <2>1, AbortsOwned DEF ListPending, intentRows
  <2>3. \A u \in Worker : Owns(u, i)' => Owns(u, i)
    BY <2>2 DEF OwnersShrink
  <2>4. \A u \in Worker : Owns(u, i) => WasHeld(i)
    BY <1>6 DEF OwnedOpen, Postable
  <2> QED BY <1>6, <2>2, <2>3, <2>4 DEF Postable, WasHeld
<1>7. ASSUME NEW v \in Worker, Reserve(v), Waits(w, i), seen'[w][i] = seen[w][i]
      PROVE  /\ attempts'[i] < MaxAttempts
             /\ status'[i] = "ABORTED" => WasHeld(i)'
             /\ \A u \in Worker : Owns(u, i)' /\ seen'[u][i] = attempts'[i] => WasHeld(i)'
  <2>0. attempts'[i] # attempts[i] + 1
    BY <1>1, <1>7
  <2>1. attempts'[i] = attempts[i] /\ status'[i] = status[i] /\ UNCHANGED held
    BY <1>7, <2>0, ReserveOwns
  <2>2. \A u \in Worker : Owns(u, i)' => Owns(u, i) /\ seen'[u][i] = seen[u][i]
    BY <1>7, <2>0, ReserveOwns
  <2> QED BY <1>2, <1>7, <2>1, <2>2 DEF WasHeld
<1>8. ASSUME NEW v \in Worker, StepOf(v)
      PROVE  /\ attempts'[i] < MaxAttempts
             /\ status'[i] = "ABORTED" => WasHeld(i)'
             /\ \A u \in Worker : Owns(u, i)' /\ seen'[u][i] = attempts'[i] => WasHeld(i)'
  BY <1>4, <1>5, <1>6, <1>7, <1>8
<1> QED BY <1>3, <1>8 DEF Next, StepOf

\* A step that closes the row of the last attempt by an abort lets it go.
LEMMA AbortingLetsGo ==
  ASSUME TypeOK, NeverSent, NEW w \in Worker, StepOf(w), ~Reserve(w), NEW v \in Worker,
         NEW i \in Intent, Aborts(v, i), status'[i] # status[i]
  PROVE  ~Owns(v, i)'
<1>1. CASE v # w
  <2>1. Holds(v, i)' <=> Holds(v, i)
    BY <1>1, Locality, SameHolds DEF Untouched
  <2> QED BY <2>1 DEF Aborts
<1>2. CASE v = w
  <2> SUFFICES ASSUME Owns(w, i)' PROVE FALSE
    BY <1>2
  <2>1. pc'[w] \in {"await", "readback", "record"} /\ pc[w] \in HandPc
    BY <1>2 DEF Aborts, Owns, Holds, At, HandPc
  <2>2. \/ Send(w) \/ Throws(w) \/ PostAnswered(w) \/ Authorize(w) \/ EndReadback(w)
        \/ \E j \in Intent : Readback(w, j) \/ RecordResult(w, j)
    BY <2>1, PastSteps
  <2>3. UNCHANGED status
    BY <2>1, <2>2 DEF Send, Throws, ReadBackAll, PostAnswered, Authorize, EndReadback,
       Readback, RecordResult, intentRows, HandPc, At
  <2> QED BY <2>3
<1> QED BY <1>1, <1>2

LEMMA OwnedNotAbortedStep ==
  ASSUME TypeOK, NeverSent, InOneCycle, OwnedOpen, OwnedNotAborted, [Next]_vars
  PROVE  OwnedNotAborted'
<1> SUFFICES ASSUME NEW w \in Worker, NEW i \in Intent, Owns(w, i)', seen'[w][i] = attempts'[i]
             PROVE  status'[i] # "ABORTED"
  BY DEF OwnedNotAborted
<1>1. CASE World \/ UNCHANGED vars \/ \E v \in Worker : LoseLockSession(v)
  <2>1. UNCHANGED <<cycles, attempts>> /\ NoNewAborts
    BY <1>1, OutsideAborts
  <2>2. Owns(w, i) /\ seen' = seen
    BY <2>1 DEF cycles, plan, Owns, Holds, At
  <2> QED BY <2>1, <2>2 DEF NoNewAborts, OwnedNotAborted
<1>2. ASSUME NEW v \in Worker, Reserve(v) PROVE status'[i] # "ABORTED"
  <2>1. attempts[i] \in Nat
    BY AttemptsGrow
  <2> QED BY <1>2, <2>1, ReserveOwns DEF OwnedNotAborted
<1>3. ASSUME NEW v \in Worker, StepOf(v), ~Reserve(v) PROVE status'[i] # "ABORTED"
  <2>1. /\ UNCHANGED attempts /\ OwnersShrink
        /\ status'[i] = "ABORTED" /\ status[i] # "ABORTED" => \E u \in Worker : Aborts(u, i)
    BY <1>3, AbortsOwned
  <2>2. Owns(w, i) /\ seen[w][i] = attempts[i] /\ status[i] # "ABORTED"
    BY <2>1 DEF OwnersShrink, OwnedNotAborted
  <2>3. ASSUME NEW u \in Worker, Aborts(u, i), status'[i] # status[i] PROVE FALSE
    <3>1. Owns(u, i) /\ seen[u][i] = attempts[i]
      BY <2>3 DEF Aborts, Owns
    <3>2. u = w
      BY <2>2, <3>1 DEF InOneCycle
    <3> QED BY <1>3, <2>3, <3>2, AbortingLetsGo
  <2> QED BY <2>1, <2>2, <2>3
<1> QED BY <1>1, <1>2, <1>3 DEF Next, StepOf

\* What COTIK refused stays refused.
LEMMA RefusedStays ==
  ASSUME TypeOK, NeverSent, [Next]_vars, NEW o, Refused(o) PROVE Refused(o)'
<1>1. PICK j \in Intent, m \in AttemptNo : OrderOf[j] = o /\ verdict[j][m] = "rejected"
  BY DEF Refused
<1>2. verdict'[j][m] = "rejected"
  <2>1. CASE World
    <3>1. ASSUME NEW i \in Intent, NEW n \in AttemptNo, CotikApplies(i, n) \/ CotikRejects(i, n)
          PROVE  verdict'[j][m] = verdict[j][m]
      <4>1. verdict[i][n] = "queued" /\ \E x : verdict' = [verdict EXCEPT ![i][n] = x]
        BY <3>1 DEF CotikApplies, CotikRejects
      <4> QED BY <1>1, <4>1 DEF TypeOK, OutsideOK
    <3>2. CASE ~\E i \in Intent, n \in AttemptNo : CotikApplies(i, n) \/ CotikRejects(i, n)
      BY <1>1, <2>1, <3>2, StagingMoves
      DEF World, SetSwitches, StageConfirmedForReplay, CreateForReplay, AccountChanges,
          ReopenPostIntentForReplay, EvidenceChanges, TrackedByHand, cotik
    <3> QED BY <1>1, <3>1, <3>2
  <2>2. CASE UNCHANGED vars \/ \E w \in Worker : LoseLockSession(w)
    BY <1>1, <2>2 DEF vars, outside, routing, cotik, LoseLockSession
  <2>3. ASSUME NEW w \in Worker, StepOf(w) PROVE verdict'[j][m] = verdict[j][m]
    <3>1. CASE Send(w)
      <4>1. ASSUME verdict'[j][m] # verdict[j][m] PROVE FALSE
        <5>1. Holds(w, j) /\ m = seen[w][j]
          BY <3>1, <4>1 DEF Send, Holds, At, TypeOK, OutsideOK
        <5> QED BY <1>1, <5>1 DEF NeverSent, InHandUnsent
      <4> QED BY <4>1
    <3>2. CASE ~Send(w)
      BY <2>3, <3>2, VerdictSteps
    <3> QED BY <3>1, <3>2
  <2> QED BY <1>1, <2>1, <2>2, <2>3 DEF Next, StepOf
<1> QED BY <1>1, <1>2 DEF Refused

\* The failures an answer names are orders of attempts it refused.
LEMMA AnsweredFailures ==
  ASSUME TypeOK, OwnedOpen, NEW w \in Worker, PostAnswered(w), NEW o, o \in fail'[w]
  PROVE  Refused(o)
<1>1. PICK j \in kept[w] : verdict[j][seen[w][j]] = "rejected" /\ OrderOf[j] = o
  BY DEF PostAnswered, TypeOK, CyclesOK
<1>2. j \in Intent /\ Owns(w, j)
  BY DEF TypeOK, CyclesOK, PostAnswered, Owns, At
<1>3. seen[w][j] \in AttemptNo
  BY <1>2, OwnedAttempt
<1> QED BY <1>1, <1>2, <1>3 DEF Refused

LEMMA FailureRefusedStep ==
  ASSUME TypeOK, NeverSent, OwnedOpen, Recording, FailureRefused, [Next]_vars
  PROVE  FailureRefused'
<1> SUFFICES ASSUME NEW v \in Worker, NEW i \in Intent, i \in kept'[v],
                    \/ pc'[v] = "record"
                    \/ pc'[v] = "readback" /\ i \notin todo'[v],
                    OrderOf[i] \in fail'[v], OrderOf[i] \notin conf'[v] \cup unconf'[v]
             PROVE  Refused(OrderOf[i])
  BY RefusedStays DEF FailureRefused
<1>1. CASE World \/ UNCHANGED vars \/ \E w \in Worker : LoseLockSession(w)
  <2>1. UNCHANGED cycles
    BY <1>1, OutsideAborts
  <2> QED BY <2>1 DEF cycles, results, FailureRefused
<1>2. ASSUME NEW w \in Worker, StepOf(w), w # v PROVE Refused(OrderOf[i])
  BY <1>2, Locality DEF Untouched, Same, FailureRefused
<1>3. CASE StepOf(v)
  <2>1. kept'[v] = kept[v] /\ i \in kept[v]
    BY <1>3, PastMoves
  <2>2. CASE PostAnswered(v)
    BY <2>2, AnsweredFailures
  <2>3. CASE pc'[v] = "readback" /\ ~PostAnswered(v)
    <3>1. \/ Throws(v) \/ \E j \in Intent : Readback(v, j)
      <4>1. \/ Send(v) \/ Throws(v) \/ PostAnswered(v) \/ Authorize(v) \/ EndReadback(v)
            \/ \E j \in Intent : Readback(v, j) \/ RecordResult(v, j)
        BY <1>3, <2>3, PastSteps
      <4>2. \A j \in Intent : RecordResult(v, j) => pc'[v] \in {"record", "account"}
        BY GoneTo DEF RecordResult, RecordOrPause, NextAccount, At, TypeOK
      <4> QED BY <2>3, <4>1, <4>2, GoneTo DEF Send, Authorize, EndReadback, TypeOK
    <3>2. CASE Throws(v)
      BY <2>1, <2>3, <3>2 DEF Throws, ReadBackAll, Visit, TypeOK, CyclesOK
    <3>3. ASSUME NEW j \in Intent, Readback(v, j) PROVE Refused(OrderOf[i])
      <4>1. /\ pc[v] = "readback" /\ fail'[v] = fail[v] /\ todo'[v] = todo[v] \ {j}
            /\ conf[v] \cup unconf[v] \cup {OrderOf[j]} \subseteq conf'[v] \cup unconf'[v]
        BY <3>3 DEF Readback, Done, Visit, At, TypeOK, CyclesOK
      <4>2. i # j /\ i \notin todo[v]
        BY <2>3, <4>1
      <4> QED BY <2>1, <4>1, <4>2 DEF FailureRefused
    <3> QED BY <3>1, <3>2, <3>3
  <2>4. CASE pc'[v] = "record"
    <3>1. /\ conf'[v] = conf[v] /\ unconf'[v] = unconf[v] /\ fail'[v] = fail[v]
          /\ \/ pc[v] = "authorize"
             \/ pc[v] = "readback" /\ todo[v] = {}
             \/ pc[v] = "record"
      BY <1>3, <2>4, PastMoves
    <3> QED BY <2>1, <3>1 DEF FailureRefused, Recording
  <2> QED BY <2>2, <2>3, <2>4
<1> QED BY <1>1, <1>2, <1>3 DEF Next, StepOf

LEMMA InTheirOrderInit == Init => InTheirOrder
BY TrackingConstants
DEF Init, InTheirOrder, LaterApart, Early, SeenReserved, ListedOpen, Waits, Choosing,
    OwnedNotAborted, FailureRefused, Owns, Holds, At, NoCount

LEMMA InTheirOrderStep ==
  TypeOK /\ NeverSent /\ OneInFlight /\ InTheirOrder /\ [Next]_vars => InTheirOrder'
BY LaterApartAlways, SeenReservedStep, ListedOpenStep, OwnedNotAbortedStep, FailureRefusedStep
DEF InTheirOrder, OneInFlight

-----------------------------------------------------------------------------
(* What the contract sees of a step.                                       *)

LEMMA WireStands ==
  ASSUME UNCHANGED <<verdict, held>> PROVE UNCHANGED Contract!wire
BY DEF Contract!wire

\* The row of one intent moves, and nothing else.
LEMMA RowSeen ==
  ASSUME TypeOK, NEW i \in Intent, NEW s, status' = [status EXCEPT ![i] = s],
         UNCHANGED <<attempts, verdict, held>>,
         \/ s = status[i]
         \/ s = "PENDING" /\ status[i] = "ABSENT"
         \/ /\ s = "PENDING" /\ status[i] \in {"CONFIRMED", "FAILED", "ABORTED"}
            /\ attempts[i] < MaxAttempts
         \/ /\ s = "PENDING" /\ status[i] = "IN_PROGRESS" /\ attempts[i] \in AttemptNo
            /\ verdict[i][attempts[i]] \in Answered /\ Refused(OrderOf[i])
         \/ /\ s = "CONFIRMED" /\ status[i] \in {"PENDING", "IN_PROGRESS", "ABORTED"}
            /\ attempts[i] \in AttemptNo /\ WasHeld(i)
         \/ /\ s = "IN_PROGRESS" /\ attempts[i] \in AttemptNo
            /\ status[i] = "PENDING" \/ (status[i] = "ABORTED" /\ WasHeld(i))
         \/ /\ s = "ABORTED" /\ attempts[i] \in AttemptNo
            /\ verdict[i][attempts[i]] = "unsent"
            /\ status[i] = "IN_PROGRESS" \/ (status[i] = "PENDING" /\ WasHeld(i))
         \/ s = "FAILED" /\ status[i] = "IN_PROGRESS" /\ attempts[i] = MaxAttempts
  PROVE  RowsStand \/ Contract!Next
<1> DEFINE sentOf(j) == {n \in AttemptNo : verdict[j][n] # "unsent"}
           openOf(j) == {n \in AttemptNo : verdict[j][n] = "queued"}
           refusedOf(j) == {n \in AttemptNo : verdict[j][n] = "rejected"}
<1>1. Contract!Becomes(i, s) /\ UNCHANGED <<attempts, Contract!wire>>
  BY WireStands DEF Contract!Becomes
<1>2. CASE s = status[i]
  BY <1>2 DEF RowsStand, TypeOK, RowsOK
<1>3. CASE s = "PENDING" /\ status[i] = "ABSENT"
  BY <1>1, <1>3 DEF Contract!Stage, Contract!Next
<1>4. CASE /\ s = "PENDING" /\ status[i] \in {"CONFIRMED", "FAILED", "ABORTED"}
           /\ attempts[i] < MaxAttempts
  BY <1>1, <1>4 DEF Contract!Reopen, Contract!Next
<1>5. CASE /\ s = "PENDING" /\ status[i] = "IN_PROGRESS" /\ attempts[i] \in AttemptNo
           /\ verdict[i][attempts[i]] \in Answered /\ Refused(OrderOf[i])
  <2>1. attempts[i] \in sentOf(i) \ openOf(i)
    BY <1>5 DEF Answered
  <2>2. \E j \in Intent : OrderOf[j] = OrderOf[i] /\ refusedOf(j) # {}
    BY <1>5 DEF Refused
  <2>3. Contract!Retry(i)
    BY <1>1, <1>5, <2>1, <2>2 DEF Contract!Retry
  <2> QED BY <2>3 DEF Contract!Next
<1>6. CASE /\ s = "CONFIRMED" /\ status[i] \in {"PENDING", "IN_PROGRESS", "ABORTED"}
           /\ attempts[i] \in AttemptNo /\ WasHeld(i)
  BY <1>1, <1>6, TrackingConstants DEF Contract!Confirm, Contract!Next, WasHeld, AttemptNo
<1>7. CASE /\ s = "IN_PROGRESS" /\ attempts[i] \in AttemptNo
           /\ status[i] = "PENDING" \/ (status[i] = "ABORTED" /\ WasHeld(i))
  BY <1>1, <1>7, TrackingConstants DEF Contract!Keep, Contract!Next, WasHeld, AttemptNo
<1>8. CASE /\ s = "ABORTED" /\ attempts[i] \in AttemptNo
           /\ verdict[i][attempts[i]] = "unsent"
           /\ status[i] = "IN_PROGRESS" \/ (status[i] = "PENDING" /\ WasHeld(i))
  <2>1. attempts[i] \notin sentOf(i)
    BY <1>8
  <2>2. Contract!Abort(i)
    BY <1>1, <1>8, <2>1 DEF Contract!Abort, Contract!Reopened, WasHeld
  <2> QED BY <2>2 DEF Contract!Next
<1>9. CASE s = "FAILED" /\ status[i] = "IN_PROGRESS" /\ attempts[i] = MaxAttempts
  BY <1>1, <1>9 DEF Contract!GiveUp, Contract!Next
<1> QED BY <1>2, <1>3, <1>4, <1>5, <1>6, <1>7, <1>8, <1>9

\* A record: its row is open at attempt n, and moves to the status it leaves.
LEMMA RecordSeen ==
  ASSUME TypeOK, Ledger, NEW i \in Intent, NEW n, NEW out, NEW how,
         RecordPostAttempt(i, n, out, how)
  PROVE  /\ n \in AttemptNo /\ n = attempts[i] /\ UNCHANGED attempts
         /\ status[i] \in {"PENDING", "IN_PROGRESS", "ABORTED"}
         /\ status[i] = "PENDING" => n < MaxAttempts
         /\ status' = [status EXCEPT ![i] = StatusAfter(n, how)]
<1>1. /\ n \in AttemptNo /\ n = attempts[i] /\ status[i] \notin {"CONFIRMED", "FAILED"}
      /\ UNCHANGED attempts /\ status' = [status EXCEPT ![i] = StatusAfter(n, how)]
  BY DEF RecordPostAttempt, Recordable
<1>2. status[i] # "ABSENT" /\ (status[i] = "PENDING" => n < MaxAttempts)
  BY <1>1, TrackingConstants DEF Ledger, Explained, AttemptNo
<1>3. status[i] \in Status
  BY DEF TypeOK, RowsOK
<1> QED BY <1>1, <1>2, <1>3 DEF Status

LEMMA ConfirmSeen ==
  ASSUME TypeOK, Ledger, NEW i \in Intent, WasHeld(i), NEW n, NEW out,
         RecordPostAttempt(i, n, out, "confirmed"), UNCHANGED <<verdict, held>>
  PROVE  RowsStand \/ Contract!Next
<1>1. StatusAfter(n, "confirmed") = "CONFIRMED"
  BY DEF StatusAfter
<1> QED BY <1>1, RecordSeen, RowSeen

LEMMA AbortSeen ==
  ASSUME TypeOK, Ledger, NeverSent, OwnedOpen, NEW w \in Worker, NEW i \in Intent,
         Holds(w, i), NEW out, RecordPostAttempt(i, seen[w][i], out, "abort"),
         UNCHANGED <<verdict, held>>
  PROVE  RowsStand \/ Contract!Next
<1>1. /\ attempts[i] \in AttemptNo /\ seen[w][i] = attempts[i] /\ UNCHANGED attempts
      /\ status[i] \in {"PENDING", "IN_PROGRESS", "ABORTED"}
      /\ status' = [status EXCEPT ![i] = "ABORTED"]
  BY RecordSeen, StatusAborted DEF StatusAfter
<1>2. verdict[i][attempts[i]] = "unsent" /\ status[i] # "ABORTED"
  BY <1>1 DEF NeverSent, InHandUnsent
<1>3. status[i] = "IN_PROGRESS" \/ WasHeld(i)
  BY <1>1 DEF OwnedOpen, Owns
<1> QED BY <1>1, <1>2, <1>3, RowSeen

\* The settling of a previous attempt.
LEMMA SettleSeen ==
  ASSUME TypeOK, Ledger, HeldInv, InTheirOrder, NEW w \in Worker, SettlePrevious(w)
  PROVE  RowsStand \/ Contract!Next
<1> DEFINE i == cur[w]
           n == seen[w][i]
<1>1. UNCHANGED <<verdict, held>>
  BY DEF SettlePrevious, outside, routing, cotik
<1>2. CASE UNCHANGED intentRows
  BY <1>1, <1>2 DEF RowsStand, intentRows
<1>3. CASE pc[w] = "settleYes" /\ RecordPostAttempt(i, n, "SUCCESS", "confirmed")
  <2>1. i \in Intent /\ WasHeld(i)
    BY <1>3 DEF HeldInv, SureHeld, Sure
  <2> QED BY <1>1, <1>3, <2>1, ConfirmSeen
<1>4. CASE pc[w] = "settleNo" /\ RecordPostAttempt(i, n, "UNCONFIRMED", "keep")
  <2>1. CASE i \in Intent
    <3>1. /\ n \in AttemptNo /\ n = attempts[i] /\ UNCHANGED attempts
          /\ status[i] \in {"PENDING", "IN_PROGRESS", "ABORTED"}
          /\ status' = [status EXCEPT ![i] = StatusAfter(n, "keep")]
      BY <1>4, <2>1, RecordSeen
    <3>2. n # 0 /\ n \in Nat
      BY <3>1, TrackingConstants DEF AttemptNo
    <3>3. Waits(w, i)
      BY <1>4 DEF Waits, Choosing
    <3>4. n < MaxAttempts /\ (status[i] = "ABORTED" => WasHeld(i))
      BY <2>1, <3>1, <3>2, <3>3 DEF InTheirOrder, ListedOpen
    <3>5. StatusAfter(n, "keep") = "IN_PROGRESS"
      BY <3>2, <3>4, TrackingConstants DEF StatusAfter
    <3> QED BY <1>1, <2>1, <3>1, <3>4, <3>5, RowSeen
  <2>2. CASE i \notin Intent
    <3>1. status' = status /\ attempts' = attempts
      BY <1>4, <2>2 DEF RecordPostAttempt, TypeOK, RowsOK
    <3> QED BY <1>1, <3>1 DEF RowsStand
  <2> QED BY <2>1, <2>2
<1> QED BY <1>2, <1>3, <1>4 DEF SettlePrevious, At

\* The result of a batch, for one of its intents.
LEMMA ResultSeen ==
  ASSUME TypeOK, Ledger, HeldInv, OneInFlight, InTheirOrder,
         NEW w \in Worker, NEW i \in Intent, RecordResult(w, i)
  PROVE  RowsStand \/ Contract!Next
<1> DEFINE n == seen[w][i]
<1>1. UNCHANGED <<verdict, held>> /\ pc[w] = "record" /\ i \in todo[w]
  BY DEF RecordResult, outside, routing, cotik, At
<1>2. CASE UNCHANGED intentRows
  BY <1>1, <1>2 DEF RowsStand, intentRows
<1>3. ASSUME NEW out, Confirmed(w, i), RecordPostAttempt(i, n, out, "confirmed")
      PROVE  RowsStand \/ Contract!Next
  <2>1. WasHeld(i)
    BY <1>3 DEF Confirmed, HeldInv, ConfHeld
  <2> QED BY <1>1, <1>3, <2>1, ConfirmSeen
<1>4. ASSUME NEW out, NEW how, RecordPostAttempt(i, n, out, how)
      PROVE  /\ n \in AttemptNo /\ n \in Nat /\ n = attempts[i] /\ UNCHANGED attempts
             /\ \/ status[i] = "IN_PROGRESS"
                \/ status[i] = "PENDING" /\ n < MaxAttempts
             /\ status' = [status EXCEPT ![i] = StatusAfter(n, how)]
  <2>1. /\ n \in AttemptNo /\ n = attempts[i] /\ UNCHANGED attempts
        /\ status[i] \in {"PENDING", "IN_PROGRESS", "ABORTED"}
        /\ status[i] = "PENDING" => n < MaxAttempts
        /\ status' = [status EXCEPT ![i] = StatusAfter(n, how)]
    BY <1>4, RecordSeen
  <2>2. Owns(w, i)
    BY <1>1 DEF Owns
  <2>3. status[i] # "ABORTED"
    BY <2>1, <2>2 DEF InTheirOrder, OwnedNotAborted
  <2> QED BY <2>1, <2>3, TrackingConstants DEF AttemptNo
<1>5. ASSUME NEW out, RecordPostAttempt(i, n, out, "keep")
      PROVE  RowsStand \/ Contract!Next
  <2>1. /\ n >= MaxAttempts => StatusAfter(n, "keep") = "FAILED"
        /\ n < MaxAttempts => StatusAfter(n, "keep") = "IN_PROGRESS"
    BY <1>4, <1>5, TrackingConstants DEF StatusAfter
  <2>2. n >= MaxAttempts => n = MaxAttempts
    BY <1>4, <1>5, TrackingConstants DEF AttemptNo
  <2>3. CASE n >= MaxAttempts
    BY <1>1, <1>4, <1>5, <2>1, <2>2, <2>3, RowSeen, TrackingConstants
  <2>4. CASE n < MaxAttempts
    BY <1>1, <1>4, <1>5, <2>1, <2>4, RowSeen
  <2> QED BY <1>4, <1>5, <2>3, <2>4, TrackingConstants
<1>6. ASSUME NEW out, RecordPostAttempt(i, n, out, "retry"), ~Confirmed(w, i), ~Uncertain(w, i)
      PROVE  RowsStand \/ Contract!Next
  <2>1. /\ n >= MaxAttempts => StatusAfter(n, "retry") = "FAILED"
        /\ n < MaxAttempts => StatusAfter(n, "retry") = "PENDING"
    BY <1>4, <1>6, TrackingConstants DEF StatusAfter
  <2>2. n >= MaxAttempts => n = MaxAttempts
    BY <1>4, <1>6, TrackingConstants DEF AttemptNo
  <2>3. CASE n >= MaxAttempts
    BY <1>1, <1>4, <1>6, <2>1, <2>2, <2>3, RowSeen, TrackingConstants
  <2>4. CASE n < MaxAttempts
    <3>1. i \in kept[w] /\ OrderOf[i] \in fail[w] /\ OrderOf[i] \notin conf[w] \cup unconf[w]
      BY <1>1, <1>6 DEF OneInFlight, Recording, Confirmed, Uncertain, Failed
    <3>2. verdict[i][n] \in Answered /\ Refused(OrderOf[i])
      BY <1>1, <3>1 DEF OneInFlight, FailureAnswered, InTheirOrder, FailureRefused
    <3> QED BY <1>1, <1>4, <1>6, <2>1, <2>4, <3>2, RowSeen
  <2> QED BY <1>4, <1>6, <2>3, <2>4, TrackingConstants
<1>7. RecordResult(w, i) =>
        \/ UNCHANGED intentRows
        \/ Confirmed(w, i) /\ RecordPostAttempt(i, n, "SUCCESS", "confirmed")
        \/ \E out : RecordPostAttempt(i, n, out, "keep")
        \/ ~Confirmed(w, i) /\ ~Uncertain(w, i) /\ \E out : RecordPostAttempt(i, n, out, "retry")
  BY DEF RecordResult, RecordOrPause
<1> QED BY <1>2, <1>3, <1>5, <1>6, <1>7

LEMMA CreateSeen ==
  ASSUME TypeOK, NEW i \in Intent, NEW a, Creates(i, a),
         UNCHANGED <<verdict, held>>
  PROVE  RowsStand \/ Contract!Next
<1>1. status' = [status EXCEPT ![i] = IF status[i] = "ABSENT" THEN "PENDING" ELSE status[i]]
      /\ UNCHANGED attempts
  BY DEF Creates, TypeOK, RowsOK
<1> QED BY <1>1, RowSeen

LEMMA ReserveSeen ==
  ASSUME TypeOK, NEW w \in Worker, Reserve(w) PROVE RowsStand \/ Contract!Next
<1> DEFINE S == {i \in kept[w] : Postable(i)}
<1>1. UNCHANGED <<verdict, held>>
  BY DEF Reserve, outside, routing, cotik
<1>2. CASE UNCHANGED intentRows
  BY <1>1, <1>2 DEF RowsStand, intentRows
<1>3. CASE S # {} /\ ReservePostIntents(S)
  <2>1. S \in SUBSET Intent /\ S # {} /\ \A i \in S : Postable(i)
    BY <1>3 DEF TypeOK, CyclesOK
  <2>2. /\ status' = [i \in Intent |-> IF i \in S THEN "IN_PROGRESS" ELSE status[i]]
        /\ attempts' = [i \in Intent |-> IF i \in S THEN attempts[i] + 1 ELSE attempts[i]]
    BY <1>3 DEF ReservePostIntents
  <2> HIDE DEF S
  <2>3. Contract!Reserve(S)
    BY <1>1, <2>1, <2>2, WireStands DEF Contract!Reserve, Postable
  <2> QED BY <2>1, <2>3 DEF Contract!Next
<1> QED BY <1>2, <1>3 DEF Reserve

LEMMA PostSeen ==
  ASSUME NEW S \in SUBSET Intent, NEW n \in [Intent -> 1..MaxAttempts], Contract!Post(S, n)
  PROVE  Contract!Next
<1>1. \E X \in SUBSET Intent, m \in [Intent -> 1..MaxAttempts] : Contract!Post(X, m)
  OBVIOUS
<1> QED BY <1>1 DEF Contract!Next

\* The POST: try seen[w][i] of every intent of the batch goes out.
LEMMA SendSeen ==
  ASSUME TypeOK, NeverSent, OneInFlight, InTheirOrder, NEW w \in Worker, Send(w)
  PROVE  RowsStand \/ Contract!Next
<1> DEFINE S == kept[w]
           no == [i \in Intent |-> IF i \in S THEN seen[w][i] ELSE 1]
           sentOf == [i \in Intent |-> {m \in AttemptNo : verdict[i][m] # "unsent"}]
           openOf == [i \in Intent |-> {m \in AttemptNo : verdict[i][m] = "queued"}]
           sentNow == [i \in Intent |-> {m \in AttemptNo : verdict'[i][m] # "unsent"}]
           openNow == [i \in Intent |-> {m \in AttemptNo : verdict'[i][m] = "queued"}]
<1>1. /\ pc[w] = "send" /\ UNCHANGED <<status, attempts, held>>
      /\ verdict' = [i \in Intent |-> [m \in AttemptNo |->
           IF i \in S /\ m = seen[w][i] THEN "queued" ELSE verdict[i][m]]]
  BY DEF Send, At, intentRows
<1>2. S \subseteq Intent
  BY DEF TypeOK, CyclesOK
<1>3. ASSUME NEW i \in S
      PROVE  /\ seen[w][i] \in AttemptNo /\ seen[w][i] \in 1..attempts[i]
             /\ verdict[i][seen[w][i]] = "unsent" /\ Settled(i, seen[w][i])
             /\ status[i] = "ABORTED" => seen[w][i] < attempts[i]
  <2>1. i \in Intent /\ Holds(w, i) /\ Owns(w, i)
    BY <1>1, <1>2, <1>3 DEF Holds, Owns
  <2>2. /\ seen[w][i] \in AttemptNo /\ seen[w][i] <= attempts[i] /\ attempts[i] \in Nat
        /\ seen[w][i] \in Nat
    BY <2>1, OwnedAttempt, TrackingConstants DEF OneInFlight, AttemptNo
  <2>3. seen[w][i] \in 1..attempts[i] /\ Settled(i, seen[w][i])
    BY <2>1 DEF OneInFlight, OwnedOpen
  <2>4. seen[w][i] # attempts[i] \/ status[i] # "ABORTED"
    BY <2>1 DEF InTheirOrder, OwnedNotAborted
  <2> QED BY <2>1, <2>2, <2>3, <2>4 DEF NeverSent, InHandUnsent
<1>4. CASE S = {}
  <2>1. verdict' = [i \in Intent |-> [m \in AttemptNo |-> verdict[i][m]]]
    BY <1>1, <1>4
  <2>2. verdict' = verdict
    BY <2>1 DEF TypeOK, OutsideOK
  <2> QED BY <1>1, <2>2 DEF RowsStand
<1>5. CASE S # {}
  <2>1. no \in [Intent -> 1..MaxAttempts]
    BY <1>3, TrackingConstants DEF AttemptNo
  <2>2. ASSUME NEW i \in S
        PROVE  /\ no[i] \in 1..attempts[i] \ sentOf[i]
               /\ (\A m \in openOf[i] : m > no[i]) \/ WasHeld(i)
               /\ status[i] = "ABORTED" => no[i] < attempts[i]
    <3>1. i \in Intent /\ no[i] = seen[w][i]
      BY <1>2, <2>2
    <3>2. no[i] \notin sentOf[i]
      BY <1>3, <3>1
    <3>3. ASSUME ~WasHeld(i), NEW m \in openOf[i] PROVE m > no[i]
      <4>1. m \in AttemptNo /\ verdict[i][m] = "queued"
        BY <3>1, <3>3
      <4>2. ~(m < seen[w][i]) /\ m # seen[w][i]
        BY <1>3, <3>3, <4>1 DEF Settled
      <4> QED BY <1>3, <3>1, <4>1, <4>2, TrackingConstants DEF AttemptNo
    <3> QED BY <1>3, <3>1, <3>2, <3>3
  <2>3. /\ sentNow = [i \in Intent |-> IF i \in S THEN sentOf[i] \cup {no[i]} ELSE sentOf[i]]
        /\ openNow = [i \in Intent |-> IF i \in S THEN openOf[i] \cup {no[i]} ELSE openOf[i]]
    <3>1. ASSUME NEW i \in Intent
          PROVE  /\ sentNow[i] = IF i \in S THEN sentOf[i] \cup {no[i]} ELSE sentOf[i]
                 /\ openNow[i] = IF i \in S THEN openOf[i] \cup {no[i]} ELSE openOf[i]
      <4>1. CASE i \in S
        <5>1. no[i] \in AttemptNo /\ no[i] = seen[w][i]
          BY <1>3, <4>1
        <5>2. \A m \in AttemptNo :
                verdict'[i][m] = IF m = no[i] THEN "queued" ELSE verdict[i][m]
          BY <1>1, <4>1, <5>1
        <5> QED BY <4>1, <5>1, <5>2
      <4>2. CASE i \notin S
        <5>1. \A m \in AttemptNo : verdict'[i][m] = verdict[i][m]
          BY <1>1, <4>2
        <5> QED BY <4>2, <5>1
      <4> QED BY <4>1, <4>2
    <3> QED BY <3>1
  <2>4. UNCHANGED <<status, attempts>>
        /\ {i \in Intent : TrackingOf[i] \in held'[OrderOf[i]]}
             = {i \in Intent : TrackingOf[i] \in held[OrderOf[i]]}
        /\ [i \in Intent |-> {m \in AttemptNo : verdict'[i][m] = "rejected"}]
             = [i \in Intent |-> {m \in AttemptNo : verdict[i][m] = "rejected"}]
    <3>1. ASSUME NEW i \in Intent, NEW m \in AttemptNo
          PROVE  verdict'[i][m] = "rejected" <=> verdict[i][m] = "rejected"
      BY <1>1, <1>3
    <3> QED BY <1>1, <3>1
  <2>5. PICK X \in SUBSET Intent, n \in [Intent -> 1..MaxAttempts] : X = S /\ n = no
    BY <1>2, <2>1
  <2>6. Contract!Post(X, n)
    <3> HIDE DEF no
    <3> QED BY <1>2, <1>5, <2>2, <2>3, <2>4, <2>5 DEF Contract!Post, WasHeld
  <2> QED BY <2>6, PostSeen
<1> QED BY <1>4, <1>5

\* COTIK applies or refuses a try, or a number appears there.
Landed == {j \in Intent : TrackingOf[j] \in held[OrderOf[j]]}

LEMMA AppliesSeen ==
  ASSUME TypeOK, NEW i \in Intent, NEW n \in AttemptNo, CotikApplies(i, n)
  PROVE  Contract!Next
<1> DEFINE openOf == [j \in Intent |-> {m \in AttemptNo : verdict[j][m] = "queued"}]
           openNow == [j \in Intent |-> {m \in AttemptNo : verdict'[j][m] = "queued"}]
<1>1. /\ verdict[i][n] = "queued" /\ verdict' = [verdict EXCEPT ![i][n] = "accepted"]
      /\ held' = [held EXCEPT ![OrderOf[i]] = @ \cup {TrackingOf[i]}]
      /\ UNCHANGED <<status, attempts>>
  BY DEF CotikApplies, intentRows
<1>2. \A j \in Intent, m \in AttemptNo :
        verdict'[j][m] = IF j = i /\ m = n THEN "accepted" ELSE verdict[j][m]
  BY <1>1 DEF TypeOK, OutsideOK
<1>3. openNow = [openOf EXCEPT ![i] = @ \ {n}]
  <2>1. ASSUME NEW j \in Intent
        PROVE  openNow[j] = IF j = i THEN openOf[j] \ {n} ELSE openOf[j]
    BY <1>2
  <2> QED BY <2>1
<1>4. /\ [j \in Intent |-> {m \in AttemptNo : verdict'[j][m] # "unsent"}]
           = [j \in Intent |-> {m \in AttemptNo : verdict[j][m] # "unsent"}]
      /\ [j \in Intent |-> {m \in AttemptNo : verdict'[j][m] = "rejected"}]
           = [j \in Intent |-> {m \in AttemptNo : verdict[j][m] = "rejected"}]
  <2>1. ASSUME NEW j \in Intent, NEW m \in AttemptNo
        PROVE  /\ verdict'[j][m] # "unsent" <=> verdict[j][m] # "unsent"
               /\ verdict'[j][m] = "rejected" <=> verdict[j][m] = "rejected"
    BY <1>1, <1>2
  <2> QED BY <2>1
<1>5. Landed' \in SUBSET Intent /\ Landed' = Landed \cup Landed' \cup {i}
  <2>1. \A o \in Order : held'[o] = IF o = OrderOf[i] THEN held[o] \cup {TrackingOf[i]}
                                                     ELSE held[o]
    BY <1>1 DEF TypeOK, OutsideOK
  <2>2. \A j \in Intent : OrderOf[j] \in Order
    BY TrackingConstants
  <2> QED BY <2>1, <2>2 DEF Landed
<1>6. PICK X \in SUBSET Intent : X = Landed'
  BY <1>5
<1>7. Landed' = Landed \cup X \cup {i}
  BY <1>5, <1>6
<1>8. n \in openOf[i]
  BY <1>1
<1>9. Contract!Land(i, n)
  BY <1>1, <1>3, <1>4, <1>7, <1>8 DEF Contract!Land, Landed
<1> QED BY <1>9 DEF Contract!Next, AttemptNo

LEMMA RejectsSeen ==
  ASSUME TypeOK, NEW i \in Intent, NEW n \in AttemptNo, CotikRejects(i, n)
  PROVE  Contract!Next
<1> DEFINE openOf == [j \in Intent |-> {m \in AttemptNo : verdict[j][m] = "queued"}]
           openNow == [j \in Intent |-> {m \in AttemptNo : verdict'[j][m] = "queued"}]
           refusedOf == [j \in Intent |-> {m \in AttemptNo : verdict[j][m] = "rejected"}]
           refusedNow == [j \in Intent |-> {m \in AttemptNo : verdict'[j][m] = "rejected"}]
<1>1. /\ verdict[i][n] = "queued" /\ verdict' = [verdict EXCEPT ![i][n] = "rejected"]
      /\ UNCHANGED <<status, attempts, held>>
  BY DEF CotikRejects, intentRows
<1>2. \A j \in Intent, m \in AttemptNo :
        verdict'[j][m] = IF j = i /\ m = n THEN "rejected" ELSE verdict[j][m]
  BY <1>1 DEF TypeOK, OutsideOK
<1>3. /\ openNow = [openOf EXCEPT ![i] = @ \ {n}]
      /\ refusedNow = [refusedOf EXCEPT ![i] = @ \cup {n}]
  <2>1. ASSUME NEW j \in Intent
        PROVE  /\ openNow[j] = IF j = i THEN openOf[j] \ {n} ELSE openOf[j]
               /\ refusedNow[j] = IF j = i THEN refusedOf[j] \cup {n} ELSE refusedOf[j]
    BY <1>2
  <2> QED BY <2>1
<1>4. [j \in Intent |-> {m \in AttemptNo : verdict'[j][m] # "unsent"}]
        = [j \in Intent |-> {m \in AttemptNo : verdict[j][m] # "unsent"}]
  <2>1. ASSUME NEW j \in Intent, NEW m \in AttemptNo
        PROVE  verdict'[j][m] # "unsent" <=> verdict[j][m] # "unsent"
    BY <1>1, <1>2
  <2> QED BY <2>1
<1>5. n \in openOf[i]
  BY <1>1
<1>6. Contract!Refuse(i, n)
  BY <1>1, <1>3, <1>4, <1>5 DEF Contract!Refuse
<1> QED BY <1>6 DEF Contract!Next, AttemptNo

LEMMA HandSeen ==
  ASSUME TypeOK, NEW o \in Order, TrackedByHand(o) PROVE Contract!Next
<1>1. UNCHANGED <<status, attempts, verdict>> /\ HeldGrows
  BY DEF TrackedByHand, intentRows, HeldGrows, TypeOK, OutsideOK
<1>2. Landed' \in SUBSET Intent /\ Landed' = Landed \cup Landed'
  BY <1>1, TrackingConstants DEF Landed, HeldGrows
<1>3. PICK X \in SUBSET Intent : X = Landed'
  BY <1>2
<1>4. Contract!Appear(X)
  BY <1>1, <1>2, <1>3 DEF Contract!Appear, Landed
<1> QED BY <1>4 DEF Contract!Next

LEMMA WorldSeen ==
  ASSUME TypeOK, World PROVE RowsStand \/ Contract!Next
<1>1. CASE \E on \in BOOLEAN : SetSwitches(on)
  BY <1>1 DEF SetSwitches, RowsStand, intentRows, cotik
<1>2. ASSUME NEW i \in Intent, StageConfirmedForReplay(i)
      PROVE  RowsStand \/ Contract!Next
  BY <1>2, ReplayMoves, CreateSeen DEF TypeOK, cotik
<1>5. ASSUME NEW s \in Stager, StageCotikTracking(s)
      PROVE  RowsStand \/ Contract!Next
  BY <1>5, StagingMoves, CreateSeen DEF RowsStand, intentRows, cotik
<1>6. CASE \E a \in Account : AccountChanges(a)
  BY <1>6 DEF AccountChanges, RowsStand, intentRows, cotik
<1>3. ASSUME NEW i \in Intent, ReopenPostIntentForReplay(i)
      PROVE  RowsStand \/ Contract!Next
  <2>1. /\ status[i] \in {"CONFIRMED", "FAILED", "ABORTED"} /\ attempts[i] < MaxAttempts
        /\ status' = [status EXCEPT ![i] = "PENDING"]
        /\ UNCHANGED <<attempts, verdict, held>>
    BY <1>3 DEF ReopenPostIntentForReplay, cotik
  <2> QED BY <2>1, RowSeen
<1>4. CASE \E i \in Intent, a \in Account \cup {NoAccount} : EvidenceChanges(i, a)
  BY <1>4 DEF EvidenceChanges, RowsStand, intentRows, cotik
<1> QED BY <1>1, <1>2, <1>3, <1>4, <1>5, <1>6, HandSeen, AppliesSeen, RejectsSeen DEF World

\* The steps of a cycle.
LEMMA CycleSeen ==
  ASSUME TypeOK, Ledger, NeverSent, HeldInv, OneInFlight, InTheirOrder,
         NEW w \in Worker, StepOf(w)
  PROVE  RowsStand \/ Contract!Next
<1>0. ~Send(w) => UNCHANGED <<verdict, held>>
  BY VerdictSteps, CotikSteps DEF StepOf
<1>1. CASE Send(w)
  BY <1>1, SendSeen
<1>2. CASE RecoverRecord(w)
  <2>1. CASE UNCHANGED intentRows
    BY <1>0, <1>1, <2>1, SendSeen DEF RowsStand, intentRows
  <2>2. CASE RecordPostAttempt(cur[w], seen[w][cur[w]], "SUCCESS", "confirmed")
    <3>1. cur[w] \in Intent /\ WasHeld(cur[w])
      BY <1>2 DEF RecoverRecord, HeldInv, SureHeld, Sure, At
    <3>2. UNCHANGED <<verdict, held>>
      BY <1>2 DEF RecoverRecord, cotik
    <3> QED BY <2>2, <3>1, <3>2, ConfirmSeen
  <2> QED BY <1>2, <2>1, <2>2 DEF RecoverRecord
<1>3. CASE SettlePrevious(w)
  BY <1>3, SettleSeen
<1>4. CASE Reserve(w)
  BY <1>4, ReserveSeen
<1>5. ASSUME NEW i \in Intent, ResolveIntent(w, i) \/ RerouteSelect(w, i) \/ RerouteUpdate(w, i)
      PROVE  RowsStand \/ Contract!Next
  <2>1. /\ UNCHANGED <<verdict, held>>
        /\ UNCHANGED intentRows \/ \E a : Creates(i, a)
    BY <1>5, StatementsCreate
    DEF ResolveIntent, RerouteSelect, RerouteUpdate, outside, cotik, TypeOK
  <2> QED BY <2>1, CreateSeen DEF RowsStand, intentRows
<1>6. ASSUME NEW i \in Intent, Recheck(w, i) \/ AbortReserved(w, i)
      PROVE  RowsStand \/ Contract!Next
  <2>1. /\ UNCHANGED <<verdict, held>> /\ Holds(w, i)
        /\ \/ UNCHANGED intentRows
           \/ RecordPostAttempt(i, seen[w][i], "UNCONFIRMED", "abort")
    BY <1>6 DEF Recheck, AbortReserved, RecordOrPause, outside, routing, cotik, Holds, At
  <2> QED BY <2>1, AbortSeen DEF RowsStand, intentRows, OneInFlight
<1>7. ASSUME NEW i \in Intent, RecordResult(w, i)
      PROVE  RowsStand \/ Contract!Next
  BY <1>7, ResultSeen
<1>8. CASE /\ ~Send(w)
           /\ \/ ReadDeployment(w) \/ ResetForDeployment(w) \/ ReadSettings(w)
              \/ EndSyncOff(w) \/ ListInProgress(w) \/ RecoverMissed(w)
              \/ ListPending(w) \/ EndResolve(w) \/ FinishCycle(w) \/ Guard(w)
              \/ Authorize(w) \/ Paced(w) \/ BeforePost(w) \/ BeforePostThrows(w)
  BY <1>0, <1>8 DEF RowsStand, intentRows, ReadDeployment, ResetForDeployment, ReadSettings,
     EndSyncOff, ListInProgress, RecoverMissed,
     ListPending, EndResolve, FinishCycle, Guard, Authorize, Paced, BeforePost,
     BeforePostThrows, ReadBackAll
<1>9. CASE /\ ~Send(w)
           /\ \/ PostThrows(w) \/ PostAnswered(w) \/ EndReadback(w) \/ EndBatch(w)
              \/ StartCycle(w) \/ Hang(w) \/ Crash(w) \/ StatementFails(w)
              \/ \E a \in Account : PickAccount(w, a)
              \/ \E i \in Intent :
                   \/ RecoverReadback(w, i) \/ RecoverAccount(w, i) \/ ReadbackPrevious(w, i)
                   \/ CheckReady(w, i) \/ BeforePostEvidence(w, i) \/ Readback(w, i)
  BY <1>0, <1>9 DEF RowsStand, intentRows, PostThrows, ReadBackAll, PostAnswered,
     EndReadback, EndBatch, StartCycle, Hang, Crash, StatementFails, PickAccount,
     RecoverReadback, RecoverAccount, ReadbackPrevious, CheckReady, BeforePostEvidence, Readback
<1> QED BY <1>1, <1>2, <1>3, <1>4, <1>5, <1>6, <1>7, <1>8, <1>9 DEF StepOf, CycleStep

\* Every step of the pipeline is a step of the contract, or leaves all that the
\* contract speaks of as it is.
LEMMA StepSeen ==
  /\ TypeOK /\ Ledger /\ NeverSent /\ HeldInv /\ OneInFlight /\ InTheirOrder /\ [Next]_vars
  => RowsStand \/ Contract!Next
<1> SUFFICES ASSUME TypeOK, Ledger, NeverSent, HeldInv, OneInFlight, InTheirOrder, [Next]_vars
             PROVE  RowsStand \/ Contract!Next
  OBVIOUS
<1>1. CASE World
  BY <1>1, WorldSeen
<1>2. ASSUME NEW w \in Worker, StepOf(w) PROVE RowsStand \/ Contract!Next
  BY <1>2, CycleSeen
<1>3. ASSUME NEW w \in Worker, LoseLockSession(w) PROVE RowsStand \/ Contract!Next
  BY <1>3 DEF LoseLockSession, RowsStand, intentRows, cotik
<1>4. CASE UNCHANGED vars
  BY <1>4 DEF vars, outside, routing, RowsStand, intentRows, cotik
<1> QED BY <1>1, <1>2, <1>3, <1>4 DEF Next, StepOf

LEMMA InitSeen == Init => Contract!Init
<1> SUFFICES ASSUME Init PROVE Contract!Init
  OBVIOUS
<1>1. /\ \A i \in Intent, n \in AttemptNo : verdict[i][n] = "unsent"
      /\ \A i \in Intent : held[OrderOf[i]] = {}
      /\ status = [i \in Intent |-> "ABSENT"] /\ attempts = [i \in Intent |-> 0]
  BY TrackingConstants DEF Init, NoCount
<1>2. /\ [i \in Intent |-> {n \in AttemptNo : verdict[i][n] # "unsent"}] = [i \in Intent |-> {}]
      /\ [i \in Intent |-> {n \in AttemptNo : verdict[i][n] = "queued"}] = [i \in Intent |-> {}]
      /\ [i \in Intent |-> {n \in AttemptNo : verdict[i][n] = "rejected"}] = [i \in Intent |-> {}]
      /\ {i \in Intent : TrackingOf[i] \in held[OrderOf[i]]} = {}
  BY <1>1
<1> QED BY <1>1, <1>2 DEF Contract!Init

\* For every number of workers, intents and attempts, with crashes, lost locks
\* and overlapping cycles, the pipeline of cotik-cycle.ts implements
\* TrackingContract.
THEOREM ContractCorrect ==
  ASSUME OneTrackingPerOrder PROVE Spec => ImplementsContract
<1>1. Init => NeverSent /\ HeldInv /\ OneInFlight /\ InTheirOrder /\ Contract!Init
  BY NeverSentInit, HeldInit, OneInFlightInit, InTheirOrderInit, InitSeen
<1>2. /\ TypeOK /\ Ledger /\ NeverSent /\ HeldInv /\ OneInFlight /\ InTheirOrder /\ [Next]_vars
      => NeverSent' /\ HeldInv' /\ OneInFlight' /\ InTheirOrder'
  BY OneTrackingPerOrder, NeverSentStep, HeldStep, OneInFlightStep, InTheirOrderStep
<1>3. /\ TypeOK /\ Ledger /\ NeverSent /\ HeldInv /\ OneInFlight /\ InTheirOrder /\ [Next]_vars
      => [RowsStand \/ Contract!Next]_(Contract!vars)
  BY StepSeen
<1> QED BY <1>1, <1>2, <1>3, TypeCorrect, LedgerCorrect, PTL DEF Spec, ImplementsContract

\* The same, as a refinement of the abstract specification itself.
THEOREM Refinement ==
  ASSUME OneTrackingPerOrder PROVE Spec => Contract!Spec
<1>1. RowsStand => UNCHANGED Contract!vars
  BY DEF RowsStand, Contract!vars
<1>2. [RowsStand \/ Contract!Next]_(Contract!vars) => [Contract!Next]_(Contract!vars)
  BY <1>1
<1> QED BY <1>2, ContractCorrect, OneTrackingPerOrder, PTL DEF ImplementsContract, Contract!Spec

=============================================================================
