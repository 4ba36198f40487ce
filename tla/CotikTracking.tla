--------------------------- MODULE CotikTracking ---------------------------
(***************************************************************************)
(* The COTIK tracking POST pipeline: intents and attempts kept in          *)
(* PostgreSQL (packages/db/src/queries/cotik-tracking.ts), the persisted   *)
(* dual kill switch (cotik-workflow.ts), the cycle that posts them         *)
(* (apps/worker/src/cotik-cycle.ts), the batch writer with its readback    *)
(* (packages/cotik/src/tracking-writer.ts) and the COTIK server as those   *)
(* callers see it.                                                         *)
(*                                                                         *)
(* One action is one database statement or transaction, one settings read  *)
(* or one HTTP exchange; everything else may interleave between two.       *)
(***************************************************************************)
EXTENDS Naturals, FiniteSets

CONSTANTS
  Worker,       \* processes that run runCotikWorkerCycle: daemons and CLI runs
  Stager,       \* calls of stageCotikTracking: dashboard requests and CLI runs
  Intent,       \* rows of cotik_post_intents that may come to exist
  Order,        \* COTIK order ids
  Tracking,     \* tracking numbers, among them the one set by hand in COTIK
  Account,      \* COTIK accounts, each with its token
  Version,      \* deployment ids
  OrderOf,      \* [Intent -> Order]
  TrackingOf,   \* [Intent -> Tracking]
  SourceOf,     \* [Intent -> Intent \cup {NoIntent}]: source row of a replay row
  VersionOf,    \* [Worker -> Version \cup {NoVersion}]: COTIK_DEPLOY_VERSION
  OldVersion,   \* the deployment id the database holds at the start
  ForeignTracking, \* a tracking number somebody types into COTIK itself
  Scopes,       \* the sets of intents one listing may be restricted to
  MaxAttempts,  \* max_attempts of an intent row
  MaxFaults,    \* bound: crashes and lost lock sessions in one behaviour
  NoIntent, NoAccount, NoTracking, NoVersion, NoWorker

ASSUME TrackingConstants ==
  /\ OrderOf \in [Intent -> Order]
  /\ TrackingOf \in [Intent -> Tracking]
  /\ SourceOf \in [Intent -> Intent \cup {NoIntent}]
  /\ \A i \in Intent : SourceOf[i] # NoIntent =>
       /\ OrderOf[i] = OrderOf[SourceOf[i]]
       /\ TrackingOf[i] = TrackingOf[SourceOf[i]]
  /\ VersionOf \in [Worker -> Version \cup {NoVersion}]
  /\ OldVersion \in Version
  /\ ForeignTracking \in Tracking
  /\ Scopes \subseteq SUBSET Intent
  /\ MaxAttempts \in 1..3
  /\ MaxFaults \in Nat
  /\ NoIntent \notin Intent
  /\ NoAccount \notin Account
  /\ NoTracking \notin Tracking
  /\ NoVersion \notin Version
  /\ NoWorker \notin Worker

VARIABLES
  status,      \* status[i]: intent row, "ABSENT" before it is inserted
  attempts,    \* attempts[i]: attempt_count
  account,     \* account[i]: account_id
  outcome,     \* outcome[i][n]: cotik_post_attempts row n of i, "none" if absent
  armed,       \* cotik_sync_enabled and cotik_post_enabled are both true
  deployment,  \* deployment_id of the settings row
  evidence,    \* evidence[i]: account resolveCotikTrackingInput resolves i to
  usable,      \* accounts that are ACTIVE, seen once and have a token in the vault
  call,        \* call[s]: what the staging call s is at, for which intent and account
  lock,        \* the holder of the advisory lock 'cotik_worker_cycle'
  verdict,     \* verdict[i][n]: what became of the POST of attempt n of i
  tracking,    \* tracking[o]: the tracking number COTIK holds for o
  faults       \* crashes and lost sessions so far

VARIABLES      \* what the cycle of worker w is at, one function of w each
  pc,          \* the step it is at
  todo,        \* what the running loop has still to visit
  kept,        \* what the running loop lets through
  later,       \* resolved intents of accounts to come
  cur,         \* the intent read back just now
  route,       \* route[w][i]: resolution.input.accountId
  seen,        \* seen[w][i]: attemptCount as last read
  conf,        \* confirmedOrders
  unconf,      \* unconfirmedOrders
  fail         \* failedOrders

VARIABLES      \* history, for the properties alone
  held,        \* held[o]: every tracking number COTIK ever held for o
  fresh,       \* fresh[w]: what was true since w's POST left the pacing queue
  armedUnder   \* the deployment id when the switches were last set ON

intentRows == <<status, attempts, account, outcome>>
settings   == <<armed, deployment, armedUnder>>
cotik      == <<verdict, tracking, held>>
plan       == <<later, route, seen>>
results    == <<conf, unconf, fail>>
cycles     == <<pc, todo, kept, cur, plan, results>>
routing    == <<evidence, usable, call>>
outside    == <<settings, routing, lock, cotik, fresh, faults>>
vars       == <<intentRows, cycles, outside>>

Status  == {"ABSENT", "PENDING", "IN_PROGRESS", "CONFIRMED", "FAILED", "ABORTED"}
Outcome == {"none", "SUCCESS", "HTTP_ERROR", "UNCONFIRMED"}
Verdict == {"unsent", "queued", "accepted", "rejected"}
Answered == {"accepted", "rejected"}
AttemptNo == 1..MaxAttempts

Pc == {"idle", "reset", "resetWrite", "gate", "syncOn", "syncOff", "recover",
       "fetch", "recovered", "resolve", "reroute", "rerouteSame", "rerouteOther",
       "hung", "account", "prepare", "settleYes", "settleNo", "recheck", "abort",
       "authorize", "pace", "beforePost", "evidence",
       "send", "await", "readback", "record"}

\* A staging call between two statements; it never names a replay row.
NoCall == [at |-> "idle", intent |-> NoIntent, account |-> NoAccount]
Calls == {NoCall} \cup
         [at : {"insert", "select", "update"},
          intent : {i \in Intent : SourceOf[i] = NoIntent}, account : Account]

NothingFresh == [on |-> FALSE, routed |-> {}]
NoRoute == [i \in Intent |-> NoAccount]
NoCount == [i \in Intent |-> 0]

RowsOK ==
  /\ status \in [Intent -> Status]
  /\ attempts \in [Intent -> 0..MaxAttempts]
  /\ account \in [Intent -> Account \cup {NoAccount}]
  /\ outcome \in [Intent -> [AttemptNo -> Outcome]]

CyclesOK ==
  /\ pc \in [Worker -> Pc]
  /\ todo \in [Worker -> SUBSET Intent]
  /\ kept \in [Worker -> SUBSET Intent]
  /\ cur \in [Worker -> Intent \cup {NoIntent}]
  /\ later \in [Worker -> SUBSET Intent]
  /\ route \in [Worker -> [Intent -> Account \cup {NoAccount}]]
  /\ seen \in [Worker -> [Intent -> 0..MaxAttempts]]
  /\ conf \in [Worker -> SUBSET Order]
  /\ unconf \in [Worker -> SUBSET Order]
  /\ fail \in [Worker -> SUBSET Order]

OutsideOK ==
  /\ armed \in BOOLEAN
  /\ deployment \in Version \cup {NoVersion}   \* the column is nullable
  /\ armedUnder \in Version \cup {NoVersion}
  /\ evidence \in [Intent -> Account \cup {NoAccount}]
  /\ usable \in SUBSET Account
  /\ call \in [Stager -> Calls]
  /\ lock \in Worker \cup {NoWorker}
  /\ verdict \in [Intent -> [AttemptNo -> Verdict]]
  /\ tracking \in [Order -> Tracking \cup {NoTracking}]
  /\ held \in [Order -> SUBSET Tracking]
  /\ fresh \in [Worker -> [on : BOOLEAN, routed : SUBSET Intent]]
  /\ faults \in 0..MaxFaults

\* Type invariant: what the columns, their CHECK constraints (attempt_count and
\* attempt_no within 0..max_attempts) and the cycle's local variables may hold.
TypeOK == RowsOK /\ CyclesOK /\ OutsideOK

\* A system in service whose settings row was last reset by OldVersion.
Init ==
  /\ status = [i \in Intent |-> "ABSENT"]
  /\ attempts = NoCount
  /\ account = NoRoute
  /\ outcome = [i \in Intent |-> [n \in AttemptNo |-> "none"]]
  /\ armed \in BOOLEAN
  /\ deployment = OldVersion
  /\ armedUnder = OldVersion
  /\ evidence \in [Intent -> Account]
  /\ usable = Account
  /\ call = [s \in Stager |-> NoCall]
  /\ lock = NoWorker
  /\ verdict = [i \in Intent |-> [n \in AttemptNo |-> "unsent"]]
  /\ tracking = [o \in Order |-> NoTracking]
  /\ held = [o \in Order |-> {}]
  /\ fresh = [w \in Worker |-> NothingFresh]
  /\ faults = 0
  /\ pc = [w \in Worker |-> "idle"]
  /\ todo = [w \in Worker |-> {}]
  /\ kept = [w \in Worker |-> {}]
  /\ later = [w \in Worker |-> {}]
  /\ cur = [w \in Worker |-> NoIntent]
  /\ route = [w \in Worker |-> NoRoute]
  /\ seen = [w \in Worker |-> NoCount]
  /\ conf = [w \in Worker |-> {}]
  /\ unconf = [w \in Worker |-> {}]
  /\ fail = [w \in Worker |-> {}]

-----------------------------------------------------------------------------
(* The queries on intents and attempts.                                    *)

\* createOrGetPostIntent is three statements: an INSERT, when the row exists a
\* SELECT, and when that shows a row never attempted a guarded UPDATE.
Unattempted(i) == status[i] = "PENDING" /\ attempts[i] = 0

InsertPostIntent(i, a) ==
  /\ status[i] = "ABSENT"
  /\ status' = [status EXCEPT ![i] = "PENDING"]
  /\ account' = [account EXCEPT ![i] = a]
  /\ UNCHANGED <<attempts, outcome>>

\* The UPDATE tests again what the SELECT saw.
RerouteUnattempted(i, a) ==
  /\ status[i] # "ABSENT"
  /\ account' = [account EXCEPT ![i] = IF Unattempted(i) THEN a ELSE @]
  /\ UNCHANGED <<status, attempts, outcome>>

\* recordPostAttempt throws unless the row is still at attempt n and open.
Recordable(i, n) ==
  n \in AttemptNo /\ attempts[i] = n /\ status[i] \notin {"CONFIRMED", "FAILED"}

StatusAfterOffByOne(n, how) ==                   \* mutant: > for >=
  CASE how = "confirmed" -> "CONFIRMED"
    [] how = "abort"     -> "ABORTED"
    [] how \notin {"confirmed", "abort"} ->
         IF n > MaxAttempts THEN "FAILED"
         ELSE IF how = "keep" THEN "IN_PROGRESS" ELSE "PENDING"

StatusAfterForgettingKeep(n, how) ==             \* mutant: keepInProgress ignored
  CASE how = "confirmed" -> "CONFIRMED"
    [] how = "abort"     -> "ABORTED"
    [] how \notin {"confirmed", "abort"} -> IF n >= MaxAttempts THEN "FAILED" ELSE "PENDING"

\* The status recordPostAttempt leaves, in the order of its tests.
StatusAfter(n, how) ==
  CASE how = "confirmed"                    -> "CONFIRMED"
    [] how = "abort"                        -> "ABORTED"
    [] how \notin {"confirmed", "abort"} ->
         IF n >= MaxAttempts THEN "FAILED"
         ELSE IF how = "keep" THEN "IN_PROGRESS" ELSE "PENDING"

\* recordPostAttempt: how is one of readbackConfirmed ("confirmed"), abort,
\* keepInProgress ("keep") or none of them ("retry").
RecordPostAttempt(i, n, out, how) ==
  /\ Recordable(i, n)
  /\ outcome' = [outcome EXCEPT ![i][n] = out]
  /\ status' = [status EXCEPT ![i] = StatusAfter(n, how)]
  /\ UNCHANGED <<attempts, account>>

\* The where clause of listPendingPostIntents.
Postable(i) == status[i] = "PENDING" /\ attempts[i] < MaxAttempts

\* listPendingPostIntents with reserve: one transaction over the rows of S.
ReservePostIntents(S) ==
  /\ status' = [i \in Intent |-> IF i \in S THEN "IN_PROGRESS" ELSE status[i]]
  /\ attempts' = [i \in Intent |-> IF i \in S THEN attempts[i] + 1 ELSE attempts[i]]
  /\ outcome' = [i \in Intent |-> [n \in AttemptNo |->
                   IF i \in S /\ n = attempts[i] + 1 THEN "UNCONFIRMED"
                                                     ELSE outcome[i][n]]]
  /\ UNCHANGED account

-----------------------------------------------------------------------------
(* Operators of the dashboard and the CLI, and the world outside.          *)

\* setCotikWorkflowSettings, from the CLI, the dashboard or auto_tracking stop.
SetSwitches(on) ==
  /\ armed # on
  /\ armed' = on
  /\ armedUnder' = IF on THEN deployment ELSE armedUnder
  /\ fresh' = [w \in Worker |->
       IF pc[w] \in {"beforePost", "evidence", "send"}
       THEN [fresh[w] EXCEPT !.on = @ \/ on] ELSE fresh[w]]
  /\ UNCHANGED <<intentRows, deployment, routing, lock, cycles, cotik, faults>>

\* stageCotikTracking, a transaction at READ COMMITTED: it resolves the input,
\* then calls createOrGetPostIntent with the account it resolved. It names no
\* run, so the row is never one of a replay run.
Staging(s, at) == call[s].at = at
Proceed(s, at) == call' = [call EXCEPT ![s].at = at]
Returns(s) == call' = [call EXCEPT ![s] = NoCall]

StageResolve(s, i) ==
  /\ Staging(s, "idle")
  /\ SourceOf[i] = NoIntent
  /\ evidence[i] # NoAccount
  /\ call' = [call EXCEPT ![s] = [at |-> "insert", intent |-> i, account |-> evidence[i]]]
  /\ UNCHANGED <<intentRows, settings, evidence, usable, lock, cycles, cotik, fresh, faults>>

StageInsert(s) ==
  /\ Staging(s, "insert")
  /\ \/ InsertPostIntent(call[s].intent, call[s].account) /\ Returns(s)
     \/ status[call[s].intent] # "ABSENT" /\ Proceed(s, "select") /\ UNCHANGED intentRows
  /\ UNCHANGED <<settings, evidence, usable, lock, cycles, cotik, fresh, faults>>

StageSelect(s) ==
  /\ Staging(s, "select")
  /\ IF Unattempted(call[s].intent) THEN Proceed(s, "update") ELSE Returns(s)
  /\ UNCHANGED <<intentRows, settings, evidence, usable, lock, cycles, cotik, fresh, faults>>

StageUpdate(s) ==
  /\ Staging(s, "update")
  /\ RerouteUnattempted(call[s].intent, call[s].account)
  /\ Returns(s)
  /\ UNCHANGED <<settings, evidence, usable, lock, cycles, cotik, fresh, faults>>

StageCotikTracking(s) ==
  \/ \E i \in Intent : StageResolve(s, i)
  \/ StageInsert(s) \/ StageSelect(s) \/ StageUpdate(s)

CreateForReplay(i) ==
  /\ \/ InsertPostIntent(i, account[SourceOf[i]])
     \/ RerouteUnattempted(i, account[SourceOf[i]])
  /\ UNCHANGED <<settings, routing, lock, cycles, cotik, fresh, faults>>

StageForReplayWhateverStatus(i) ==               \* mutant: source not checked
  /\ SourceOf[i] # NoIntent
  /\ status[SourceOf[i]] # "ABSENT"
  /\ CreateForReplay(i)

\* stageConfirmedPostIntentForReplay: the source row must be CONFIRMED, and stays
\* locked until the one write of createOrGetPostIntent is committed.
StageConfirmedForReplay(i) ==
  /\ SourceOf[i] # NoIntent
  /\ status[SourceOf[i]] = "CONFIRMED"
  /\ CreateForReplay(i)

ReopenWhateverStatus(i) ==                       \* mutant: also an open row
  /\ status[i] # "ABSENT"
  /\ attempts[i] < MaxAttempts
  /\ status' = [status EXCEPT ![i] = "PENDING"]
  /\ UNCHANGED <<attempts, account, outcome, settings, routing, lock, cycles,
                 cotik, fresh, faults>>

\* reopenPostIntentForReplay, the manual recovery of a closed row.
ReopenPostIntentForReplay(i) ==
  /\ status[i] \in {"CONFIRMED", "FAILED", "ABORTED"}
  /\ attempts[i] < MaxAttempts
  /\ status' = [status EXCEPT ![i] = "PENDING"]
  /\ UNCHANGED <<attempts, account, outcome, settings, routing, lock, cycles,
                 cotik, fresh, faults>>

\* Discovery, order sync or account administration changes what
\* resolveCotikTrackingInput answers for i: another account, or PAUSED.
EvidenceChanges(i, a) ==
  /\ evidence[i] # a
  /\ evidence' = [evidence EXCEPT ![i] = a]
  /\ fresh' = [w \in Worker |->
       IF pc[w] \in {"beforePost", "evidence", "send"} /\ a = route[w][i]
       THEN [fresh[w] EXCEPT !.routed = @ \cup {i}] ELSE fresh[w]]
  /\ UNCHANGED <<intentRows, settings, usable, call, lock, cycles, cotik, faults>>

\* An operator, discovery or order sync makes account a ACTIVE or not, or its
\* token appears in the vault or goes.
AccountChanges(a) ==
  /\ usable' = IF a \in usable THEN usable \ {a} ELSE usable \cup {a}
  /\ UNCHANGED <<intentRows, settings, evidence, call, lock, cycles, cotik, fresh, faults>>

\* Somebody types another tracking number into COTIK.
TrackedByHand(o) ==
  /\ tracking[o] # ForeignTracking
  /\ tracking' = [tracking EXCEPT ![o] = ForeignTracking]
  /\ held' = [held EXCEPT ![o] = @ \cup {ForeignTracking}]
  /\ UNCHANGED <<intentRows, settings, routing, lock, cycles, verdict, fresh, faults>>

\* COTIK reaches one item of a POST, however late, and applies or rejects it.
CotikApplies(i, n) ==
  /\ verdict[i][n] = "queued"
  /\ verdict' = [verdict EXCEPT ![i][n] = "accepted"]
  /\ tracking' = [tracking EXCEPT ![OrderOf[i]] = TrackingOf[i]]
  /\ held' = [held EXCEPT ![OrderOf[i]] = @ \cup {TrackingOf[i]}]
  /\ UNCHANGED <<intentRows, settings, routing, lock, cycles, fresh, faults>>

CotikRejects(i, n) ==
  /\ verdict[i][n] = "queued"
  /\ verdict' = [verdict EXCEPT ![i][n] = "rejected"]
  /\ UNCHANGED <<intentRows, settings, routing, lock, cycles, tracking, held,
                 fresh, faults>>
-----------------------------------------------------------------------------
(* runCotikWorkerCycle: the cycle up to the choice of an account.          *)

At(w, p) == pc[w] = p
Goto(w, p) == pc' = [pc EXCEPT ![w] = p]
Visit(w, S) == todo' = [todo EXCEPT ![w] = S]
Done(w, i) == Visit(w, todo[w] \ {i})
Keep(w, S) == kept' = [kept EXCEPT ![w] = S]
Current(w, i) == cur' = [cur EXCEPT ![w] = i]

Matches(i) == tracking[OrderOf[i]] = TrackingOf[i]

\* The attempt counts of the rows a listing returned.
Snapshot(w, S) ==
  seen' = [seen EXCEPT ![w] = [i \in Intent |-> IF i \in S THEN attempts[i] ELSE 0]]

Released(w) == IF lock = w THEN NoWorker ELSE lock

\* Everything the cycle holds is dropped but the intents of S.
Forget(w, S) ==
  /\ later' = [later EXCEPT ![w] = S]
  /\ route' = [route EXCEPT ![w] = [i \in Intent |-> IF i \in S THEN @[i] ELSE NoAccount]]
  /\ seen' = [seen EXCEPT ![w] = [i \in Intent |-> IF i \in S THEN @[i] ELSE 0]]
  /\ Visit(w, {})
  /\ Keep(w, {})
  /\ Current(w, NoIntent)
  /\ conf' = [conf EXCEPT ![w] = {}]
  /\ unconf' = [unconf EXCEPT ![w] = {}]
  /\ fail' = [fail EXCEPT ![w] = {}]

\* The cycle returns or throws, and its lock goes.
EndCycle(w) ==
  /\ Goto(w, "idle")
  /\ Forget(w, {})
  /\ lock' = Released(w)

\* Where a batch that is finished, paused or thrown away leaves the cycle.
NextAccount(w) == Goto(w, "account") /\ Forget(w, later[w])

\* withCotikCycleExecutionLock: try-lock; a busy lock ends the call (LOCKED).
StartCycle(w) ==
  /\ At(w, "idle")
  /\ lock = NoWorker
  /\ lock' = w
  /\ Goto(w, IF VersionOf[w] = NoVersion THEN "gate" ELSE "reset")
  /\ UNCHANGED <<intentRows, todo, kept, cur, plan, results, settings, routing,
                 cotik, fresh, faults>>

\* resetCotikWorkflowSettingsForDeployment reads, then writes if it differs.
ReadDeployment(w) ==
  /\ At(w, "reset")
  /\ Goto(w, IF deployment = VersionOf[w] THEN "gate" ELSE "resetWrite")
  /\ UNCHANGED <<intentRows, todo, kept, cur, plan, results, outside>>

ResetForDeploymentKeepingOn(w) ==                \* mutant: switches survive
  /\ At(w, "resetWrite")
  /\ deployment' = VersionOf[w]
  /\ Goto(w, "gate")
  /\ UNCHANGED <<intentRows, todo, kept, cur, plan, results, armed, armedUnder,
                 routing, lock, cotik, fresh, faults>>

ResetForDeployment(w) ==
  /\ At(w, "resetWrite")
  /\ armed' = FALSE
  /\ deployment' = VersionOf[w]
  /\ Goto(w, "gate")
  /\ UNCHANGED <<intentRows, todo, kept, cur, plan, results, armedUnder,
                 routing, lock, cotik, fresh, faults>>

\* The settings are read once, before discovery and the order sync.
ReadSettings(w) ==
  /\ At(w, "gate")
  /\ Goto(w, IF armed THEN "syncOn" ELSE "syncOff")
  /\ UNCHANGED <<intentRows, todo, kept, cur, plan, results, outside>>

\* Discovery and the order sync, whose effects are EvidenceChanges and
\* AccountChanges, are over: nothing to post if a switch was OFF before them.
EndSyncOff(w) ==
  /\ At(w, "syncOff")
  /\ EndCycle(w)
  /\ UNCHANGED <<intentRows, settings, routing, cotik, fresh, faults>>

ListInProgressWithinBudget(w) ==                 \* mutant: last attempts left out
  /\ At(w, "syncOn")
  /\ \E S \in Scopes :
       LET open == {i \in S : status[i] = "IN_PROGRESS" /\ attempts[i] < MaxAttempts} IN
       Visit(w, open) /\ Snapshot(w, open)
  /\ Goto(w, "recover")
  /\ UNCHANGED <<intentRows, kept, cur, later, route, results, outside>>

\* listInProgressPostIntents, on what the settings said before the sync.
ListInProgress(w) ==
  /\ At(w, "syncOn")
  /\ \E S \in Scopes :
       LET open == {i \in S : status[i] = "IN_PROGRESS"} IN
       Visit(w, open) /\ Snapshot(w, open)
  /\ Goto(w, "recover")
  /\ UNCHANGED <<intentRows, kept, cur, later, route, results, outside>>

\* One IN_PROGRESS intent: it is skipped while its account is unusable.
RecoverAccount(w, i) ==
  /\ At(w, "recover")
  /\ i \in todo[w]
  /\ Done(w, i)
  /\ IF account[i] \in usable THEN Goto(w, "fetch") /\ Current(w, i)
                             ELSE UNCHANGED <<pc, cur>>
  /\ UNCHANGED <<intentRows, kept, plan, results, outside>>

\* confirmOrderTrackingReadback says yes, ...
RecoverReadback(w, i) ==
  /\ At(w, "fetch")
  /\ cur[w] = i
  /\ Matches(i)
  /\ Goto(w, "recovered")
  /\ UNCHANGED <<intentRows, todo, kept, cur, plan, results, outside>>

\* ... or the GET fails, or the tracking differs.
RecoverMissed(w) ==
  /\ At(w, "fetch")
  /\ Goto(w, "recover")
  /\ Current(w, NoIntent)
  /\ UNCHANGED <<intentRows, todo, kept, plan, results, outside>>

\* A throw of recordPostAttempt here ends the whole cycle.
RecoverRecord(w) ==
  LET i == cur[w]
      n == seen[w][i] IN
  /\ At(w, "recovered")
  /\ \/ /\ RecordPostAttempt(i, n, "SUCCESS", "confirmed")
        /\ Goto(w, "recover")
        /\ Current(w, NoIntent)
        /\ UNCHANGED <<lock, todo, kept, plan, results>>
     \/ /\ ~Recordable(i, n)
        /\ EndCycle(w)
        /\ UNCHANGED intentRows
  /\ UNCHANGED <<settings, routing, cotik, fresh, faults>>

\* listPendingPostIntents without reserve.
ListPending(w) ==
  /\ At(w, "recover")
  /\ todo[w] = {}
  /\ \E S \in Scopes :
       LET pending == {i \in S : Postable(i)} IN
       /\ Visit(w, pending)
       /\ Snapshot(w, pending)
       /\ route' = [route EXCEPT
            ![w] = [i \in Intent |-> IF i \in pending THEN account[i] ELSE NoAccount]]
  /\ Goto(w, "resolve")
  /\ UNCHANGED <<intentRows, kept, cur, later, results, outside>>

\* The intent i drops out of the plan of w.
DropRoute(w, i) ==
  /\ route' = [route EXCEPT ![w][i] = NoAccount]
  /\ seen' = [seen EXCEPT ![w][i] = 0]

\* An intent whose account is confirmed stays; one that was not attempted when
\* it was listed may be rerouted.
ResolveIntent(w, i) ==
  LET a == evidence[i] IN
  /\ At(w, "resolve")
  /\ i \in todo[w]
  /\ \/ /\ a # NoAccount /\ a = route[w][i]
        /\ Done(w, i)
        /\ later' = [later EXCEPT ![w] = @ \cup {i}]
        /\ UNCHANGED <<pc, cur, route, seen>>
     \/ /\ a # NoAccount /\ a # route[w][i] /\ seen[w][i] = 0
        /\ Goto(w, "reroute")
        /\ Current(w, i)
        /\ route' = [route EXCEPT ![w][i] = a]
        /\ UNCHANGED <<todo, later, seen>>
     \/ /\ a = NoAccount \/ (a # route[w][i] /\ seen[w][i] # 0)
        /\ Done(w, i)
        /\ DropRoute(w, i)
        /\ UNCHANGED <<pc, cur, later>>
  /\ UNCHANGED <<intentRows, kept, results, outside>>

\* createOrGetPostIntent of the cycle, statement by statement: the INSERT meets
\* the row, the SELECT reads it, ...
RerouteSelect(w, i) ==
  /\ At(w, "reroute")
  /\ i \in todo[w] /\ cur[w] = i
  /\ \/ /\ Unattempted(i)
        /\ Goto(w, IF account[i] = route[w][i] THEN "rerouteSame" ELSE "rerouteOther")
        /\ UNCHANGED <<todo, cur, route, seen>>
     \/ /\ ~Unattempted(i)
        /\ Goto(w, "resolve")
        /\ Current(w, NoIntent)
        /\ Done(w, i)
        /\ DropRoute(w, i)
  /\ UNCHANGED <<intentRows, kept, later, results, outside>>

\* ... and the UPDATE writes. If it finds the row attempted, the row that the
\* SELECT read is returned, and passes if it named this account.
RerouteUpdate(w, i) ==
  /\ pc[w] \in {"rerouteSame", "rerouteOther"}
  /\ i \in todo[w] /\ cur[w] = i
  /\ RerouteUnattempted(i, route[w][i])
  /\ Goto(w, "resolve")
  /\ Current(w, NoIntent)
  /\ Done(w, i)
  /\ IF Unattempted(i) \/ At(w, "rerouteSame")
     THEN later' = [later EXCEPT ![w] = @ \cup {i}] /\ UNCHANGED <<route, seen>>
     ELSE DropRoute(w, i) /\ UNCHANGED later
  /\ UNCHANGED <<kept, results, outside>>

EndResolve(w) ==
  /\ At(w, "resolve")
  /\ todo[w] = {}
  /\ NextAccount(w)
  /\ UNCHANGED <<intentRows, outside>>

\* The next account; one whose token is missing from the vault is skipped.
PickAccount(w, a) ==
  LET group == {i \in later[w] : route[w][i] = a} IN
  /\ At(w, "account")
  /\ group # {}
  /\ later' = [later EXCEPT ![w] = @ \ group]
  /\ \/ Goto(w, "prepare") /\ Visit(w, group)
     \/ UNCHANGED <<pc, todo>>
  /\ UNCHANGED <<intentRows, kept, cur, route, seen, results, outside>>

FinishCycle(w) ==
  /\ At(w, "account")
  /\ later[w] = {}
  /\ EndCycle(w)
  /\ UNCHANGED <<intentRows, settings, routing, cotik, fresh, faults>>

-----------------------------------------------------------------------------
(* The batch of one account: preflight, reservation, guards, POST,         *)
(* readback, records.                                                      *)

LastOutcome(i) == IF attempts[i] = 0 THEN "none" ELSE outcome[i][attempts[i]]

\* The previous attempt is uncertain: read back before anything else.
ReadbackPrevious(w, i) ==
  /\ At(w, "prepare")
  /\ i \in todo[w]
  /\ LastOutcome(i) = "UNCONFIRMED"
  /\ \/ Matches(i) /\ Goto(w, "settleYes")
     \/ Goto(w, "settleNo")
  /\ Current(w, i)
  /\ Done(w, i)
  /\ UNCHANGED <<intentRows, kept, plan, results, outside>>

SettlePrevious(w) ==
  LET i == cur[w]
      n == seen[w][i] IN
  /\ \/ /\ \/ At(w, "settleYes") /\ RecordPostAttempt(i, n, "SUCCESS", "confirmed")
           \/ At(w, "settleNo") /\ RecordPostAttempt(i, n, "UNCONFIRMED", "keep")
        /\ Goto(w, "prepare")
        /\ Current(w, NoIntent)
        /\ UNCHANGED <<todo, kept, plan, results>>
     \/ /\ pc[w] \in {"settleYes", "settleNo"}
        /\ ~Recordable(i, n)
        /\ NextAccount(w)
        /\ UNCHANGED intentRows
  /\ UNCHANGED outside

\* checkOrderTrackingReady: COTIK holds no tracking or this one; an order in
\* another status and a failed GET are not ready either.
CheckReady(w, i) ==
  /\ At(w, "prepare")
  /\ i \in todo[w]
  /\ LastOutcome(i) # "UNCONFIRMED"
  /\ Done(w, i)
  /\ \/ /\ tracking[OrderOf[i]] = NoTracking \/ Matches(i)
        /\ Keep(w, kept[w] \cup {i})
     \/ UNCHANGED kept
  /\ UNCHANGED <<intentRows, pc, cur, plan, results, outside>>

\* Transactions are atomic here, so no row is ever skipped as locked.
Reserve(w) ==
  LET S == {i \in kept[w] : Postable(i)} IN
  /\ At(w, "prepare")
  /\ todo[w] = {}
  /\ \/ /\ S = {}
        /\ NextAccount(w)
        /\ UNCHANGED intentRows
     \/ /\ S # {}
        /\ ReservePostIntents(S)
        /\ Goto(w, "recheck")
        /\ Visit(w, S)
        /\ Keep(w, {})
        /\ seen' = [seen EXCEPT
             ![w] = [i \in Intent |-> IF i \in S THEN attempts[i] + 1 ELSE @[i]]]
        /\ UNCHANGED <<cur, later, route, results>>
  /\ UNCHANGED outside

\* A record of this batch; a throw of recordPostAttempt pauses the batch.
RecordOrPause(w, i, out, how) ==
  LET n == seen[w][i] IN
  \/ /\ RecordPostAttempt(i, n, out, how)
     /\ Done(w, i)
     /\ UNCHANGED <<pc, kept, cur, plan, results>>
  \/ /\ ~Recordable(i, n)
     /\ NextAccount(w)
     /\ UNCHANGED intentRows

\* Each reserved intent is resolved again; a changed one is aborted.
Recheck(w, i) ==
  /\ At(w, "recheck")
  /\ i \in todo[w]
  /\ \/ /\ evidence[i] = route[w][i]
        /\ Done(w, i)
        /\ Keep(w, kept[w] \cup {i})
        /\ UNCHANGED <<intentRows, pc, cur, plan, results>>
     \/ /\ evidence[i] # route[w][i]
        /\ RecordOrPause(w, i, "UNCONFIRMED", "abort")
  /\ UNCHANGED outside

\* Nothing left to post, the switches still ON, or OFF.
Guard(w) ==
  /\ At(w, "recheck")
  /\ todo[w] = {}
  /\ \/ kept[w] = {} /\ NextAccount(w)
     \/ /\ kept[w] # {}
        /\ \/ armed /\ Goto(w, "authorize") /\ UNCHANGED todo
           \/ ~armed /\ Goto(w, "abort") /\ Visit(w, kept[w])
        /\ UNCHANGED <<kept, cur, plan, results>>
  /\ UNCHANGED <<intentRows, outside>>

AbortReserved(w, i) ==
  /\ At(w, "abort")
  /\ i \in todo[w]
  /\ RecordOrPause(w, i, "UNCONFIRMED", "abort")
  /\ UNCHANGED outside

\* postCotikTrackingBatch: isPostAuthorized; OFF or unreadable refuses.
Authorize(w) ==
  /\ At(w, "authorize")
  /\ \/ armed /\ Goto(w, "pace") /\ UNCHANGED todo
     \/ Goto(w, "record") /\ Visit(w, kept[w])
  /\ UNCHANGED <<intentRows, kept, cur, plan, results, outside>>

\* The token's request slot comes up.
Paced(w) ==
  /\ At(w, "pace")
  /\ Goto(w, "beforePost")
  /\ fresh' = [fresh EXCEPT ![w] =
       [on |-> armed,
        routed |-> {i \in kept[w] : evidence[i] = route[w][i]}]]
  /\ UNCHANGED <<intentRows, todo, kept, cur, plan, results, settings, routing,
                 lock, cotik, faults>>

BeforePostUnguarded(w) ==                        \* mutant: switches not re-read
  /\ At(w, "beforePost")
  /\ Goto(w, "evidence")
  /\ Visit(w, kept[w])
  /\ UNCHANGED <<intentRows, kept, cur, plan, results, outside>>

\* The beforePost hook: the switches, then the evidence of every intent.
BeforePost(w) ==
  /\ At(w, "beforePost")
  /\ armed
  /\ Goto(w, "evidence")
  /\ Visit(w, kept[w])
  /\ UNCHANGED <<intentRows, kept, cur, plan, results, outside>>

BeforePostEvidence(w, i) ==
  /\ At(w, "evidence")
  /\ i \in todo[w]
  /\ evidence[i] = route[w][i]
  /\ Done(w, i)
  /\ Goto(w, IF todo[w] = {i} THEN "send" ELSE "evidence")
  /\ UNCHANGED <<intentRows, kept, cur, plan, results, outside>>

Send(w) ==
  /\ At(w, "send")
  /\ Goto(w, "await")
  /\ verdict' = [i \in Intent |-> [n \in AttemptNo |->
       IF i \in kept[w] /\ n = seen[w][i] THEN "queued" ELSE verdict[i][n]]]
  /\ fresh' = [fresh EXCEPT ![w] = NothingFresh]
  /\ UNCHANGED <<intentRows, todo, kept, cur, plan, results, settings, routing,
                 lock, tracking, held, faults>>

\* Whatever makes the POST throw, every item of the batch is read back.
ReadBackAll(w) ==
  /\ Goto(w, "readback")
  /\ Visit(w, kept[w])
  /\ fail' = [fail EXCEPT ![w] = {OrderOf[i] : i \in kept[w]}]
  /\ fresh' = [fresh EXCEPT ![w] = NothingFresh]
  /\ UNCHANGED <<intentRows, kept, cur, plan, conf, unconf, settings, routing,
                 lock, cotik>>

\* The hook throws COTIK_DISPATCH_DISABLED or COTIK_DISPATCH_EVIDENCE_CHANGED.
BeforePostThrows(w) ==
  /\ \/ At(w, "beforePost") /\ ~armed
     \/ At(w, "evidence") /\ \E i \in todo[w] : evidence[i] # route[w][i]
  /\ ReadBackAll(w)
  /\ UNCHANGED faults

PostThrowsAborting(w) ==                         \* mutant: a throw taken as not sent
  /\ At(w, "await")
  /\ Goto(w, "abort")
  /\ Visit(w, kept[w])
  /\ UNCHANGED <<intentRows, kept, cur, plan, results, outside>>

\* Transport error, no headers within the 30 s of timedFetch, or an error answer.
PostThrows(w) == At(w, "await") /\ ReadBackAll(w) /\ UNCHANGED faults

\* The answer names the rejected orders in logUpdate; the others are read back.
PostAnswered(w) ==
  LET rejected == {OrderOf[i] : i \in {j \in kept[w] : verdict[j][seen[w][j]] = "rejected"}} IN
  /\ At(w, "await")
  /\ \A i \in kept[w] : verdict[i][seen[w][i]] \in Answered
  /\ Goto(w, "readback")
  /\ fail' = [fail EXCEPT ![w] = rejected]
  /\ Visit(w, {i \in kept[w] : OrderOf[i] \notin rejected})
  /\ UNCHANGED <<intentRows, kept, cur, plan, conf, unconf, outside>>

\* confirmOrderTrackingReadback: any error counts as not confirmed.
Readback(w, i) ==
  /\ At(w, "readback")
  /\ i \in todo[w]
  /\ Done(w, i)
  /\ \/ /\ Matches(i)
        /\ conf' = [conf EXCEPT ![w] = @ \cup {OrderOf[i]}]
        /\ UNCHANGED unconf
     \/ /\ unconf' = [unconf EXCEPT ![w] = @ \cup {OrderOf[i]}]
        /\ UNCHANGED conf
  /\ UNCHANGED <<intentRows, pc, kept, cur, plan, fail, outside>>

EndReadback(w) ==
  /\ At(w, "readback")
  /\ todo[w] = {}
  /\ Goto(w, "record")
  /\ Visit(w, kept[w])
  /\ UNCHANGED <<intentRows, kept, cur, plan, results, outside>>

ConfirmedUnlessUncertain(w, i) == OrderOf[i] \notin unconf[w]           \* mutant

\* The result sets hold order ids, not intents.
Confirmed(w, i) == OrderOf[i] \in conf[w]
Failed(w, i)    == OrderOf[i] \in fail[w]
Uncertain(w, i) == OrderOf[i] \in unconf[w] \/ ~Failed(w, i)

RecordResult(w, i) ==
  /\ At(w, "record")
  /\ i \in todo[w]
  /\ \/ /\ Confirmed(w, i)
        /\ RecordOrPause(w, i, "SUCCESS", "confirmed")
     \/ /\ ~Confirmed(w, i)
        /\ RecordOrPause(w, i, IF Failed(w, i) THEN "HTTP_ERROR" ELSE "UNCONFIRMED",
                               IF Uncertain(w, i) THEN "keep" ELSE "retry")
  /\ UNCHANGED outside

EndBatch(w) ==
  /\ pc[w] \in {"abort", "record"}
  /\ todo[w] = {}
  /\ NextAccount(w)
  /\ UNCHANGED <<intentRows, outside>>

-----------------------------------------------------------------------------
(* Faults, bounded by MaxFaults.                                           *)

Fault == faults < MaxFaults /\ faults' = faults + 1

\* The process dies; its session goes and the advisory lock with it.
Crash(w) ==
  /\ ~At(w, "idle")
  /\ Fault
  /\ EndCycle(w)
  /\ fresh' = [fresh EXCEPT ![w] = NothingFresh]
  /\ UNCHANGED <<intentRows, settings, routing, cotik>>

\* Headers that are followed by no body: timedFetch has cleared its timer, and
\* response.json() waits for ever. Between two cycles a daemon's loop awaits the
\* refresh pass, whose page fetches have no deadline either.
Hang(w) ==
  /\ \/ pc[w] \in {"syncOn", "syncOff", "fetch", "prepare", "await", "readback"}
     \/ At(w, "idle") /\ VersionOf[w] # NoVersion
  /\ Goto(w, "hung")
  /\ Forget(w, {})
  /\ UNCHANGED <<intentRows, outside>>

\* The reserved connection is lost while the cycle goes on over the pool.
LoseLockSession(w) ==
  /\ lock = w
  /\ Fault
  /\ lock' = NoWorker
  /\ UNCHANGED <<intentRows, cycles, settings, routing, cotik, fresh>>

\* A statement of the batch fails in the database: the batch is paused, or,
\* in the beforePost hook, the POST throws.
StatementFails(w) ==
  /\ Fault
  /\ \/ /\ pc[w] \in {"prepare", "settleYes", "settleNo", "recheck", "abort", "record"}
        /\ NextAccount(w)
        /\ UNCHANGED <<intentRows, settings, routing, lock, cotik, fresh>>
     \/ pc[w] \in {"beforePost", "evidence"} /\ ReadBackAll(w)

-----------------------------------------------------------------------------
CycleStep(w) ==
  \/ ReadDeployment(w) \/ ResetForDeployment(w) \/ ReadSettings(w)
  \/ EndSyncOff(w) \/ ListInProgress(w) \/ RecoverMissed(w) \/ RecoverRecord(w)
  \/ ListPending(w) \/ EndResolve(w) \/ FinishCycle(w)
  \/ SettlePrevious(w) \/ Reserve(w) \/ Guard(w) \/ Authorize(w) \/ Paced(w)
  \/ BeforePost(w) \/ BeforePostThrows(w) \/ Send(w) \/ PostThrows(w) \/ PostAnswered(w)
  \/ EndReadback(w) \/ EndBatch(w)
  \/ \E i \in Intent :
       \/ RecoverAccount(w, i) \/ RecoverReadback(w, i) \/ ResolveIntent(w, i)
       \/ RerouteSelect(w, i) \/ RerouteUpdate(w, i)
       \/ ReadbackPrevious(w, i) \/ CheckReady(w, i) \/ Recheck(w, i)
       \/ AbortReserved(w, i) \/ BeforePostEvidence(w, i) \/ Readback(w, i)
       \/ RecordResult(w, i)
  \/ \E a \in Account : PickAccount(w, a)

World ==
  \/ \E on \in BOOLEAN : SetSwitches(on)
  \/ \E s \in Stager : StageCotikTracking(s)
  \/ \E i \in Intent : StageConfirmedForReplay(i) \/ ReopenPostIntentForReplay(i)
  \/ \E i \in Intent, a \in Account \cup {NoAccount} : EvidenceChanges(i, a)
  \/ \E a \in Account : AccountChanges(a)
  \/ \E o \in Order : TrackedByHand(o)
  \/ \E i \in Intent, n \in AttemptNo : CotikApplies(i, n) \/ CotikRejects(i, n)

Next ==
  \/ World
  \/ \E w \in Worker : \/ StartCycle(w) \/ CycleStep(w)
                       \/ Hang(w) \/ Crash(w) \/ LoseLockSession(w) \/ StatementFails(w)

Spec == Init /\ [][Next]_vars

\* A cycle goes on unless it hangs; the scheduler starts one every 30 s while
\* the loop of the worker turns, and a GET repeated for ever once succeeds. CLI
\* runs, staging, operators, COTIK, bodies that never come and faults are not fair.
Daemons == {w \in Worker : VersionOf[w] # NoVersion}

FairSpec ==
  /\ Spec
  /\ \A w \in Worker : WF_vars(CycleStep(w))
  /\ \A w \in Daemons : /\ SF_vars(StartCycle(w))
                        /\ \A i \in Intent : SF_vars(RecoverReadback(w, i))

-----------------------------------------------------------------------------
(* Safety.                                                                 *)

\* Intents are staged with one tracking number per order.
OneTrackingPerOrder ==
  \A i, j \in Intent : OrderOf[i] = OrderOf[j] => TrackingOf[i] = TrackingOf[j]

\* The attempts of i account for its attempt_count and explain its status.
Explained(i) ==
  /\ \A n \in AttemptNo : outcome[i][n] = "none" <=> n > attempts[i]
  /\ status[i] = "ABSENT"      => attempts[i] = 0
  /\ status[i] = "PENDING"     => attempts[i] < MaxAttempts
  /\ status[i] = "IN_PROGRESS" => LastOutcome(i) \in {"UNCONFIRMED", "HTTP_ERROR"}
  /\ status[i] = "ABORTED"     => LastOutcome(i) = "UNCONFIRMED"
  /\ status[i] = "CONFIRMED"   => LastOutcome(i) = "SUCCESS"
  /\ status[i] = "FAILED"      => /\ attempts[i] = MaxAttempts
                                 /\ LastOutcome(i) \in {"UNCONFIRMED", "HTTP_ERROR"}

\* The rows of cotik_post_attempts account for attempt_count and explain the
\* status, and no row is left PENDING with its budget spent, where
\* listPendingPostIntents would never see it again.
Ledger == \A i \in Intent : Explained(i)

\* An ABORTED attempt never reached the wire, whatever crashes, lost lock
\* sessions and overlapping cycles came between its reservation and its abort.
AbortedWasNeverSent ==
  \A i \in Intent : status[i] = "ABORTED" => verdict[i][attempts[i]] = "unsent"

\* A row is CONFIRMED only if COTIK really held its tracking number once.
ConfirmedWasHeld ==
  \A i \in Intent : status[i] = "CONFIRMED" => TrackingOf[i] \in held[OrderOf[i]]

\* A replay row exists only for a tracking number COTIK did hold.
ReplayedOnlyIfHeld ==
  \A i \in Intent : status[i] # "ABSENT" /\ SourceOf[i] # NoIntent
                     => TrackingOf[i] \in held[OrderOf[i]]

\* A POST goes out under the account its row names: "persists a changed winner
\* before reserving an untouched intent" (cotik-cycle.test.ts).
PostedUnderItsAccount ==
  \A w \in Worker, i \in Intent : At(w, "send") /\ i \in kept[w]
                                     => account[i] = route[w][i]

\* The beforePost hook: at the moment of sending, the switches were ON and the
\* evidence named this account at some instant after the pacing wait.
SentOnFreshEvidence ==
  \A w \in Worker : At(w, "send") => /\ fresh[w].on
                                    /\ kept[w] \subseteq fresh[w].routed

\* A new deployment posts nothing on switches that were set before it.
RearmedForDeployment ==
  \A w \in Worker : At(w, "send") /\ VersionOf[w] \notin {NoVersion, OldVersion}
                     => armedUnder # OldVersion

(* What the pipeline promises of its intents, whoever runs it: the module  *)
(* TrackingContract, read off the rows and off what COTIK received.        *)

Contract == INSTANCE TrackingContract WITH
  tries   <- attempts,
  sent    <- [i \in Intent |-> {n \in AttemptNo : verdict[i][n] # "unsent"}],
  open    <- [i \in Intent |-> {n \in AttemptNo : verdict[i][n] = "queued"}],
  refused <- [i \in Intent |-> {n \in AttemptNo : verdict[i][n] = "rejected"}],
  landed  <- {i \in Intent : TrackingOf[i] \in held[OrderOf[i]]}

RowsStand == UNCHANGED <<status, attempts, verdict, held>>

\* Whatever batches and overlapping cycles do, every step of the pipeline
\* (cotik-cycle.ts) is one the contract allows, or changes nothing the contract
\* speaks of. This is Contract!Spec, with the stuttering of most steps named so
\* that TLC sees it by a disjunct of its own.
ImplementsContract ==
  /\ Contract!Init
  /\ [][RowsStand \/ Contract!Next]_(Contract!vars)

(* Action properties.                                                      *)

\* An attempt is sent at most once, and not while an earlier attempt of the
\* same intent may still take effect at COTIK, except for a number COTIK has
\* held already (a CONFIRMED row reopened by hand).
SentOnceAndSettled ==
  [][\A i \in Intent, n \in AttemptNo :
       verdict[i][n] # "queued" /\ verdict'[i][n] = "queued" =>
         /\ verdict[i][n] = "unsent"
         /\ \/ \A m \in AttemptNo : m < n => verdict[i][m] # "queued"
            \/ TrackingOf[i] \in held[OrderOf[i]]]_vars

(* Liveness, under FairSpec.                                               *)

\* A POST that landed but was not confirmed is recovered by a later cycle, for
\* as long as nothing stands in its way that the code leaves to people: a switch
\* turned off, the number replaced in COTIK, the account of its row not ACTIVE or
\* without a token, or a worker waiting for a body that never comes. (The listing
\* takes the 50 rows attempted longest ago: a row it reaches.)
LandedIsRecovered ==
  \A i \in Intent :
    status[i] = "IN_PROGRESS" /\ Matches(i)
      ~> \/ status[i] # "IN_PROGRESS" \/ ~Matches(i)
         \/ ~armed \/ account[i] \notin usable \/ \E w \in Worker : At(w, "hung")
=============================================================================
