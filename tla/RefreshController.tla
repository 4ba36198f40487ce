-------------------------- MODULE RefreshController --------------------------
(***************************************************************************)
(* The automatic refresh of shops: checkpoint runs, their attempts and     *)
(* claim leases in PostgreSQL (packages/db/src/queries/                    *)
(* refresh-controller.ts), the pass of a worker over the runs it claimed   *)
(* (apps/worker/src/index.ts, refresh-controller-loop.ts), the schedule    *)
(* (packages/domain/src/refresh-controller.ts) and the per-profile         *)
(* execution lock (packages/db/src/locks.ts).                              *)
(*                                                                         *)
(* Time is a global clock in ticks; a worker acts on the instant it read   *)
(* last, which may be long past. One action is one transaction, one lock   *)
(* call or one stretch of browser work.                                    *)
(***************************************************************************)
EXTENDS Integers, Sequences, FiniteSets

CONSTANTS
  Worker,       \* worker processes
  Shop,         \* shops, each with its AdsPower profile
  Checkpoint,   \* rows of refresh_checkpoints
  Date,         \* business dates, numbered from 0
  Day,          \* ticks of a business date
  Lease,        \* REFRESH_CLAIM_LEASE_MS in ticks
  Policies,     \* the retry offset sequences the settings may hold
  LocalTimes,   \* the times of day a checkpoint may be set to
  FirstTime,    \* [Checkpoint -> LocalTimes]: their times at the start
  Token,        \* claim tokens (uuids), reused when nothing holds them
  Horizon,      \* bound: the last tick of the clock
  MaxEdits,     \* bound: changes of settings, checkpoints and eligibility
  FaultKinds,   \* which of "crash", "session" and "statement" may go wrong
  MaxFaults,    \* bound: how many of these in one behaviour
  NoToken, NoWorker, NoRun

Run == [shop : Shop, checkpoint : Checkpoint, date : Date]

ASSUME RefreshConstants ==
  /\ Date \subseteq Nat
  /\ Day \in Nat \ {0}
  /\ Lease \in Nat \ {0}
  /\ Policies \subseteq Seq(Nat)
  /\ \A p \in Policies : Len(p) > 0
  /\ LocalTimes \subseteq 0..(Day - 1)
  /\ FirstTime \in [Checkpoint -> LocalTimes]
  /\ \A c, d \in Checkpoint : FirstTime[c] = FirstTime[d] => c = d
  /\ Horizon \in Nat
  /\ MaxEdits \in Nat
  /\ MaxFaults \in Nat
  /\ NoToken \notin Token
  /\ NoWorker \notin Worker
  /\ NoRun \notin Run

VARIABLES        \* refresh_checkpoint_runs
  status,        \* status[r], "ABSENT" before it is inserted
  offsets,       \* offsets[r]: retry_offsets_seconds, the snapshot of the settings
  start,         \* start[r]: cycle_started_at
  count,         \* count[r]: attempt_count
  nextAt,        \* nextAt[r]: next_attempt_at, -1 for null
  claimedAt,     \* claimedAt[r]: claimed_at, -1 for null
  token          \* token[r]: claim_token

VARIABLES        \* refresh_checkpoint_attempts
  attempt,       \* attempt[r]: the statuses of its attempts, by number
  attemptToken   \* attemptToken[r]: their claim tokens

VARIABLES        \* settings and the world
  auto,          \* auto_refresh_enabled
  policy,        \* retry_offsets_seconds of the settings row
  enabled,       \* the checkpoints that are enabled
  localTime,     \* localTime[c]
  eligible,      \* the shops eligible for automatic refresh
  lock,          \* lock[s]: holder of the execution lock of s's profile
  time,          \* the clock
  edits, faults  \* how much of the bounds is used

VARIABLES        \* a worker's pass
  pc,            \* the step worker w is at
  now,           \* now[w]: the instant its loop read, -1 between passes
  shops,         \* shops[w]: the shops its loop read as eligible
  claim,         \* claim[w][r]: the token of a claimed run still to be visited
  cur,           \* the run being executed
  result,        \* outcome of that execution
  beat           \* beat[w]: a lease renewal under way, or NoBeat

VARIABLE
  refreshed      \* history: attempts whose browser work succeeded, <<r, n>>

runRow     == <<status, offsets, start, count, nextAt, claimedAt, token>>
attemptRow == <<attempt, attemptToken>>
rows       == <<runRow, attemptRow>>
settings   == <<auto, policy, enabled, localTime, eligible>>
pass       == <<pc, now, shops, claim, cur, result>>
bounds     == <<edits, faults>>
vars       == <<rows, settings, lock, time, bounds, pass, beat, refreshed>>

Status == {"ABSENT", "RETRY_WAIT", "RUNNING", "SUCCEEDED", "FAILED_EXHAUSTED"}
Final  == {"SUCCEEDED", "FAILED_EXHAUSTED"}
AttemptStatus == {"RUNNING", "SUCCEEDED", "FAILED"}
Pc == {"idle", "claim", "next", "release", "start", "renew", "preflight",
       "execute", "complete", "unlock", "unwind"}

NoClaims == [r \in Run |-> NoToken]
NoBeat == [run |-> NoRun, token |-> NoToken, at |-> -1]
Instant == -1..Horizon

\* Type invariant: the columns, the CHECK that attempt_count never passes the
\* number of retry offsets, and the locals of the loop. No claim is dated in the
\* future, where its lease would outlive the worker by more than a lease.
TypeOK ==
  /\ status \in [Run -> Status]
  /\ offsets \in [Run -> Policies \cup {<<>>}]
  /\ start \in [Run -> Int]
  /\ count \in [Run -> Nat] /\ \A r \in Run : count[r] <= Len(offsets[r])
  /\ nextAt \in [Run -> Int]
  /\ claimedAt \in [Run -> -1..time]
  /\ token \in [Run -> Token \cup {NoToken}]
  /\ attempt \in [Run -> Seq(AttemptStatus)]
  /\ attemptToken \in [Run -> Seq(Token)]
  /\ auto \in BOOLEAN /\ policy \in Policies
  /\ enabled \subseteq Checkpoint /\ localTime \in [Checkpoint -> LocalTimes]
  /\ eligible \subseteq Shop
  /\ lock \in [Shop -> Worker \cup {NoWorker}]
  /\ time \in 0..Horizon
  /\ edits \in 0..MaxEdits /\ faults \in 0..MaxFaults
  /\ pc \in [Worker -> Pc]
  /\ now \in [Worker -> Instant]
  /\ shops \in [Worker -> SUBSET Shop]
  /\ claim \in [Worker -> [Run -> Token \cup {NoToken}]]
  /\ cur \in [Worker -> Run \cup {NoRun}]
  /\ result \in [Worker -> {"SUCCESS", "FAILURE"}]
  /\ beat \in [Worker -> [run : Run \cup {NoRun}, token : Token \cup {NoToken}, at : Instant]]
  /\ refreshed \subseteq Run \X Nat

Init ==
  /\ status = [r \in Run |-> "ABSENT"]
  /\ offsets = [r \in Run |-> <<>>]
  /\ start = [r \in Run |-> -1]
  /\ count = [r \in Run |-> 0]
  /\ nextAt = [r \in Run |-> -1]
  /\ claimedAt = [r \in Run |-> -1]
  /\ token = [r \in Run |-> NoToken]
  /\ attempt = [r \in Run |-> <<>>]
  /\ attemptToken = [r \in Run |-> <<>>]
  /\ auto = TRUE /\ policy \in Policies
  /\ enabled = Checkpoint /\ localTime = FirstTime
  /\ eligible = Shop
  /\ lock = [s \in Shop |-> NoWorker]
  /\ time = 0 /\ edits = 0 /\ faults = 0
  /\ pc = [w \in Worker |-> "idle"]
  /\ now = [w \in Worker |-> -1]
  /\ shops = [w \in Worker |-> {}]
  /\ claim = [w \in Worker |-> NoClaims]
  /\ cur = [w \in Worker |-> NoRun]
  /\ result = [w \in Worker |-> "FAILURE"]
  /\ beat = [w \in Worker |-> NoBeat]
  /\ refreshed = {}

-----------------------------------------------------------------------------
(* The clock, the settings, the eligibility of shops.                      *)

Tick ==
  /\ time < Horizon
  /\ time' = time + 1
  /\ UNCHANGED <<rows, settings, lock, bounds, pass, beat, refreshed>>

Edit == /\ edits < MaxEdits
        /\ edits' = edits + 1
        /\ UNCHANGED <<rows, lock, time, faults, pass, beat, refreshed>>

SetAutoRefreshEnabled ==
  /\ Edit
  /\ auto' = ~auto
  /\ UNCHANGED <<policy, enabled, localTime, eligible>>

SetRefreshRetryOffsets ==
  /\ Edit
  /\ policy' \in Policies \ {policy}
  /\ UNCHANGED <<auto, enabled, localTime, eligible>>

SetRefreshCheckpointEnabled(c) ==
  /\ Edit
  /\ enabled' = IF c \in enabled THEN enabled \ {c} ELSE enabled \cup {c}
  /\ UNCHANGED <<auto, policy, localTime, eligible>>

UpdateRefreshCheckpoint(c) ==
  /\ Edit
  /\ \E t \in LocalTimes \ {localTime[d] : d \in Checkpoint} :      \* a unique column
       localTime' = [localTime EXCEPT ![c] = t]
  /\ UNCHANGED <<auto, policy, enabled, eligible>>

\* Verification, sync state or an observed status that ages.
EligibilityChanges(s) ==
  /\ Edit
  /\ eligible' = IF s \in eligible THEN eligible \ {s} ELSE eligible \cup {s}
  /\ UNCHANGED <<auto, policy, enabled, localTime>>

-----------------------------------------------------------------------------
(* The queries.                                                            *)

DateOf(t) == t \div Day                     \* getBangkokBusinessDate
Due(c, t) == c \in enabled /\ localTime[c] <= t % Day
CheckpointInstant(r) == r.date * Day + localTime[r.checkpoint]

\* nextAttemptAt: the instant of the attempt after count[r], if there is one.
Remaining(r) == count[r] < Len(offsets[r])
NextAttemptAtFromSettings(r) ==             \* mutant: the settings of today
  IF Remaining(r) THEN start[r] + policy[count[r] + 1] ELSE -1
NextAttemptAt(r) == IF Remaining(r) THEN start[r] + offsets[r][count[r] + 1] ELSE -1


Expired(r, t) == status[r] = "RUNNING" /\ claimedAt[r] <= t - Lease
Ineligible(r, t) == r.date < DateOf(t) \/ r.checkpoint \notin enabled

\* Tokens some row or some worker still knows for r.
Known(r) ==
  {token[r]} \cup {attemptToken[r][n] : n \in DOMAIN attemptToken[r]}
    \cup {claim[w][r] : w \in Worker} \cup {beat[w].token : w \in Worker}
NewToken(r) == CHOOSE k \in Token : k \notin Known(r)

LiveAttempts(r) ==
  {n \in DOMAIN attempt[r] : attempt[r][n] = "RUNNING" /\ attemptToken[r][n] = token[r]}

\* claimDueRefreshAttempts with the worker's instant t and its shops: leases
\* that ran out, cycles no longer eligible, new cycles, claims; one transaction.
ClaimDueRefreshAttempts(w) ==
  LET t      == now[w]
      mine   == {r \in Run : r.shop \in shops[w]}
      lost   == {r \in mine : Expired(r, t)}
      spent  == {r \in lost : ~Remaining(r)}
      wait   == {r \in mine : status[r] = "RETRY_WAIT"} \cup (lost \ spent)
      stale  == {r \in wait : Ineligible(r, t)}
      due    == {r \in mine : auto /\ r.date = DateOf(t) /\ Due(r.checkpoint, t)}
      new    == {r \in due : status[r] = "ABSENT"}
      at     == [r \in Run |-> IF r \in new THEN CheckpointInstant(r) + policy[1]
                               ELSE IF r \in lost THEN NextAttemptAt(r) ELSE nextAt[r]]
      ready  == {r \in due \cap ((wait \ stale) \cup new) : at[r] <= t}
      over   == spent \cup stale
      parked == (wait \cup new) \ (stale \cup ready)
  IN
  /\ pc[w] = "claim"
  /\ shops[w] # {}
  /\ \A r \in ready : Token \ Known(r) # {}       \* bound: uuids never run out
  /\ status' = [r \in Run |-> IF r \in ready  THEN "RUNNING"
                         ELSE IF r \in over   THEN "FAILED_EXHAUSTED"
                         ELSE IF r \in parked THEN "RETRY_WAIT" ELSE status[r]]
  /\ offsets' = [r \in Run |-> IF r \in new THEN policy ELSE offsets[r]]
  /\ start' = [r \in Run |-> IF r \in new THEN CheckpointInstant(r) ELSE start[r]]
  /\ nextAt' = [r \in Run |-> IF r \in ready \cup over THEN -1
                         ELSE IF r \in parked THEN at[r] ELSE nextAt[r]]
  /\ claimedAt' = [r \in Run |-> IF r \in ready THEN t
                            ELSE IF r \in lost THEN -1 ELSE claimedAt[r]]
  /\ token' = [r \in Run |-> IF r \in ready THEN NewToken(r)
                        ELSE IF r \in lost THEN NoToken ELSE token[r]]
  /\ attempt' = [r \in Run |-> [n \in DOMAIN attempt[r] |->
                   IF r \in lost /\ n \in LiveAttempts(r) THEN "FAILED" ELSE attempt[r][n]]]
  /\ claim' = [claim EXCEPT ![w] = [r \in Run |-> IF r \in ready THEN NewToken(r) ELSE NoToken]]
  /\ pc' = [pc EXCEPT ![w] = "next"]
  /\ UNCHANGED <<count, attemptToken, settings, lock, time, bounds, now, shops,
                 cur, result, beat, refreshed>>

OwnedByAnyone(r, k) == status[r] = "RUNNING" /\ k # NoToken           \* mutant

\* assertClaimedRun, and the where clauses that repeat it.
Owned(r, k) == status[r] = "RUNNING" /\ token[r] = k

\* renewRefreshAttemptLease; nothing happens when it returns false.
RenewRefreshAttemptLease(r, k, t) ==
  claimedAt' = IF r \in Run /\ Owned(r, k) /\ LiveAttempts(r) # {}
               THEN [claimedAt EXCEPT ![r] = t] ELSE claimedAt

-----------------------------------------------------------------------------
(* One pass of a worker.                                                   *)

Goto(w, p) == pc' = [pc EXCEPT ![w] = p]
LetGo(s, w) == IF lock[s] = w THEN [lock EXCEPT ![s] = NoWorker] ELSE lock

\* The loop returns or throws: its remaining claims are forgotten, not released.
EndPass(w) ==
  /\ Goto(w, "idle")
  /\ now' = [now EXCEPT ![w] = -1]
  /\ shops' = [shops EXCEPT ![w] = {}]
  /\ claim' = [claim EXCEPT ![w] = NoClaims]
  /\ cur' = [cur EXCEPT ![w] = NoRun]
  /\ result' = [result EXCEPT ![w] = "FAILURE"]

\* The loop reads the clock and the eligible shops; order syncs follow.
BeginPass(w) ==
  /\ pc[w] = "idle"
  /\ Goto(w, "claim")
  /\ now' = [now EXCEPT ![w] = time]
  /\ shops' = [shops EXCEPT ![w] = eligible]
  /\ UNCHANGED <<rows, settings, lock, time, bounds, claim, cur, result, beat, refreshed>>

\* The claim input needs a shop, or its parse throws.
ClaimWithoutShops(w) ==
  /\ pc[w] = "claim"
  /\ shops[w] = {}
  /\ EndPass(w)
  /\ UNCHANGED <<rows, settings, lock, time, bounds, beat, refreshed>>

TryLockOfRun(w, r) ==                       \* mutant: the lock is per run
  /\ pc[w] = "next"
  /\ claim[w][r] # NoToken
  /\ \A v \in Worker : cur[v] # r
  /\ cur' = [cur EXCEPT ![w] = r]
  /\ lock' = [lock EXCEPT ![r.shop] = w]
  /\ Goto(w, "start")
  /\ UNCHANGED <<rows, settings, time, bounds, now, shops, claim, result, beat, refreshed>>

\* withRefreshProfileExecutionLock: try-lock of the profile. The claims are
\* taken one after the other; their order is not modelled.
TryLock(w, r) ==
  /\ pc[w] = "next"
  /\ claim[w][r] # NoToken
  /\ cur' = [cur EXCEPT ![w] = r]
  /\ \/ /\ lock[r.shop] = NoWorker
        /\ lock' = [lock EXCEPT ![r.shop] = w]
        /\ Goto(w, "start")
     \/ /\ lock[r.shop] # NoWorker
        /\ Goto(w, "release")
        /\ UNCHANGED lock
  /\ UNCHANGED <<rows, settings, time, bounds, now, shops, claim, result, beat, refreshed>>

FinishPass(w) ==
  /\ pc[w] = "next"
  /\ claim[w] = NoClaims
  /\ EndPass(w)
  /\ UNCHANGED <<rows, settings, lock, time, bounds, beat, refreshed>>

NextRun(w) ==
  /\ Goto(w, "next")
  /\ claim' = [claim EXCEPT ![w][cur[w]] = NoToken]
  /\ cur' = [cur EXCEPT ![w] = NoRun]
  /\ result' = [result EXCEPT ![w] = "FAILURE"]
  /\ UNCHANGED <<now, shops>>

ReleasableByAnyone(r, k) ==                 \* mutant: whoever claimed it
  status[r] = "RUNNING" /\ count[r] = 0 /\ k # NoToken

\* releaseRefreshClaim: a claim of a run that was attempted before is kept.
Releasable(r, k) == Owned(r, k) /\ count[r] = 0

ReleaseRefreshClaim(w) ==
  LET r == cur[w] IN
  /\ pc[w] = "release"
  /\ IF Releasable(r, claim[w][r])
     THEN /\ status' = [status EXCEPT ![r] = "RETRY_WAIT"]
          /\ nextAt' = [nextAt EXCEPT ![r] = time]
          /\ claimedAt' = [claimedAt EXCEPT ![r] = -1]
          /\ token' = [token EXCEPT ![r] = NoToken]
     ELSE UNCHANGED <<status, nextAt, claimedAt, token>>
  /\ NextRun(w)
  /\ UNCHANGED <<offsets, start, count, attemptRow, settings, lock, time, bounds,
                 beat, refreshed>>

\* recordRefreshAttemptStarted; its exceptions leave the loop.
RecordRefreshAttemptStarted(w) ==
  LET r == cur[w]
      k == claim[w][r] IN
  /\ pc[w] = "start"
  /\ IF Owned(r, k) /\ Remaining(r)
     THEN /\ count' = [count EXCEPT ![r] = @ + 1]
          /\ attempt' = [attempt EXCEPT ![r] = Append(@, "RUNNING")]
          /\ attemptToken' = [attemptToken EXCEPT ![r] = Append(@, k)]
          /\ Goto(w, "renew")
     ELSE Goto(w, "unwind") /\ UNCHANGED <<count, attempt, attemptToken>>
  /\ UNCHANGED <<status, offsets, start, nextAt, claimedAt, token, settings, lock,
                 time, bounds, now, shops, claim, cur, result, beat, refreshed>>

\* The renewal before the preflight; false is ignored.
RenewAtStart(w) ==
  /\ pc[w] = "renew"
  /\ RenewRefreshAttemptLease(cur[w], claim[w][cur[w]], time)
  /\ Goto(w, "preflight")
  /\ UNCHANGED <<status, offsets, start, count, nextAt, token, attemptRow, settings,
                 lock, time, bounds, now, shops, claim, cur, result, beat, refreshed>>

\* The proxy preflight and recordRefreshAttemptProxyPreflight: browser work
\* follows a usable proxy recorded on an attempt that is still RUNNING.
Preflight(w) ==
  LET r == cur[w]
      k == claim[w][r] IN
  /\ pc[w] = "preflight"
  /\ \/ Goto(w, "complete")
     \/ /\ \E n \in DOMAIN attempt[r] : attemptToken[r][n] = k /\ attempt[r][n] = "RUNNING"
        /\ Goto(w, "execute")
  /\ UNCHANGED <<rows, settings, lock, time, bounds, now, shops, claim, cur,
                 result, beat, refreshed>>

\* The authoritative refresh in the browser ends, well or not.
Execute(w) ==
  LET r == cur[w]
      n == CHOOSE m \in DOMAIN attempt[r] : attemptToken[r][m] = claim[w][r] IN
  /\ pc[w] = "execute"
  /\ \/ /\ result' = [result EXCEPT ![w] = "SUCCESS"]
        /\ refreshed' = refreshed \cup {<<r, n>>}
     \/ UNCHANGED <<result, refreshed>>
  /\ Goto(w, "complete")
  /\ UNCHANGED <<rows, settings, lock, time, bounds, now, shops, claim, cur, beat>>

CurrentForAnyone(r, k) == status[r] = "RUNNING" /\ k # NoToken         \* mutant

\* completeRefreshAttempt throws unless the worker's attempt is the current one.
Current(r, k) ==
  /\ Owned(r, k)
  /\ \E n \in LiveAttempts(r) : n = count[r]

\* A throw after SUCCESS leaves the loop, after FAILURE it is swallowed.
CompleteRefreshAttempt(w) ==
  LET r == cur[w]
      success == result[w] = "SUCCESS"
      close(s, a, t) ==
        /\ status' = [status EXCEPT ![r] = s]
        /\ attempt' = [attempt EXCEPT ![r][count[r]] = a]
        /\ nextAt' = [nextAt EXCEPT ![r] = t]
        /\ claimedAt' = [claimedAt EXCEPT ![r] = -1]
        /\ token' = [token EXCEPT ![r] = NoToken]
  IN
  /\ pc[w] = "complete"
  /\ \/ /\ Current(r, claim[w][r])
        /\ \/ success /\ close("SUCCEEDED", "SUCCEEDED", -1)
           \/ ~success /\ Remaining(r) /\ close("RETRY_WAIT", "FAILED", NextAttemptAt(r))
           \/ ~success /\ ~Remaining(r) /\ close("FAILED_EXHAUSTED", "FAILED", -1)
        /\ Goto(w, "unlock")
     \/ /\ ~Current(r, claim[w][r])
        /\ Goto(w, IF success THEN "unwind" ELSE "unlock")
        /\ UNCHANGED <<status, attempt, nextAt, claimedAt, token>>
  /\ UNCHANGED <<offsets, start, count, attemptToken, settings, lock, time, bounds,
                 now, shops, claim, cur, result, beat, refreshed>>

\* The unlock in the finally block; on a lost session it may throw.
Unlock(w) ==
  LET s == cur[w].shop IN
  /\ pc[w] \in {"unlock", "unwind"}
  /\ lock' = LetGo(s, w)
  /\ \/ pc[w] = "unlock" /\ NextRun(w)
     \/ (pc[w] = "unwind" \/ lock[s] # w) /\ EndPass(w)
  /\ UNCHANGED <<rows, settings, time, bounds, beat, refreshed>>

-----------------------------------------------------------------------------
(* The heartbeat, a timer beside the pass: the renewal it starts commits   *)
(* later, even after the attempt was completed or lost.                    *)

HeartbeatFires(w) ==
  /\ pc[w] \in {"renew", "preflight", "execute"}
  /\ beat[w] = NoBeat
  /\ beat' = [beat EXCEPT ![w] = [run |-> cur[w], token |-> claim[w][cur[w]], at |-> time]]
  /\ UNCHANGED <<rows, settings, lock, time, bounds, pass, refreshed>>

HeartbeatCommits(w) ==
  /\ beat[w] # NoBeat
  /\ RenewRefreshAttemptLease(beat[w].run, beat[w].token, beat[w].at)
  /\ beat' = [beat EXCEPT ![w] = NoBeat]
  /\ UNCHANGED <<status, offsets, start, count, nextAt, token, attemptRow, settings,
                 lock, time, bounds, pass, refreshed>>

-----------------------------------------------------------------------------
(* Faults, bounded by MaxFaults.                                           *)

Fault(kind) == kind \in FaultKinds /\ faults < MaxFaults /\ faults' = faults + 1

\* The process dies with its sessions and is started again. A heartbeat whose
\* query fails is an unhandled rejection, which ends the process as well.
Crash(w) ==
  /\ \/ pc[w] # "idle" /\ Fault("crash")
     \/ beat[w] # NoBeat /\ Fault("statement")
  /\ EndPass(w)
  /\ lock' = [s \in Shop |-> IF lock[s] = w THEN NoWorker ELSE lock[s]]
  /\ beat' = [beat EXCEPT ![w] = NoBeat]
  /\ UNCHANGED <<rows, settings, time, edits, refreshed>>

\* The reserved connection is lost while the work goes on.
LoseLockSession(w) ==
  /\ \E s \in Shop : lock[s] = w /\ lock' = [lock EXCEPT ![s] = NoWorker]
  /\ Fault("session")
  /\ UNCHANGED <<rows, settings, time, edits, pass, beat, refreshed>>

\* A transaction of the pass fails and changes nothing.
StatementFails(w) ==
  /\ Fault("statement")
  /\ \/ pc[w] \in {"claim", "next", "release"} /\ EndPass(w)
     \/ /\ \/ pc[w] = "start" /\ Goto(w, "unwind")
           \/ pc[w] \in {"renew", "preflight"} /\ Goto(w, "complete")
           \/ pc[w] = "complete"
                /\ Goto(w, IF result[w] = "SUCCESS" THEN "unwind" ELSE "unlock")
        /\ UNCHANGED <<now, shops, claim, cur, result>>
  /\ UNCHANGED <<rows, settings, lock, time, edits, beat, refreshed>>

-----------------------------------------------------------------------------
WorkerStep(w) ==
  \/ BeginPass(w) \/ ClaimWithoutShops(w) \/ ClaimDueRefreshAttempts(w)
  \/ FinishPass(w) \/ ReleaseRefreshClaim(w) \/ RecordRefreshAttemptStarted(w)
  \/ RenewAtStart(w) \/ Preflight(w) \/ Execute(w) \/ CompleteRefreshAttempt(w)
  \/ Unlock(w)
  \/ \E r \in Run : TryLock(w, r)

World ==
  \/ Tick \/ SetAutoRefreshEnabled \/ SetRefreshRetryOffsets
  \/ \E c \in Checkpoint : SetRefreshCheckpointEnabled(c) \/ UpdateRefreshCheckpoint(c)
  \/ \E s \in Shop : EligibilityChanges(s)

Next ==
  \/ World
  \/ \E w \in Worker : \/ WorkerStep(w) \/ HeartbeatFires(w) \/ HeartbeatCommits(w)
                       \/ Crash(w) \/ LoseLockSession(w) \/ StatementFails(w)

Spec == Init /\ [][Next]_vars

\* What may never end: the COTIK tick before a pass, the order syncs before its
\* claim, the proxy check, the browser work. Not every request has a deadline.
Awaiting == {"idle", "claim", "preflight", "execute"}

\* The clock runs, a started query ends, and a worker that waits for nothing goes
\* on. Nothing is assumed of what it waits for, of operators and of faults.
FairSpec ==
  /\ Spec
  /\ WF_vars(Tick)
  /\ \A w \in Worker : /\ WF_vars(pc[w] \notin Awaiting /\ WorkerStep(w))
                        /\ WF_vars(HeartbeatCommits(w))

-----------------------------------------------------------------------------
(* Safety.                                                                 *)

\* The attempts of a run account for its attempt_count and explain its status,
\* and only the last of them, under the run's own claim, may be RUNNING.
Explained(r) ==
  LET n == count[r] IN
  /\ Len(attempt[r]) = n /\ Len(attemptToken[r]) = n
  /\ \A m \in 1..n : attempt[r][m] = "RUNNING" =>
       m = n /\ status[r] = "RUNNING" /\ attemptToken[r][m] = token[r]
  /\ \A m \in 1..n : attempt[r][m] = "SUCCEEDED" => m = n /\ status[r] = "SUCCEEDED"
  /\ status[r] = "SUCCEEDED" => n > 0 /\ attempt[r][n] = "SUCCEEDED"
  /\ status[r] = "RETRY_WAIT" => Remaining(r)
  /\ status[r] = "RUNNING" => Remaining(r) \/ LiveAttempts(r) # {}
  /\ status[r] = "RUNNING" <=> token[r] # NoToken
  /\ status[r] = "RUNNING" <=> claimedAt[r] # -1
  /\ status[r] = "RETRY_WAIT" <=> nextAt[r] # -1

\* Through expiry, recovery, late completions and restarts, the rows of every
\* run explain each other, and a claim always has an attempt left to begin.
RowsAgree == \A r \in Run : Explained(r)

\* No lock session was lost so far.
SessionsHold == "session" \notin FaultKinds \/ faults = 0

\* "Sequential iteration preserves the no-parallel-profile guarantee": while no
\* lock session is lost, no two workers are in the browser of one profile, also
\* when a lease expired under the first (refresh-controller-loop.ts).
ProfileExclusive ==
  SessionsHold =>
    \A v, w \in Worker :
      pc[v] = "execute" /\ pc[w] = "execute" /\ cur[v].shop = cur[w].shop => v = w

(* What a cycle may do, whoever works on it: the module RefreshContract.   *)

PhaseOf == [ABSENT |-> "none", RETRY_WAIT |-> "open", RUNNING |-> "open",
            SUCCEEDED |-> "succeeded", FAILED_EXHAUSTED |-> "exhausted"]

Contract == INSTANCE RefreshContract WITH
  phase  <- [r \in Run |-> PhaseOf[status[r]]],
  budget <- [r \in Run |-> Len(offsets[r])],
  log    <- attempt,
  worked <- [r \in Run |-> {n \in 1..count[r] : <<r, n>> \in refreshed}]

RowsStand == UNCHANGED <<status, offsets, count, attempt, refreshed>>

\* Every step is one the contract allows, or changes nothing it speaks of. This
\* is Contract!Spec, written so that TLC tells by the first disjunct a step the
\* contract does not see.
ImplementsContract ==
  Contract!Init /\ [][RowsStand \/ Contract!Next]_(Contract!vars)

(* Action properties.                                                      *)

\* An attempt never begins before the offset its cycle's snapshot gives it,
\* whatever the settings say since and however stale the instant claimed with.
RetryOnSchedule ==
  [][\A r \in Run : count'[r] # count[r]
        => time >= start[r] + offsets[r][count'[r]]]_vars

\* A worker whose claim of a run was recovered or taken over no longer changes
\* its rows: neither its release, start, completion nor a late heartbeat does.
Rows(r) == <<status[r], count[r], nextAt[r], claimedAt[r], token[r], attempt[r]>>
Steps(w, r) == cur[w] = r /\ pc'[w] # pc[w]
BeatEnds(w, r) == beat[w].run = r /\ beat'[w] = NoBeat

LostClaimIsPowerless ==
  [][\A w \in Worker, r \in Run :
       /\ Steps(w, r) /\ token[r] # claim[w][r] => Rows(r)' = Rows(r)
       /\ BeatEnds(w, r) /\ token[r] # beat[w].token => Rows(r)' = Rows(r)]_vars

(* Liveness, under FairSpec.                                               *)

\* A claim made long enough before the Horizon for its lease to run out.
OldClaim(r) == status[r] = "RUNNING" /\ claimedAt[r] <= Horizon - Lease

\* Some worker waits for nothing forever: its passes go on.
PassesGoOn == \E w \in Worker : \A p \in Awaiting : []<>(pc[w] # p)

\* "a dead worker never owns a profile indefinitely" (refresh-controller.ts),
\* while the passes of another, or of the same started again, go on.
NeverOwnedIndefinitely == PassesGoOn => \A r \in Run : OldClaim(r) ~> ~OldClaim(r)
=============================================================================
