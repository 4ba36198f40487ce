----------------------- MODULE RefreshController_proofs -----------------------
(***************************************************************************)
(* Theorems about RefreshController, in two parts:                         *)
(*   1. types, the consistency of the rows of a run, and that a worker whose *)
(*      claim was taken away changes nothing;                              *)
(*   2. that a profile is worked on by one worker at a time, that attempts *)
(*      begin on schedule, and that RefreshController implements           *)
(*      RefreshContract.                                                   *)
(* The inductive invariant IInv of part 1 relates the rows to the claims the *)
(* workers carry: a claim belongs to one worker, and until its attempt is  *)
(* recorded no attempt bears its token. What a step does to a run is one of a *)
(* few Moves, each of which keeps its rows consistent. JInv of part 2 adds *)
(* where the lock of a profile is, when a run may be attempted next, and which *)
(* attempts did their browser work.                                        *)
(***************************************************************************)
EXTENDS RefreshController, SequenceTheorems, TLAPS

-----------------------------------------------------------------------------
(***************************************************************************)
(* 1. Rows and claims.                                                     *)
(***************************************************************************)

-----------------------------------------------------------------------------
(* What the rows of a run go through.                                      *)

\* The row of r, typed.
RowType(r) ==
  /\ status[r] \in Status
  /\ offsets[r] \in Policies \cup {<<>>} /\ offsets[r] \in Seq(Nat)
  /\ start[r] \in Int
  /\ count[r] \in Nat /\ count[r] <= Len(offsets[r])
  /\ nextAt[r] \in Int
  /\ claimedAt[r] \in -1..time
  /\ attempt[r] \in Seq(AttemptStatus)
  /\ attemptToken[r] \in Seq(Token)
  /\ token[r] \in Token \cup {NoToken}

\* A run not inserted yet has no attempts, an inserted one a start.
Opened(r) ==
  /\ status[r] = "ABSENT" => count[r] = 0
  /\ status[r] # "ABSENT" => start[r] >= 0

RowOK(r) == Explained(r) /\ Opened(r)

Untouched(r) ==
  /\ status'[r] = status[r] /\ offsets'[r] = offsets[r] /\ start'[r] = start[r]
  /\ count'[r] = count[r] /\ nextAt'[r] = nextAt[r] /\ claimedAt'[r] = claimedAt[r]
  /\ token'[r] = token[r] /\ attempt'[r] = attempt[r] /\ attemptToken'[r] = attemptToken[r]

KeepsCycle(r) == offsets'[r] = offsets[r] /\ start'[r] = start[r]
KeepsAttempts(r) ==
  count'[r] = count[r] /\ attempt'[r] = attempt[r] /\ attemptToken'[r] = attemptToken[r]

\* Where the claim transaction leaves a run it works on.
Exhausted(r) ==
  /\ status'[r] = "FAILED_EXHAUSTED"
  /\ nextAt'[r] = -1 /\ claimedAt'[r] = -1 /\ token'[r] = NoToken
Parked(r) ==
  /\ status'[r] = "RETRY_WAIT" /\ count'[r] < Len(offsets'[r])
  /\ nextAt'[r] \in Int \ {-1} /\ claimedAt'[r] = -1 /\ token'[r] = NoToken
Claimed(r) ==
  /\ status'[r] = "RUNNING" /\ count'[r] < Len(offsets'[r])
  /\ nextAt'[r] = -1 /\ claimedAt'[r] \in 0..time /\ token'[r] \in Token

\* The attempt of an expired claim is closed.
Silenced(r) ==
  /\ attempt'[r] \in Seq(AttemptStatus)
  /\ Len(attempt'[r]) = Len(attempt[r])
  /\ \A n \in 1..Len(attempt[r]) :
       attempt'[r][n] = IF status[r] = "RUNNING" /\ n \in LiveAttempts(r)
                        THEN "FAILED" ELSE attempt[r][n]

Opening(r) ==
  /\ status[r] = "ABSENT" /\ start'[r] \in Nat /\ offsets'[r] \in Policies
  /\ count'[r] = count[r] /\ attemptToken'[r] = attemptToken[r] /\ Silenced(r)
  /\ Parked(r) \/ Claimed(r)

Transacted(r) ==
  /\ status[r] \in {"RETRY_WAIT", "RUNNING"}
  /\ KeepsCycle(r) /\ count'[r] = count[r] /\ attemptToken'[r] = attemptToken[r]
  /\ Silenced(r)
  /\ Exhausted(r) \/ Parked(r) \/ Claimed(r)

Releasing(r) ==
  /\ status[r] = "RUNNING" /\ count[r] = 0
  /\ KeepsCycle(r) /\ KeepsAttempts(r)
  /\ status'[r] = "RETRY_WAIT"
  /\ nextAt'[r] \in Int \ {-1} /\ claimedAt'[r] = -1 /\ token'[r] = NoToken

\* The claim that begins an attempt has begun none before.
Starting(r) ==
  /\ status[r] = "RUNNING" /\ Remaining(r)
  /\ \A n \in DOMAIN attemptToken[r] : attemptToken[r][n] # token[r]
  /\ KeepsCycle(r)
  /\ count'[r] = count[r] + 1
  /\ attempt'[r] = Append(attempt[r], "RUNNING")
  /\ attemptToken'[r] = Append(attemptToken[r], token[r])
  /\ status'[r] = status[r] /\ nextAt'[r] = nextAt[r]
  /\ claimedAt'[r] = claimedAt[r] /\ token'[r] = token[r]

Renewing(r) ==
  /\ status[r] = "RUNNING" /\ claimedAt'[r] \in 0..time
  /\ KeepsCycle(r) /\ KeepsAttempts(r)
  /\ status'[r] = status[r] /\ nextAt'[r] = nextAt[r] /\ token'[r] = token[r]

Closing(r) ==
  /\ status[r] = "RUNNING" /\ count[r] \in LiveAttempts(r)
  /\ KeepsCycle(r) /\ count'[r] = count[r] /\ attemptToken'[r] = attemptToken[r]
  /\ claimedAt'[r] = -1 /\ token'[r] = NoToken
  /\ \E a \in {"SUCCEEDED", "FAILED"} :
       /\ attempt'[r] = [attempt[r] EXCEPT ![count[r]] = a]
       /\ \/ a = "SUCCEEDED" /\ status'[r] = "SUCCEEDED" /\ nextAt'[r] = -1
          \/ a = "FAILED" /\ status'[r] = "RETRY_WAIT" /\ Remaining(r) /\ nextAt'[r] \in Int \ {-1}
          \/ a = "FAILED" /\ status'[r] = "FAILED_EXHAUSTED" /\ nextAt'[r] = -1

Moves(r) ==
  \/ Untouched(r) \/ Opening(r) \/ Transacted(r) \/ Releasing(r) \/ Starting(r)
  \/ Renewing(r) \/ Closing(r)

-----------------------------------------------------------------------------
LEMMA UntouchedKeeps ==
  ASSUME NEW r \in Run, RowOK(r), Untouched(r) PROVE RowOK(r)'
BY DEF RowOK, Explained, Opened, Untouched, Remaining, LiveAttempts

\* After the recovery of its claim, no attempt of a run is RUNNING, and none
\* is SUCCEEDED.
LEMMA SilencedAttempts ==
  ASSUME NEW r \in Run, RowType(r), Explained(r), Silenced(r), status[r] # "SUCCEEDED",
         count'[r] = count[r]
  PROVE  /\ Len(attempt'[r]) = count'[r]
         /\ \A n \in 1..count'[r] : attempt'[r][n] # "RUNNING" /\ attempt'[r][n] # "SUCCEEDED"
<1>1. Len(attempt[r]) = count[r] /\ DOMAIN attempt[r] = 1..count[r]
  BY DEF RowType, Explained
<1>2. ASSUME NEW n \in 1..count[r] PROVE attempt'[r][n] # "RUNNING" /\ attempt'[r][n] # "SUCCEEDED"
  <2>1. attempt[r][n] # "SUCCEEDED"
    BY DEF Explained
  <2>2. CASE attempt[r][n] = "RUNNING"
    <3>1. status[r] = "RUNNING" /\ n \in LiveAttempts(r)
      BY <1>1, <2>2 DEF Explained, LiveAttempts
    <3> QED BY <1>1, <3>1 DEF Silenced
  <2>3. CASE attempt[r][n] # "RUNNING"
    BY <1>1, <2>1, <2>3 DEF Silenced
  <2> QED BY <2>2, <2>3
<1> QED BY <1>1, <1>2 DEF Silenced

\* A run whose attempts are all closed and failed, left exhausted, parked or
\* claimed, is consistent.
LEMMA SettledKeeps ==
  ASSUME NEW r \in Run, RowType(r), Explained(r), Silenced(r),
         status[r] # "SUCCEEDED", count'[r] = count[r], attemptToken'[r] = attemptToken[r],
         Exhausted(r) \/ Parked(r) \/ Claimed(r), start'[r] >= 0
  PROVE  RowOK(r)'
<1>1. /\ Len(attempt'[r]) = count'[r]
      /\ \A n \in 1..count'[r] : attempt'[r][n] # "RUNNING" /\ attempt'[r][n] # "SUCCEEDED"
  BY SilencedAttempts
<1>2. Len(attemptToken'[r]) = count'[r]
  BY DEF Explained
<1>3. NoToken \notin Token
  BY RefreshConstants
<1> QED BY <1>1, <1>2, <1>3 DEF RowOK, Explained, Opened, Remaining, Exhausted, Parked, Claimed

LEMMA TransactionKeeps ==
  ASSUME NEW r \in Run, RowType(r), RowOK(r), Opening(r) \/ Transacted(r)
  PROVE  RowOK(r)'
<1>1. CASE Opening(r)
  BY <1>1, SettledKeeps DEF RowOK, Opening
<1>2. CASE Transacted(r)
  <2>1. start'[r] >= 0
    BY <1>2 DEF RowOK, Opened, Transacted, KeepsCycle
  <2> QED BY <1>2, <2>1, SettledKeeps DEF RowOK, Transacted
<1> QED BY <1>1, <1>2

LEMMA ReleasingKeeps ==
  ASSUME NEW r \in Run, RowType(r), RowOK(r), Releasing(r) PROVE RowOK(r)'
<1>1. Remaining(r) \/ LiveAttempts(r) # {}
  BY DEF RowOK, Explained, Releasing
<1>2. LiveAttempts(r) = {}
  BY DEF RowOK, Explained, Releasing, LiveAttempts, RowType
<1> QED
  BY <1>1, <1>2 DEF RowOK, Explained, Opened, Releasing, KeepsCycle, KeepsAttempts, Remaining

LEMMA StartingKeeps ==
  ASSUME NEW r \in Run, RowType(r), RowOK(r), Starting(r) PROVE RowOK(r)'
<1> DEFINE n == count[r]
<1>1. Len(attempt[r]) = n /\ Len(attemptToken[r]) = n /\ n \in Nat
  BY DEF RowOK, Explained, RowType
<1>2. token[r] \in Token
  BY DEF RowOK, Explained, Starting, RowType
<1>3. /\ Len(attempt'[r]) = n + 1 /\ attempt'[r][n + 1] = "RUNNING"
      /\ \A m \in 1..n : attempt'[r][m] = attempt[r][m]
  BY <1>1 DEF Starting, RowType, AttemptStatus
<1>4. /\ Len(attemptToken'[r]) = n + 1 /\ attemptToken'[r][n + 1] = token[r]
      /\ \A m \in 1..n : attemptToken'[r][m] = attemptToken[r][m]
  BY <1>1, <1>2 DEF Starting, RowType
<1>5. \A m \in 1..n : attempt[r][m] # "RUNNING" /\ attempt[r][m] # "SUCCEEDED"
  BY <1>1 DEF RowOK, Explained, Starting, RowType
<1>6. n + 1 \in LiveAttempts(r)'
  <2>1. attempt'[r] \in Seq(AttemptStatus)
    BY DEF Starting, RowType, AttemptStatus
  <2> QED BY <1>1, <1>3, <1>4, <2>1 DEF LiveAttempts, Starting
<1>7. \A m \in 1..(n + 1) : m # n + 1 => m \in 1..n
  BY <1>1
<1> QED
  BY <1>1, <1>3, <1>4, <1>5, <1>6, <1>7 DEF RowOK, Explained, Opened, Starting, KeepsCycle

LEMMA RenewingKeeps ==
  ASSUME NEW r \in Run, RowOK(r), Renewing(r) PROVE RowOK(r)'
BY DEF RowOK, Explained, Opened, Renewing, KeepsCycle, KeepsAttempts, Remaining, LiveAttempts

LEMMA ClosingKeeps ==
  ASSUME NEW r \in Run, RowType(r), RowOK(r), Closing(r) PROVE RowOK(r)'
<1> DEFINE n == count[r]
<1>1. n \in 1..Len(attempt[r]) /\ Len(attempt[r]) = n /\ Len(attemptToken[r]) = n
  BY DEF RowOK, Explained, Closing, LiveAttempts, RowType
<1>2. PICK a \in {"SUCCEEDED", "FAILED"} :
        /\ attempt'[r] = [attempt[r] EXCEPT ![n] = a]
        /\ \/ a = "SUCCEEDED" /\ status'[r] = "SUCCEEDED" /\ nextAt'[r] = -1
           \/ a = "FAILED" /\ status'[r] = "RETRY_WAIT" /\ Remaining(r) /\ nextAt'[r] \in Int \ {-1}
           \/ a = "FAILED" /\ status'[r] = "FAILED_EXHAUSTED" /\ nextAt'[r] = -1
  BY DEF Closing
<1>3. /\ Len(attempt'[r]) = n /\ attempt'[r][n] = a
      /\ \A m \in 1..n : m # n => attempt'[r][m] = attempt[r][m]
  BY <1>1, <1>2 DEF RowType
<1>4. \A m \in 1..n : m # n => attempt[r][m] # "RUNNING" /\ attempt[r][m] # "SUCCEEDED"
  BY DEF RowOK, Explained, Closing
<1> QED
  BY <1>1, <1>2, <1>3, <1>4 DEF RowOK, Explained, Opened, Closing, KeepsCycle, Remaining

\* Each move keeps the rows of its run consistent.
LEMMA MovesKeep ==
  ASSUME NEW r \in Run, RowType(r), RowOK(r), Moves(r) PROVE RowOK(r)'
BY UntouchedKeeps, TransactionKeeps, ReleasingKeeps, StartingKeeps, RenewingKeeps,
   ClosingKeeps DEF Moves

-----------------------------------------------------------------------------
LEMMA PolicyType ==
  ASSUME NEW p \in Policies PROVE p \in Seq(Nat) /\ Len(p) \in Nat \ {0} /\ p[1] \in Nat
BY RefreshConstants

\* Each move keeps the types of its run.
LEMMA MovesType ==
  ASSUME NEW r \in Run, RowType(r), RowOK(r), Moves(r),
         time \in Nat, time' \in Nat, time <= time'
  PROVE  RowType(r)'
<1>1. CASE Untouched(r) \/ Renewing(r) \/ Releasing(r)
  <2>1. /\ offsets'[r] = offsets[r] /\ start'[r] = start[r] /\ count'[r] = count[r]
        /\ attempt'[r] = attempt[r] /\ attemptToken'[r] = attemptToken[r]
    BY <1>1 DEF Untouched, Renewing, Releasing, KeepsCycle, KeepsAttempts
  <2>2. status'[r] \in Status /\ nextAt'[r] \in Int /\ token'[r] \in Token \cup {NoToken}
    BY <1>1 DEF RowType, Untouched, Renewing, Releasing, Status
  <2>3. claimedAt'[r] \in -1..time'
    BY SMTT(30), <1>1 DEF RowType, Untouched, Renewing, Releasing
  <2> QED BY <2>1, <2>2, <2>3 DEF RowType
<1>2. CASE Opening(r)
  <2>1. offsets'[r] \in Policies /\ offsets'[r] \in Seq(Nat) /\ start'[r] \in Int
    BY <1>2, PolicyType DEF Opening
  <2>2. attempt'[r] \in Seq(AttemptStatus) /\ attemptToken'[r] \in Seq(Token) /\ count'[r] \in Nat
    BY <1>2 DEF Opening, Silenced, RowType
  <2>3. /\ status'[r] \in Status /\ nextAt'[r] \in Int /\ token'[r] \in Token \cup {NoToken}
        /\ claimedAt'[r] \in -1..time' /\ count'[r] < Len(offsets'[r])
    BY <1>2 DEF Opening, Parked, Claimed, Status
  <2>4. count'[r] <= Len(offsets'[r])
    BY <2>1, <2>2, <2>3
  <2> QED BY <2>1, <2>2, <2>3, <2>4 DEF RowType
<1>3. CASE Transacted(r)
  <2>1. attempt'[r] \in Seq(AttemptStatus) /\ attemptToken'[r] \in Seq(Token) /\ count'[r] \in Nat
    BY <1>3 DEF Transacted, Silenced, RowType
  <2> QED BY SMTT(30), <1>3, <2>1 DEF RowType, Transacted, Exhausted, Parked, Claimed, KeepsCycle, Status
<1>4. CASE Starting(r)
  <2>1. token[r] \in Token
    BY <1>4 DEF RowOK, Explained, Starting, RowType
  <2>2. attempt'[r] \in Seq(AttemptStatus) /\ attemptToken'[r] \in Seq(Token)
    BY <1>4, <2>1 DEF Starting, RowType, AttemptStatus
  <2>3. count'[r] \in Nat /\ count'[r] <= Len(offsets'[r])
    <3>1. count[r] \in Nat /\ Len(offsets[r]) \in Nat /\ count[r] < Len(offsets[r])
      BY <1>4 DEF RowType, Starting, Remaining
    <3>2. count'[r] = count[r] + 1 /\ offsets'[r] = offsets[r]
      BY <1>4 DEF Starting, KeepsCycle
    <3> QED BY <3>1, <3>2
  <2>4. /\ offsets'[r] = offsets[r] /\ start'[r] = start[r] /\ status'[r] = status[r]
        /\ nextAt'[r] = nextAt[r] /\ claimedAt'[r] = claimedAt[r] /\ token'[r] = token[r]
    BY <1>4 DEF Starting, KeepsCycle
  <2>5. claimedAt'[r] \in -1..time'
    BY <2>4 DEF RowType
  <2> QED BY <2>2, <2>3, <2>4, <2>5 DEF RowType
<1>5. CASE Closing(r)
  <2>1. attempt'[r] \in Seq(AttemptStatus)
    BY SMTT(30), <1>5 DEF Closing, RowType, AttemptStatus, LiveAttempts
  <2> QED BY <1>5, <2>1 DEF RowType, Closing, KeepsCycle, Status
<1> QED BY <1>1, <1>2, <1>3, <1>4, <1>5 DEF Moves

-----------------------------------------------------------------------------
(* The inductive invariant.                                                *)

\* No instant a worker carries lies in the future.
InTime ==
  \A w \in Worker :
    /\ now[w] <= time /\ beat[w].at <= time
    /\ pc[w] = "claim" => now[w] # -1
    /\ beat[w] # NoBeat => beat[w].at # -1

AtRun == \A w \in Worker : cur[w] = NoRun <=> pc[w] \in {"idle", "claim", "next"}

ClaimsApart ==
  \A v, w \in Worker, r \in Run :
    claim[v][r] = claim[w][r] /\ claim[w][r] # NoToken => v = w

\* The attempt of w's claim of r is not recorded yet, ...
Unbegun(w, r) ==
  claim[w][r] # NoToken /\ (cur[w] # r \/ pc[w] \in {"release", "start"})

\* ... so no attempt bears its token ...
Fresh ==
  \A w \in Worker, r \in Run :
    Unbegun(w, r) => \A n \in DOMAIN attemptToken[r] : attemptToken[r][n] # claim[w][r]

\* ... and once it is, one does.
Begun ==
  \A w \in Worker : pc[w] \in {"renew", "preflight", "execute"} =>
    \E n \in DOMAIN attemptToken[cur[w]] : attemptToken[cur[w]][n] = claim[w][cur[w]]

RowsOK == \A r \in Run : RowOK(r)

IInv == TypeOK /\ RowsOK /\ InTime /\ AtRun /\ ClaimsApart /\ Fresh /\ Begun

-----------------------------------------------------------------------------
LEMMA RowTyped == ASSUME TypeOK, NEW r \in Run PROVE RowType(r)
<1>1. offsets[r] \in Policies \cup {<<>>}
  BY DEF TypeOK
<1>2. Policies \subseteq Seq(Nat) /\ <<>> \in Seq(Nat)
  BY RefreshConstants
<1>3. offsets[r] \in Seq(Nat)
  BY <1>1, <1>2
<1> QED BY <1>1, <1>3 DEF TypeOK, RowType

LEMMA UntouchedMoves == UNCHANGED rows => \A r \in Run : Moves(r)
BY DEF rows, runRow, attemptRow, Moves, Untouched

LEMMA StartType ==
  ASSUME TypeOK, NEW r \in Run
  PROVE  CheckpointInstant(r) \in Nat
<1>1. r.date \in Date /\ r.checkpoint \in Checkpoint
  BY DEF Run
<1>2. localTime[r.checkpoint] \in Nat
  <2>1. localTime[r.checkpoint] \in LocalTimes
    BY <1>1 DEF TypeOK
  <2>2. LocalTimes \subseteq Nat
    BY RefreshConstants
  <2> QED BY <2>1, <2>2
<1>3. r.date \in Nat /\ Day \in Nat
  BY <1>1, RefreshConstants
<1>4. r.date * Day \in Nat
  BY <1>3
<1> QED BY <1>2, <1>4 DEF CheckpointInstant

LEMMA NextType ==
  ASSUME TypeOK, NEW r \in Run, Remaining(r)
  PROVE  /\ NextAttemptAt(r) \in Int
         /\ start[r] >= 0 => NextAttemptAt(r) \in Nat
<1>1. offsets[r] \in Seq(Nat) /\ count[r] \in Nat /\ start[r] \in Int
  BY RowTyped DEF RowType
<1>2. count[r] + 1 \in 1..Len(offsets[r])
  BY <1>1 DEF Remaining
<1>3. offsets[r][count[r] + 1] \in Nat
  BY <1>1, <1>2
<1> QED BY SMTT(30), <1>1, <1>3 DEF NextAttemptAt, Remaining

LEMMA TokenType ==
  ASSUME NEW r \in Run, Token \ Known(r) # {}
  PROVE  NewToken(r) \in Token /\ NewToken(r) \notin Known(r) /\ NewToken(r) # NoToken
BY RefreshConstants DEF NewToken

\* The worker carries a new token for each run it claims, and no other.
LEMMA ClaimReady ==
  ASSUME NEW w \in Worker, ClaimDueRefreshAttempts(w)
  PROVE  \E ready \in SUBSET Run :
           /\ \A r \in ready : Token \ Known(r) # {}
           /\ claim' = [claim EXCEPT ![w] =
                [r \in Run |-> IF r \in ready THEN NewToken(r) ELSE NoToken]]
BY DEF ClaimDueRefreshAttempts

-----------------------------------------------------------------------------
(* Every action moves every run.                                           *)

LEMMA ClaimDated ==
  ASSUME IInv, NEW w \in Worker, pc[w] = "claim"
  PROVE  now[w] \in 0..time
BY DEF IInv, InTime, TypeOK, Instant

\* A row of attempts as long as another, and a copy of one.
LEMMA SameLength ==
  ASSUME NEW X, NEW n \in Nat, NEW q, q = [i \in 1..n |-> q[i]], \A i \in 1..n : q[i] \in X
  PROVE  q \in Seq(X) /\ Len(q) = n
OBVIOUS

LEMMA Copied ==
  ASSUME NEW X, NEW s \in Seq(X), NEW q, q = [i \in DOMAIN s |-> s[i]]
  PROVE  q = s
OBVIOUS

\* The claim transaction, seen from one run.
LEMMA ClaimMoves ==
  ASSUME IInv, NEW w \in Worker, ClaimDueRefreshAttempts(w), NEW r \in Run
  PROVE  Moves(r)
<1> DEFINE t      == now[w]
           mine   == {q \in Run : q.shop \in shops[w]}
           lost   == {q \in mine : Expired(q, t)}
           spent  == {q \in lost : ~Remaining(q)}
           wait   == {q \in mine : status[q] = "RETRY_WAIT"} \cup (lost \ spent)
           stale  == {q \in wait : Ineligible(q, t)}
           due    == {q \in mine : auto /\ q.date = DateOf(t) /\ Due(q.checkpoint, t)}
           new    == {q \in due : status[q] = "ABSENT"}
           at     == [q \in Run |-> IF q \in new THEN CheckpointInstant(q) + policy[1]
                                    ELSE IF q \in lost THEN NextAttemptAt(q) ELSE nextAt[q]]
           ready  == {q \in due \cap ((wait \ stale) \cup new) : at[q] <= t}
           over   == spent \cup stale
           parked == (wait \cup new) \ (stale \cup ready)
<1> USE DEF IInv
<1>1. /\ r \in ready => Token \ Known(r) # {}
      /\ status'[r] = IF r \in ready THEN "RUNNING"
                      ELSE IF r \in over THEN "FAILED_EXHAUSTED"
                      ELSE IF r \in parked THEN "RETRY_WAIT" ELSE status[r]
      /\ offsets'[r] = IF r \in new THEN policy ELSE offsets[r]
      /\ start'[r] = IF r \in new THEN CheckpointInstant(r) ELSE start[r]
      /\ nextAt'[r] = IF r \in ready \cup over THEN -1
                      ELSE IF r \in parked THEN at[r] ELSE nextAt[r]
      /\ claimedAt'[r] = IF r \in ready THEN t ELSE IF r \in lost THEN -1 ELSE claimedAt[r]
      /\ token'[r] = IF r \in ready THEN NewToken(r)
                     ELSE IF r \in lost THEN NoToken ELSE token[r]
      /\ attempt'[r] = [n \in DOMAIN attempt[r] |->
                         IF r \in lost /\ n \in LiveAttempts(r) THEN "FAILED" ELSE attempt[r][n]]
      /\ count' = count /\ attemptToken' = attemptToken
  BY DEF ClaimDueRefreshAttempts
<1>2. t \in 0..time
  <2>1. pc[w] = "claim"
    BY DEF ClaimDueRefreshAttempts
  <2> QED BY <2>1, ClaimDated
<1>3. RowType(r) /\ Explained(r) /\ Opened(r)
  BY RowTyped DEF RowsOK, RowOK
<1>4. /\ r \in ready => NewToken(r) \in Token
      /\ r \in lost => status[r] = "RUNNING"
      /\ r \in wait => status[r] \in {"RETRY_WAIT", "RUNNING"} /\ Remaining(r)
  BY <1>1, <1>3, TokenType DEF Expired, Explained
<1>5. at[r] = IF r \in new THEN CheckpointInstant(r) + policy[1]
              ELSE IF r \in lost THEN NextAttemptAt(r) ELSE nextAt[r]
  OBVIOUS
<1>6. /\ Silenced(r) \/ (status[r] = "RUNNING" /\ r \notin lost)
      /\ r \notin lost => attempt'[r] = attempt[r]
  <2> DEFINE s == attempt[r]
  <2>1. s \in Seq(AttemptStatus) /\ Len(s) \in Nat /\ DOMAIN s = 1..Len(s)
        /\ \A n \in 1..Len(s) : s[n] \in AttemptStatus
    BY <1>3 DEF RowType
  <2>2. CASE r \in lost
    <3>1. attempt'[r] = [n \in 1..Len(s) |-> IF n \in LiveAttempts(r) THEN "FAILED" ELSE s[n]]
      BY <1>1, <2>1, <2>2
    <3>2. \A n \in 1..Len(s) : attempt'[r][n] \in AttemptStatus
      BY <2>1, <3>1 DEF AttemptStatus
    <3>3. attempt'[r] \in Seq(AttemptStatus) /\ Len(attempt'[r]) = Len(s)
      <4>1. attempt'[r] = [n \in 1..Len(s) |-> attempt'[r][n]]
        BY <3>1
      <4> QED BY <2>1, <3>2, <4>1, SameLength
    <3> QED BY <1>4, <2>2, <3>1, <3>3 DEF Silenced
  <2>3. CASE r \notin lost
    <3>1. attempt'[r] = s
      <4>1. attempt'[r] = [n \in DOMAIN s |-> s[n]]
        BY <1>1, <2>3
      <4> QED BY <2>1, <4>1, Copied
    <3> QED BY <2>1, <2>3, <3>1 DEF Silenced
  <2> QED BY <2>2, <2>3
<1>7. CASE r \in new
  <2>1. status[r] = "ABSENT" /\ r \notin wait /\ r \notin lost /\ r \notin over
    BY <1>4, <1>7
  <2>2. count[r] = 0 /\ policy \in Policies
    BY <1>3, <2>1 DEF Opened, TypeOK
  <2>3. Len(policy) \in Nat \ {0} /\ policy[1] \in Nat
    BY <2>2, PolicyType
  <2>4. CheckpointInstant(r) \in Nat
    BY StartType
  <2>5. claimedAt[r] = -1 /\ token[r] = NoToken /\ nextAt[r] = -1
    BY <1>3, <2>1, RefreshConstants DEF Explained
  <2>6. Silenced(r)
    BY <1>6, <2>1
  <2>7. CASE r \in ready
    <3> HIDE DEF mine, lost, spent, wait, stale, due, new, at, ready, over, parked
    <3>1. count'[r] < Len(offsets'[r]) /\ start'[r] \in Nat /\ offsets'[r] \in Policies
      BY <1>1, <1>7, <2>2, <2>3, <2>4
    <3>2. Claimed(r)
      BY <1>1, <1>2, <1>4, <2>7, <3>1 DEF Claimed
    <3> QED BY <1>1, <2>1, <2>6, <3>1, <3>2 DEF Moves, Opening
  <2>8. CASE r \notin ready
    <3>1. r \in parked
      BY <1>7, <2>1, <2>8
    <3>2. at[r] \in Int \ {-1}
      BY <1>5, <1>7, <2>3, <2>4
    <3> HIDE DEF mine, lost, spent, wait, stale, due, new, at, ready, over, parked
    <3>3. count'[r] < Len(offsets'[r]) /\ start'[r] \in Nat /\ offsets'[r] \in Policies
      BY <1>1, <1>7, <2>2, <2>3, <2>4
    <3>4. Parked(r)
      BY <1>1, <2>1, <2>5, <2>8, <3>1, <3>2, <3>3 DEF Parked
    <3> QED BY <1>1, <2>1, <2>6, <3>3, <3>4 DEF Moves, Opening
  <2> QED BY <2>7, <2>8
<1>8. CASE r \in wait \cup spent
  <2>1. status[r] \in {"RETRY_WAIT", "RUNNING"} /\ r \notin new
    BY <1>4, <1>8
  <2>2. r \notin lost => status[r] = "RETRY_WAIT"
    BY <1>8
  <2>3. r \notin lost => claimedAt[r] = -1 /\ token[r] = NoToken /\ nextAt[r] # -1
    BY <1>3, <2>2 DEF Explained
  <2>4. Silenced(r)
    BY <1>6, <2>2
  <2>5. KeepsCycle(r) /\ count'[r] = count[r] /\ attemptToken'[r] = attemptToken[r]
    BY <1>1, <2>1 DEF KeepsCycle
  <2>6. CASE r \in over
    <3>1. r \notin ready
      BY <1>4, <2>1, <2>6
    <3> QED BY <1>1, <2>1, <2>3, <2>4, <2>5, <2>6, <3>1 DEF Moves, Transacted, Exhausted
  <2>7. CASE r \in ready
    <3>1. r \in wait
      BY <2>1, <2>7
    <3> QED BY <1>1, <1>2, <1>4, <2>1, <2>4, <2>5, <2>7, <3>1
            DEF Moves, Transacted, Claimed, KeepsCycle, Remaining
  <2>8. CASE r \notin over /\ r \notin ready
    <3>1. r \in parked /\ r \in wait
      BY <1>8, <2>8
    <3>2. at[r] \in Int \ {-1}
      <4>1. r \in lost => NextAttemptAt(r) \in Nat
        BY <1>3, <1>4, <3>1, NextType DEF Opened
      <4> QED BY <1>3, <1>5, <2>1, <2>3, <4>1 DEF RowType
    <3> QED BY <1>1, <1>4, <2>1, <2>3, <2>4, <2>5, <2>8, <3>1, <3>2
            DEF Moves, Transacted, Parked, KeepsCycle, Remaining
  <2> QED BY <2>6, <2>7, <2>8
<1>9. CASE r \notin new /\ r \notin wait \cup spent
  <2>1. r \notin ready /\ r \notin over /\ r \notin parked /\ r \notin lost
    BY <1>9
  <2> QED BY <1>1, <1>6, <1>9, <2>1 DEF Moves, Untouched
<1> QED BY <1>7, <1>8, <1>9

LEMMA RunOf ==
  ASSUME IInv, NEW w \in Worker, pc[w] \notin {"idle", "claim", "next"}
  PROVE  cur[w] \in Run
BY RefreshConstants DEF IInv, AtRun, TypeOK

LEMMA Others ==
  ASSUME TypeOK, NEW p \in Run, NEW r \in Run, r # p,
         \E x : status' = [status EXCEPT ![p] = x] \/ status' = status,
         \E x : count' = [count EXCEPT ![p] = x] \/ count' = count,
         \E x : nextAt' = [nextAt EXCEPT ![p] = x] \/ nextAt' = nextAt,
         \E x : claimedAt' = [claimedAt EXCEPT ![p] = x] \/ claimedAt' = claimedAt,
         \E x : token' = [token EXCEPT ![p] = x] \/ token' = token,
         \E x : attempt' = [attempt EXCEPT ![p] = x] \/ attempt' = attempt,
         \E x : attemptToken' = [attemptToken EXCEPT ![p] = x] \/ attemptToken' = attemptToken,
         UNCHANGED <<offsets, start>>
  PROVE  Moves(r)
<1>1. status'[r] = status[r] /\ count'[r] = count[r] /\ nextAt'[r] = nextAt[r]
  BY DEF TypeOK
<1>2. claimedAt'[r] = claimedAt[r] /\ token'[r] = token[r]
  BY DEF TypeOK
<1>3. attempt'[r] = attempt[r] /\ attemptToken'[r] = attemptToken[r]
  BY DEF TypeOK
<1> QED BY <1>1, <1>2, <1>3 DEF Moves, Untouched

LEMMA ReleaseMoves ==
  ASSUME IInv, NEW w \in Worker, ReleaseRefreshClaim(w), NEW r \in Run
  PROVE  Moves(r)
<1> DEFINE p == cur[w]
<1>1. p \in Run
  BY RunOf DEF ReleaseRefreshClaim
<1>2. CASE Releasable(p, claim[w][p])
  <2>1. CASE r = p
    <3>1. /\ status'[p] = "RETRY_WAIT" /\ nextAt'[p] = time /\ claimedAt'[p] = -1
          /\ token'[p] = NoToken
      BY <1>1, <1>2 DEF ReleaseRefreshClaim, IInv, TypeOK
    <3>2. time \in Int \ {-1}
      BY DEF IInv, TypeOK
    <3>3. KeepsCycle(p) /\ KeepsAttempts(p)
      BY DEF ReleaseRefreshClaim, KeepsCycle, KeepsAttempts, attemptRow
    <3> QED BY <1>2, <2>1, <3>1, <3>2, <3>3 DEF Releasable, Owned, Moves, Releasing
  <2>2. CASE r # p
    BY <1>1, <1>2, <2>2, Others DEF IInv, ReleaseRefreshClaim, attemptRow
  <2> QED BY <2>1, <2>2
<1>3. CASE ~Releasable(p, claim[w][p])
  BY <1>3, UntouchedMoves DEF ReleaseRefreshClaim, rows, runRow, attemptRow
<1> QED BY <1>2, <1>3

LEMMA StartMoves ==
  ASSUME IInv, NEW w \in Worker, RecordRefreshAttemptStarted(w), NEW r \in Run
  PROVE  Moves(r)
<1> DEFINE p == cur[w]
           k == claim[w][p]
<1>1. p \in Run
  BY RunOf DEF RecordRefreshAttemptStarted
<1>2. CASE Owned(p, k) /\ Remaining(p)
  <2>1. CASE r = p
    <3>1. k # NoToken
      BY <1>1, <1>2 DEF IInv, RowsOK, RowOK, Explained, Owned
    <3>2. Unbegun(w, p)
      BY <3>1 DEF RecordRefreshAttemptStarted, Unbegun
    <3>3. \A n \in DOMAIN attemptToken[p] : attemptToken[p][n] # token[p]
      BY <1>1, <1>2, <3>2 DEF IInv, Fresh, Owned
    <3>4. /\ count'[p] = count[p] + 1
          /\ attempt'[p] = Append(attempt[p], "RUNNING")
          /\ attemptToken'[p] = Append(attemptToken[p], token[p])
      <4>1. /\ count \in [Run -> Nat]
            /\ attempt \in [Run -> Seq(AttemptStatus)] /\ attemptToken \in [Run -> Seq(Token)]
        BY DEF IInv, TypeOK
      <4>2. /\ count' = [count EXCEPT ![p] = count[p] + 1]
            /\ attempt' = [attempt EXCEPT ![p] = Append(attempt[p], "RUNNING")]
            /\ attemptToken' = [attemptToken EXCEPT ![p] = Append(attemptToken[p], k)]
        BY <1>2 DEF RecordRefreshAttemptStarted
      <4>3. k = token[p]
        BY <1>2 DEF Owned
      <4> HIDE DEF p, k
      <4> QED BY <1>1, <4>1, <4>2, <4>3
    <3>5. UNCHANGED <<status, offsets, start, nextAt, claimedAt, token>>
      BY DEF RecordRefreshAttemptStarted
    <3> QED
      BY <1>2, <2>1, <3>3, <3>4, <3>5 DEF Moves, Starting, Owned, KeepsCycle
  <2>2. CASE r # p
    BY <1>1, <1>2, <2>2, Others DEF IInv, RecordRefreshAttemptStarted
  <2> QED BY <2>1, <2>2
<1>3. CASE ~(Owned(p, k) /\ Remaining(p))
  BY <1>3, UntouchedMoves DEF RecordRefreshAttemptStarted, rows, runRow, attemptRow
<1> QED BY <1>2, <1>3

\* A renewal at an instant of the past or the present.
LEMMA RenewMoves ==
  ASSUME IInv, NEW p, NEW k, NEW t, RenewRefreshAttemptLease(p, k, t), t \in 0..time,
         UNCHANGED <<status, offsets, start, count, nextAt, token, attemptRow>>,
         NEW r \in Run
  PROVE  Moves(r)
<1>1. CASE claimedAt' = claimedAt
  BY <1>1, UntouchedMoves DEF rows, runRow
<1>2. CASE p \in Run /\ Owned(p, k) /\ claimedAt' = [claimedAt EXCEPT ![p] = t]
  <2>1. CASE r = p
    <3>1. claimedAt'[p] = t
      BY <1>2 DEF IInv, TypeOK
    <3> QED BY <1>2, <2>1, <3>1
            DEF Moves, Renewing, Owned, KeepsCycle, KeepsAttempts, attemptRow
  <2>2. CASE r # p
    BY <1>2, <2>2, Others DEF IInv, attemptRow
  <2> QED BY <2>1, <2>2
<1> QED BY <1>1, <1>2 DEF RenewRefreshAttemptLease

LEMMA CompleteMoves ==
  ASSUME IInv, NEW w \in Worker, CompleteRefreshAttempt(w), NEW r \in Run
  PROVE  Moves(r)
<1> DEFINE p == cur[w]
           k == claim[w][p]
           closed(s, a, t) ==
             /\ status' = [status EXCEPT ![p] = s]
             /\ attempt' = [attempt EXCEPT ![p][count[p]] = a]
             /\ nextAt' = [nextAt EXCEPT ![p] = t]
             /\ claimedAt' = [claimedAt EXCEPT ![p] = -1]
             /\ token' = [token EXCEPT ![p] = NoToken]
<1>1. p \in Run
  BY RunOf DEF CompleteRefreshAttempt
<1>2. UNCHANGED <<offsets, start, count, attemptToken>>
  BY DEF CompleteRefreshAttempt
<1>3. CASE Current(p, k)
  <2>1. \/ closed("SUCCEEDED", "SUCCEEDED", -1)
        \/ Remaining(p) /\ closed("RETRY_WAIT", "FAILED", NextAttemptAt(p))
        \/ closed("FAILED_EXHAUSTED", "FAILED", -1)
    BY <1>3 DEF CompleteRefreshAttempt
  <2>2. CASE r = p
    <3>1. status[p] = "RUNNING" /\ count[p] \in LiveAttempts(p)
      BY <1>3 DEF Current, Owned
    <3>2. Remaining(p) => NextAttemptAt(p) \in Int \ {-1}
      <4>1. start[p] >= 0
        BY <1>1, <3>1 DEF IInv, RowsOK, RowOK, Opened
      <4> QED BY <1>1, <4>1, NextType DEF IInv
    <3>3. ASSUME NEW s, NEW a, NEW t, closed(s, a, t)
          PROVE  /\ status'[p] = s /\ nextAt'[p] = t /\ claimedAt'[p] = -1
                 /\ token'[p] = NoToken
                 /\ attempt'[p] = [attempt[p] EXCEPT ![count[p]] = a]
      BY <1>1, <3>3 DEF IInv, TypeOK
    <3>4. /\ claimedAt'[p] = -1 /\ token'[p] = NoToken
          /\ \E a \in {"SUCCEEDED", "FAILED"} :
               /\ attempt'[p] = [attempt[p] EXCEPT ![count[p]] = a]
               /\ \/ a = "SUCCEEDED" /\ status'[p] = "SUCCEEDED" /\ nextAt'[p] = -1
                  \/ a = "FAILED" /\ status'[p] = "RETRY_WAIT" /\ Remaining(p) /\ nextAt'[p] \in Int \ {-1}
                  \/ a = "FAILED" /\ status'[p] = "FAILED_EXHAUSTED" /\ nextAt'[p] = -1
      <4> HIDE DEF closed
      <4> QED BY <2>1, <3>2, <3>3
    <3> QED BY <1>2, <2>2, <3>1, <3>4 DEF Moves, Closing, KeepsCycle
  <2>3. CASE r # p
    <3>1. ASSUME NEW s, NEW a, NEW t, closed(s, a, t)
          PROVE  /\ status'[r] = status[r] /\ nextAt'[r] = nextAt[r]
                 /\ claimedAt'[r] = claimedAt[r] /\ token'[r] = token[r]
                 /\ attempt'[r] = attempt[r]
      BY <1>1, <2>3, <3>1 DEF IInv, TypeOK
    <3> HIDE DEF closed
    <3> QED BY <1>2, <2>1, <3>1 DEF Moves, Untouched
  <2> QED BY <2>2, <2>3
<1>4. CASE ~Current(p, k)
  <2>1. UNCHANGED <<status, attempt, nextAt, claimedAt, token>>
    BY <1>4 DEF CompleteRefreshAttempt
  <2> QED BY <1>2, <2>1, UntouchedMoves DEF rows, runRow, attemptRow
<1> QED BY <1>3, <1>4

\* Whatever happens, every run goes through one of its moves.
LEMMA NextMoves ==
  ASSUME IInv, [Next]_vars, NEW r \in Run PROVE Moves(r)
<1>1. ASSUME World PROVE UNCHANGED rows
  BY <1>1 DEF World, Tick, Edit, SetAutoRefreshEnabled, SetRefreshRetryOffsets,
              SetRefreshCheckpointEnabled, UpdateRefreshCheckpoint, EligibilityChanges
<1>2. ASSUME NEW w \in Worker, WorkerStep(w) PROVE Moves(r)
  <2>1. CASE ClaimDueRefreshAttempts(w)
    BY <2>1, ClaimMoves
  <2>2. CASE ReleaseRefreshClaim(w)
    BY <2>2, ReleaseMoves
  <2>3. CASE RecordRefreshAttemptStarted(w)
    BY <2>3, StartMoves
  <2>4. CASE RenewAtStart(w)
    <3>1. time \in 0..time
      BY DEF IInv, TypeOK
    <3> QED BY <2>4, <3>1, RenewMoves DEF RenewAtStart
  <2>5. CASE CompleteRefreshAttempt(w)
    BY <2>5, CompleteMoves
  <2>6. CASE \/ BeginPass(w) \/ ClaimWithoutShops(w) \/ FinishPass(w) \/ Preflight(w)
             \/ Execute(w) \/ Unlock(w) \/ \E q \in Run : TryLock(w, q)
    BY <2>6, UntouchedMoves
       DEF BeginPass, ClaimWithoutShops, FinishPass, Preflight, Execute, Unlock, TryLock
  <2> QED BY <1>2, <2>1, <2>2, <2>3, <2>4, <2>5, <2>6 DEF WorkerStep
<1>3. ASSUME NEW w \in Worker,
             HeartbeatFires(w) \/ Crash(w) \/ LoseLockSession(w) \/ StatementFails(w)
      PROVE  UNCHANGED rows
  BY <1>3 DEF HeartbeatFires, Crash, LoseLockSession, StatementFails
<1>4. ASSUME NEW w \in Worker, HeartbeatCommits(w) PROVE Moves(r)
  <2>1. beat[w].at \in 0..time
    BY <1>4 DEF HeartbeatCommits, IInv, InTime, TypeOK, Instant
  <2> QED BY <1>4, <2>1, RenewMoves DEF HeartbeatCommits
<1>5. CASE UNCHANGED vars
  BY <1>5, UntouchedMoves DEF vars
<1> QED BY <1>1, <1>2, <1>3, <1>4, <1>5, UntouchedMoves DEF Next

LEMMA RowsStep == ASSUME IInv, [Next]_vars PROVE RowsOK'
<1>1. ASSUME NEW r \in Run PROVE RowOK(r)'
  BY NextMoves, MovesKeep, RowTyped DEF IInv, RowsOK
<1> QED BY <1>1 DEF RowsOK

-----------------------------------------------------------------------------
(* Types.                                                                  *)

RowsType ==
  /\ status \in [Run -> Status]
  /\ offsets \in [Run -> Policies \cup {<<>>}]
  /\ start \in [Run -> Int]
  /\ count \in [Run -> Nat] /\ \A r \in Run : count[r] <= Len(offsets[r])
  /\ nextAt \in [Run -> Int]
  /\ claimedAt \in [Run -> -1..time]
  /\ token \in [Run -> Token \cup {NoToken}]
  /\ attempt \in [Run -> Seq(AttemptStatus)]
  /\ attemptToken \in [Run -> Seq(Token)]

WorldType ==
  /\ auto \in BOOLEAN /\ policy \in Policies
  /\ enabled \subseteq Checkpoint /\ localTime \in [Checkpoint -> LocalTimes]
  /\ eligible \subseteq Shop
  /\ lock \in [Shop -> Worker \cup {NoWorker}]
  /\ time \in 0..Horizon
  /\ edits \in 0..MaxEdits /\ faults \in 0..MaxFaults

PassType ==
  /\ pc \in [Worker -> Pc]
  /\ now \in [Worker -> Instant]
  /\ shops \in [Worker -> SUBSET Shop]
  /\ claim \in [Worker -> [Run -> Token \cup {NoToken}]]
  /\ cur \in [Worker -> Run \cup {NoRun}]
  /\ result \in [Worker -> {"SUCCESS", "FAILURE"}]
  /\ beat \in [Worker -> [run : Run \cup {NoRun}, token : Token \cup {NoToken}, at : Instant]]

LEMMA TypeParts == TypeOK <=> RowsType /\ WorldType /\ PassType /\ refreshed \subseteq Run \X Nat
BY DEF TypeOK, RowsType, WorldType, PassType

OnRuns(f) == f = [r \in Run |-> f[r]]

LEMMA OnRunsExcept ==
  ASSUME NEW f, OnRuns(f), NEW p, NEW x PROVE OnRuns([f EXCEPT ![p] = x])
BY DEF OnRuns

LEMMA RunFunctions ==
  ASSUME RowsType
  PROVE  /\ OnRuns(status) /\ OnRuns(offsets) /\ OnRuns(start) /\ OnRuns(count)
         /\ OnRuns(nextAt) /\ OnRuns(claimedAt) /\ OnRuns(token)
         /\ OnRuns(attempt) /\ OnRuns(attemptToken)
BY DEF RowsType, OnRuns

RowsOnRuns ==
  /\ OnRuns(status) /\ OnRuns(offsets) /\ OnRuns(start) /\ OnRuns(count)
  /\ OnRuns(nextAt) /\ OnRuns(claimedAt) /\ OnRuns(token)
  /\ OnRuns(attempt) /\ OnRuns(attemptToken)

LEMMA RowsStayOnRuns ==
  ASSUME TypeOK, [Next]_vars PROVE RowsOnRuns'
<1>1. RowsOnRuns
  BY TypeParts, RunFunctions DEF RowsOnRuns
<1>2. ASSUME UNCHANGED rows PROVE RowsOnRuns'
  BY <1>1, <1>2 DEF rows, runRow, attemptRow, RowsOnRuns
<1>3. ASSUME World PROVE UNCHANGED rows
  BY <1>3 DEF World, Tick, Edit, SetAutoRefreshEnabled, SetRefreshRetryOffsets,
              SetRefreshCheckpointEnabled, UpdateRefreshCheckpoint, EligibilityChanges
<1>4. ASSUME NEW w \in Worker, WorkerStep(w) PROVE RowsOnRuns'
  <2>1. CASE ClaimDueRefreshAttempts(w)
    <3>1. /\ OnRuns(status') /\ OnRuns(offsets') /\ OnRuns(start') /\ OnRuns(nextAt')
          /\ OnRuns(claimedAt') /\ OnRuns(token') /\ OnRuns(attempt')
      BY <2>1 DEF ClaimDueRefreshAttempts, OnRuns
    <3>2. UNCHANGED <<count, attemptToken>>
      BY <2>1 DEF ClaimDueRefreshAttempts
    <3> QED BY <1>1, <3>1, <3>2 DEF RowsOnRuns
  <2>2. CASE ReleaseRefreshClaim(w)
    <3>1. UNCHANGED <<offsets, start, count, attempt, attemptToken>>
      BY <2>2 DEF ReleaseRefreshClaim, attemptRow
    <3>2. CASE Releasable(cur[w], claim[w][cur[w]])
      <4>1. /\ status' = [status EXCEPT ![cur[w]] = "RETRY_WAIT"]
            /\ nextAt' = [nextAt EXCEPT ![cur[w]] = time]
            /\ claimedAt' = [claimedAt EXCEPT ![cur[w]] = -1]
            /\ token' = [token EXCEPT ![cur[w]] = NoToken]
        BY <2>2, <3>2 DEF ReleaseRefreshClaim
      <4>2. OnRuns(status') /\ OnRuns(nextAt') /\ OnRuns(claimedAt') /\ OnRuns(token')
        BY <1>1, <4>1, OnRunsExcept DEF RowsOnRuns
      <4> QED BY <1>1, <3>1, <4>2 DEF RowsOnRuns
    <3>3. CASE ~Releasable(cur[w], claim[w][cur[w]])
      BY <1>2, <2>2, <3>1, <3>3 DEF ReleaseRefreshClaim, rows, runRow, attemptRow
    <3> QED BY <3>2, <3>3
  <2>3. CASE RecordRefreshAttemptStarted(w)
    <3> DEFINE p == cur[w]
               k == claim[w][p]
    <3>1. UNCHANGED <<status, offsets, start, nextAt, claimedAt, token>>
      BY <2>3 DEF RecordRefreshAttemptStarted
    <3>2. CASE Owned(p, k) /\ Remaining(p)
      <4>1. /\ count' = [count EXCEPT ![p] = count[p] + 1]
            /\ attempt' = [attempt EXCEPT ![p] = Append(attempt[p], "RUNNING")]
            /\ attemptToken' = [attemptToken EXCEPT ![p] = Append(attemptToken[p], k)]
        BY <2>3, <3>2 DEF RecordRefreshAttemptStarted
      <4>2. OnRuns(count') /\ OnRuns(attempt') /\ OnRuns(attemptToken')
        BY <1>1, <4>1, OnRunsExcept DEF RowsOnRuns
      <4> QED BY <1>1, <3>1, <4>2 DEF RowsOnRuns
    <3>3. CASE ~(Owned(p, k) /\ Remaining(p))
      BY <1>2, <2>3, <3>1, <3>3 DEF RecordRefreshAttemptStarted, rows, runRow, attemptRow
    <3> QED BY <3>2, <3>3
  <2>4. CASE RenewAtStart(w)
    BY <1>1, <2>4, OnRunsExcept DEF RenewAtStart, RenewRefreshAttemptLease, attemptRow, RowsOnRuns
  <2>5. CASE CompleteRefreshAttempt(w)
    <3> DEFINE p == cur[w]
    <3>1. UNCHANGED <<offsets, start, count, attemptToken>>
      BY <2>5 DEF CompleteRefreshAttempt
    <3>2. CASE Current(p, claim[w][p])
      <4>1. PICK s, a, t :
              /\ status' = [status EXCEPT ![p] = s]
              /\ attempt' = [attempt EXCEPT ![p][count[p]] = a]
              /\ nextAt' = [nextAt EXCEPT ![p] = t]
              /\ claimedAt' = [claimedAt EXCEPT ![p] = -1]
              /\ token' = [token EXCEPT ![p] = NoToken]
        BY <2>5, <3>2 DEF CompleteRefreshAttempt
      <4>2. /\ OnRuns(status') /\ OnRuns(nextAt') /\ OnRuns(claimedAt')
            /\ OnRuns(token') /\ OnRuns(attempt')
        BY <1>1, <4>1, OnRunsExcept DEF RowsOnRuns
      <4> QED BY <1>1, <3>1, <4>2 DEF RowsOnRuns
    <3>3. CASE ~Current(p, claim[w][p])
      BY <1>2, <2>5, <3>1, <3>3 DEF CompleteRefreshAttempt, rows, runRow, attemptRow
    <3> QED BY <3>2, <3>3
  <2>6. CASE \/ BeginPass(w) \/ ClaimWithoutShops(w) \/ FinishPass(w) \/ Preflight(w)
             \/ Execute(w) \/ Unlock(w) \/ \E q \in Run : TryLock(w, q)
    BY <1>2, <2>6
       DEF BeginPass, ClaimWithoutShops, FinishPass, Preflight, Execute, Unlock, TryLock
  <2> QED BY <1>4, <2>1, <2>2, <2>3, <2>4, <2>5, <2>6 DEF WorkerStep
<1>5. ASSUME NEW w \in Worker,
             HeartbeatFires(w) \/ Crash(w) \/ LoseLockSession(w) \/ StatementFails(w)
      PROVE  UNCHANGED rows
  BY <1>5 DEF HeartbeatFires, Crash, LoseLockSession, StatementFails
<1>6. ASSUME NEW w \in Worker, HeartbeatCommits(w) PROVE RowsOnRuns'
  BY <1>1, <1>6, OnRunsExcept DEF HeartbeatCommits, RenewRefreshAttemptLease, attemptRow, RowsOnRuns
<1> QED BY <1>2, <1>3, <1>4, <1>5, <1>6 DEF Next, vars

LEMMA TimeStep ==
  ASSUME TypeOK, [Next]_vars PROVE time \in Nat /\ time' \in 0..Horizon /\ time <= time'
<1>1. time \in 0..Horizon /\ Horizon \in Nat
  BY RefreshConstants DEF TypeOK
<1>2. CASE Tick
  BY <1>1, <1>2 DEF Tick
<1>3. ASSUME World, ~Tick PROVE UNCHANGED time
  BY <1>3 DEF World, Edit, SetAutoRefreshEnabled, SetRefreshRetryOffsets,
      SetRefreshCheckpointEnabled, UpdateRefreshCheckpoint, EligibilityChanges
<1>4. ASSUME NEW w \in Worker, WorkerStep(w) PROVE UNCHANGED time
  BY <1>4 DEF WorkerStep, BeginPass, ClaimWithoutShops, ClaimDueRefreshAttempts,
      FinishPass, ReleaseRefreshClaim, RecordRefreshAttemptStarted, RenewAtStart,
      Preflight, Execute, CompleteRefreshAttempt, Unlock, TryLock
<1>5. ASSUME NEW w \in Worker, \/ HeartbeatFires(w) \/ HeartbeatCommits(w) \/ Crash(w)
                               \/ LoseLockSession(w) \/ StatementFails(w)
      PROVE  UNCHANGED time
  BY <1>5 DEF HeartbeatFires, HeartbeatCommits, Crash, LoseLockSession, StatementFails
<1>6. ASSUME UNCHANGED vars PROVE UNCHANGED time
  BY <1>6 DEF vars
<1>7. time' = time \/ Tick
  BY <1>3, <1>4, <1>5, <1>6 DEF Next
<1> QED BY <1>1, <1>2, <1>7

LEMMA RowsTypeStep ==
  ASSUME IInv, [Next]_vars PROVE RowsType'
<1>1. time \in Nat /\ time' \in Nat /\ time <= time'
  BY TimeStep, RefreshConstants DEF IInv
<1>2. ASSUME NEW r \in Run PROVE RowType(r)'
  BY <1>1, NextMoves, MovesType, RowTyped DEF IInv, RowsOK
<1>3. RowsOnRuns'
  BY RowsStayOnRuns DEF IInv
<1> QED BY <1>2, <1>3 DEF RowsOnRuns, OnRuns, RowsType, RowType

LEMMA WorldTypeStep ==
  ASSUME TypeOK, [Next]_vars PROVE WorldType'
<1>1. WorldType /\ PassType
  BY TypeParts
<1>2. time' \in 0..Horizon
  BY TimeStep
<1>3. NoWorker \notin Worker /\ MaxEdits \in Nat /\ MaxFaults \in Nat
  BY RefreshConstants
<1>4. ASSUME UNCHANGED <<settings, lock, bounds>> PROVE WorldType'
  BY <1>1, <1>2, <1>4 DEF WorldType, settings, bounds
<1>5. ASSUME World PROVE WorldType'
  <2>1. CASE Tick
    BY <1>4, <2>1 DEF Tick
  <2>2. ASSUME Edit PROVE edits' \in 0..MaxEdits /\ faults' \in 0..MaxFaults /\ lock' = lock
    BY <1>1, <1>3, <2>2 DEF Edit, WorldType
  <2>3. CASE SetAutoRefreshEnabled \/ SetRefreshRetryOffsets
    BY <1>1, <1>2, <2>2, <2>3 DEF SetAutoRefreshEnabled, SetRefreshRetryOffsets, WorldType
  <2>4. ASSUME NEW c \in Checkpoint, SetRefreshCheckpointEnabled(c) PROVE WorldType'
    BY <1>1, <1>2, <2>2, <2>4 DEF SetRefreshCheckpointEnabled, WorldType
  <2>5. ASSUME NEW c \in Checkpoint, UpdateRefreshCheckpoint(c) PROVE WorldType'
    BY <1>1, <1>2, <2>2, <2>5 DEF UpdateRefreshCheckpoint, WorldType
  <2>6. ASSUME NEW s \in Shop, EligibilityChanges(s) PROVE WorldType'
    BY <1>1, <1>2, <2>2, <2>6 DEF EligibilityChanges, WorldType
  <2> QED BY <1>5, <2>1, <2>3, <2>4, <2>5, <2>6 DEF World
<1>6. ASSUME NEW w \in Worker, WorkerStep(w) PROVE WorldType'
  <2>1. ASSUME NEW r \in Run, TryLock(w, r) PROVE WorldType'
    BY <1>1, <1>2, <2>1 DEF TryLock, WorldType, settings, bounds
  <2>2. CASE Unlock(w)
    BY <1>1, <1>2, <2>2 DEF Unlock, LetGo, WorldType, settings, bounds
  <2>3. ASSUME ~Unlock(w), \A r \in Run : ~TryLock(w, r)
        PROVE  UNCHANGED <<settings, lock, bounds>>
    BY <1>6, <2>3 DEF WorkerStep, BeginPass, ClaimWithoutShops, ClaimDueRefreshAttempts,
      FinishPass, ReleaseRefreshClaim, RecordRefreshAttemptStarted, RenewAtStart,
      Preflight, Execute, CompleteRefreshAttempt
  <2> QED BY <1>4, <2>1, <2>2, <2>3
<1>7. ASSUME NEW kind, Fault(kind) PROVE faults' \in 0..MaxFaults
  BY <1>1, <1>3, <1>7 DEF Fault, WorldType
<1>8. ASSUME NEW w \in Worker, Crash(w) \/ LoseLockSession(w) PROVE WorldType'
  <2>1. faults' \in 0..MaxFaults /\ edits' = edits /\ UNCHANGED settings
    BY <1>7, <1>8 DEF Crash, LoseLockSession
  <2>2. lock' \in [Shop -> Worker \cup {NoWorker}]
    BY <1>1, <1>8 DEF Crash, LoseLockSession, WorldType
  <2> QED BY <1>1, <1>2, <2>1, <2>2 DEF WorldType, settings
<1>9. ASSUME NEW w \in Worker, StatementFails(w) PROVE WorldType'
  BY <1>1, <1>2, <1>7, <1>9 DEF StatementFails, WorldType, settings
<1>10. ASSUME NEW w \in Worker, HeartbeatFires(w) \/ HeartbeatCommits(w)
       PROVE  UNCHANGED <<settings, lock, bounds>>
  BY <1>10 DEF HeartbeatFires, HeartbeatCommits
<1>11. ASSUME UNCHANGED vars PROVE UNCHANGED <<settings, lock, bounds>>
  BY <1>11 DEF vars
<1> QED BY <1>4, <1>5, <1>6, <1>8, <1>9, <1>10, <1>11 DEF Next

LEMMA GotoType ==
  ASSUME PassType, NEW w \in Worker, NEW p \in Pc, Goto(w, p)
  PROVE  pc' \in [Worker -> Pc]
BY DEF PassType, Goto

LEMMA EndPassType ==
  ASSUME PassType, NEW w \in Worker, EndPass(w),
         UNCHANGED beat \/ beat' = [beat EXCEPT ![w] = NoBeat]
  PROVE  PassType'
<1>1. pc' \in [Worker -> Pc]
  BY GotoType DEF EndPass, Pc
<1>2. now' \in [Worker -> Instant] /\ shops' \in [Worker -> SUBSET Shop]
  <2>1. -1 \in Instant
    BY RefreshConstants DEF Instant
  <2> QED BY <2>1 DEF PassType, EndPass
<1>3. claim' \in [Worker -> [Run -> Token \cup {NoToken}]]
  <2>1. NoClaims \in [Run -> Token \cup {NoToken}]
    BY DEF NoClaims
  <2> QED BY <2>1 DEF PassType, EndPass
<1>4. cur' \in [Worker -> Run \cup {NoRun}] /\ result' \in [Worker -> {"SUCCESS", "FAILURE"}]
  BY DEF PassType, EndPass
<1>5. beat' \in [Worker -> [run : Run \cup {NoRun}, token : Token \cup {NoToken}, at : Instant]]
  <2>1. NoBeat \in [run : Run \cup {NoRun}, token : Token \cup {NoToken}, at : Instant]
    BY RefreshConstants DEF NoBeat, Instant
  <2> QED BY <2>1 DEF PassType
<1> QED BY <1>1, <1>2, <1>3, <1>4, <1>5 DEF PassType

LEMMA NextRunType ==
  ASSUME PassType, NEW w \in Worker, NextRun(w), cur[w] \in Run, UNCHANGED beat
  PROVE  PassType'
<1>1. pc' \in [Worker -> Pc]
  BY GotoType DEF NextRun, Pc
<1>2. claim' \in [Worker -> [Run -> Token \cup {NoToken}]]
  <2>1. [claim[w] EXCEPT ![cur[w]] = NoToken] \in [Run -> Token \cup {NoToken}]
    BY DEF PassType
  <2>2. claim' = [claim EXCEPT ![w] = [claim[w] EXCEPT ![cur[w]] = NoToken]]
    BY DEF NextRun
  <2> QED BY <2>1, <2>2 DEF PassType
<1>3. cur' \in [Worker -> Run \cup {NoRun}] /\ result' \in [Worker -> {"SUCCESS", "FAILURE"}]
  BY DEF PassType, NextRun
<1> QED BY <1>1, <1>2, <1>3 DEF PassType, NextRun

LEMMA PassTypeStep ==
  ASSUME IInv, [Next]_vars PROVE PassType'
<1>1. PassType
  BY TypeParts DEF IInv
<1>2. time \in Instant
  BY RefreshConstants DEF IInv, TypeOK, Instant
<1>3. ASSUME UNCHANGED <<pass, beat>> PROVE PassType'
  BY <1>1, <1>3 DEF PassType, pass
<1>4. ASSUME World PROVE UNCHANGED <<pass, beat>>
  BY <1>4 DEF World, Tick, Edit, SetAutoRefreshEnabled, SetRefreshRetryOffsets,
              SetRefreshCheckpointEnabled, UpdateRefreshCheckpoint, EligibilityChanges
<1>5. ASSUME NEW w \in Worker, NEW p \in Pc, Goto(w, p),
             UNCHANGED <<now, shops, claim, cur, result, beat>>
      PROVE  PassType'
  BY <1>1, <1>5, GotoType DEF PassType
<1>6. ASSUME NEW w \in Worker, WorkerStep(w) PROVE PassType'
  <2>1. CASE BeginPass(w)
    <3>1. pc' \in [Worker -> Pc]
      BY <1>1, <2>1, GotoType DEF BeginPass, Pc
    <3>2. now' \in [Worker -> Instant] /\ shops' \in [Worker -> SUBSET Shop]
      BY <1>1, <1>2, <2>1 DEF BeginPass, PassType, IInv, TypeOK
    <3> QED BY <1>1, <2>1, <3>1, <3>2 DEF BeginPass, PassType
  <2>2. CASE ClaimWithoutShops(w) \/ FinishPass(w)
    BY <1>1, <2>2, EndPassType DEF ClaimWithoutShops, FinishPass
  <2>3. CASE ClaimDueRefreshAttempts(w)
    <3>1. PICK ready \in SUBSET Run :
            /\ \A r \in ready : Token \ Known(r) # {}
            /\ claim' = [claim EXCEPT ![w] =
                 [r \in Run |-> IF r \in ready THEN NewToken(r) ELSE NoToken]]
      BY <2>3, ClaimReady
    <3>2. [r \in Run |-> IF r \in ready THEN NewToken(r) ELSE NoToken]
            \in [Run -> Token \cup {NoToken}]
      BY <3>1, TokenType
    <3>3. claim' \in [Worker -> [Run -> Token \cup {NoToken}]]
      BY <1>1, <3>1, <3>2 DEF PassType
    <3>4. pc' \in [Worker -> Pc]
      BY <1>1, <2>3, GotoType DEF ClaimDueRefreshAttempts, Goto, Pc
    <3>5. UNCHANGED <<now, shops, cur, result, beat>>
      BY <2>3 DEF ClaimDueRefreshAttempts
    <3> QED BY <1>1, <3>3, <3>4, <3>5 DEF PassType
  <2>4. CASE ReleaseRefreshClaim(w)
    BY <1>1, <2>4, NextRunType, RunOf DEF ReleaseRefreshClaim
  <2>5. CASE RecordRefreshAttemptStarted(w)
    BY <1>5, <2>5 DEF RecordRefreshAttemptStarted, Pc
  <2>6. CASE RenewAtStart(w)
    BY <1>5, <2>6 DEF RenewAtStart, Pc
  <2>7. CASE Preflight(w)
    BY <1>5, <2>7 DEF Preflight, Pc
  <2>8. CASE Execute(w)
    <3>1. pc' \in [Worker -> Pc]
      BY <1>1, <2>8, GotoType DEF Execute, Pc
    <3>2. result' \in [Worker -> {"SUCCESS", "FAILURE"}]
      BY <1>1, <2>8 DEF Execute, PassType
    <3> QED BY <1>1, <2>8, <3>1, <3>2 DEF Execute, PassType
  <2>9. CASE CompleteRefreshAttempt(w)
    <3>1. \E p \in Pc : Goto(w, p)
      BY <2>9 DEF CompleteRefreshAttempt, Pc
    <3>2. UNCHANGED <<now, shops, claim, cur, result, beat>>
      BY <2>9 DEF CompleteRefreshAttempt
    <3> QED BY <1>5, <3>1, <3>2
  <2>10. CASE Unlock(w)
    <3>1. cur[w] \in Run
      BY <2>10, RunOf DEF Unlock
    <3>2. UNCHANGED beat /\ (NextRun(w) \/ EndPass(w))
      BY <2>10 DEF Unlock
    <3> QED BY <1>1, <3>1, <3>2, NextRunType, EndPassType
  <2>11. ASSUME NEW r \in Run, TryLock(w, r) PROVE PassType'
    <3>1. pc' \in [Worker -> Pc]
      BY <1>1, <2>11, GotoType DEF TryLock, Pc
    <3>2. cur' \in [Worker -> Run \cup {NoRun}]
      BY <1>1, <2>11 DEF TryLock, PassType
    <3>3. UNCHANGED <<now, shops, claim, result, beat>>
      BY <2>11 DEF TryLock
    <3> QED BY <1>1, <3>1, <3>2, <3>3 DEF PassType
  <2> QED BY <1>6, <2>1, <2>2, <2>3, <2>4, <2>5, <2>6, <2>7, <2>8, <2>9, <2>10, <2>11
          DEF WorkerStep
<1>7. ASSUME NEW w \in Worker, HeartbeatFires(w) PROVE PassType'
  <2>1. cur[w] \in Run
    BY <1>7, RunOf DEF HeartbeatFires
  <2>2. claim[w][cur[w]] \in Token \cup {NoToken}
    BY <1>1, <2>1 DEF PassType
  <2>3. [run |-> cur[w], token |-> claim[w][cur[w]], at |-> time]
          \in [run : Run \cup {NoRun}, token : Token \cup {NoToken}, at : Instant]
    BY <1>2, <2>1, <2>2
  <2>4. UNCHANGED <<pc, now, shops, claim, cur, result>>
    BY <1>7 DEF HeartbeatFires, pass
  <2>5. beat' = [beat EXCEPT ![w] = [run |-> cur[w], token |-> claim[w][cur[w]], at |-> time]]
    BY <1>7 DEF HeartbeatFires
  <2> QED BY <1>1, <2>3, <2>4, <2>5 DEF PassType
<1>8. ASSUME NEW w \in Worker, HeartbeatCommits(w) PROVE PassType'
  <2>1. NoBeat \in [run : Run \cup {NoRun}, token : Token \cup {NoToken}, at : Instant]
    BY RefreshConstants DEF NoBeat, Instant
  <2> QED BY <1>1, <1>8, <2>1 DEF HeartbeatCommits, PassType, pass
<1>9. ASSUME NEW w \in Worker, Crash(w) PROVE PassType'
  BY <1>1, <1>9, EndPassType DEF Crash
<1>10. ASSUME NEW w \in Worker, LoseLockSession(w) PROVE PassType'
  BY <1>3, <1>10 DEF LoseLockSession
<1>11. ASSUME NEW w \in Worker, StatementFails(w) PROVE PassType'
  <2>1. CASE EndPass(w)
    BY <1>1, <1>11, <2>1, EndPassType DEF StatementFails
  <2>2. CASE ~EndPass(w)
    <3>1. \E p \in Pc : Goto(w, p)
      BY <1>11, <2>2 DEF StatementFails, Pc
    <3>2. UNCHANGED <<now, shops, claim, cur, result, beat>>
      BY <1>11, <2>2 DEF StatementFails
    <3> QED BY <1>5, <3>1, <3>2
  <2> QED BY <2>1, <2>2
<1> QED BY <1>3, <1>4, <1>6, <1>7, <1>8, <1>9, <1>10, <1>11 DEF Next, vars

LEMMA RefreshedStep ==
  ASSUME IInv, [Next]_vars PROVE (refreshed \subseteq Run \X Nat)'
<1>1. refreshed \subseteq Run \X Nat
  BY DEF IInv, TypeOK
<1>2. ASSUME NEW w \in Worker, Execute(w) PROVE refreshed' \subseteq Run \X Nat
  <2> DEFINE r == cur[w]
             n == CHOOSE m \in DOMAIN attempt[r] : attemptToken[r][m] = claim[w][r]
  <2>1. r \in Run
    BY <1>2, RunOf DEF Execute
  <2>2. \E m \in DOMAIN attemptToken[r] : attemptToken[r][m] = claim[w][r]
    BY <1>2 DEF Execute, IInv, Begun
  <2>3. DOMAIN attempt[r] = DOMAIN attemptToken[r] /\ DOMAIN attempt[r] \subseteq Nat
    BY <2>1, RowTyped DEF IInv, RowsOK, RowOK, Explained, RowType
  <2>4. n \in Nat
    BY <2>2, <2>3
  <2>5. refreshed' = refreshed \/ refreshed' = refreshed \cup {<<r, n>>}
    BY <1>2 DEF Execute
  <2> HIDE DEF r, n
  <2> QED BY <1>1, <2>1, <2>4, <2>5
<1>3. ASSUME World PROVE UNCHANGED refreshed
  BY <1>3 DEF World, Tick, Edit, SetAutoRefreshEnabled, SetRefreshRetryOffsets,
              SetRefreshCheckpointEnabled, UpdateRefreshCheckpoint, EligibilityChanges
<1>4. ASSUME NEW w \in Worker, WorkerStep(w), ~Execute(w) PROVE UNCHANGED refreshed
  BY <1>4 DEF WorkerStep, BeginPass, ClaimWithoutShops, ClaimDueRefreshAttempts,
      FinishPass, ReleaseRefreshClaim, RecordRefreshAttemptStarted, RenewAtStart,
      Preflight, CompleteRefreshAttempt, Unlock, TryLock
<1>5. ASSUME NEW w \in Worker, \/ HeartbeatFires(w) \/ HeartbeatCommits(w) \/ Crash(w)
                               \/ LoseLockSession(w) \/ StatementFails(w)
      PROVE  UNCHANGED refreshed
  BY <1>5 DEF HeartbeatFires, HeartbeatCommits, Crash, LoseLockSession, StatementFails
<1>6. ASSUME UNCHANGED vars PROVE UNCHANGED refreshed
  BY <1>6 DEF vars
<1> QED BY <1>1, <1>2, <1>3, <1>4, <1>5, <1>6 DEF Next

LEMMA TypeStep == ASSUME IInv, [Next]_vars PROVE TypeOK'
<1>1. TypeOK
  BY DEF IInv
<1>2. RowsType' /\ WorldType' /\ PassType' /\ (refreshed \subseteq Run \X Nat)'
  BY <1>1, RowsTypeStep, WorldTypeStep, PassTypeStep, RefreshedStep
<1> QED BY <1>2 DEF TypeOK, RowsType, WorldType, PassType

-----------------------------------------------------------------------------
(* What a step does to the pass of a worker.                               *)

Stays(v) ==
  pc'[v] = pc[v] /\ now'[v] = now[v] /\ claim'[v] = claim[v] /\ cur'[v] = cur[v]

Ends(w) == pc'[w] = "idle" /\ now'[w] = -1 /\ claim'[w] = NoClaims /\ cur'[w] = NoRun

Begins(w) ==
  /\ pc[w] = "idle" /\ pc'[w] = "claim" /\ now'[w] = time
  /\ claim'[w] = claim[w] /\ cur'[w] = cur[w]

Claims(w) ==
  /\ pc[w] = "claim" /\ pc'[w] = "next" /\ now'[w] = now[w] /\ cur'[w] = cur[w]
  /\ \A r \in Run : claim'[w][r] # NoToken => claim'[w][r] \notin Known(r)

Picks(w) ==
  /\ pc[w] = "next" /\ pc'[w] \in {"start", "release"}
  /\ now'[w] = now[w] /\ claim'[w] = claim[w] /\ cur'[w] \in Run

Leaves(w) ==
  /\ cur[w] \in Run /\ pc'[w] = "next" /\ now'[w] = now[w]
  /\ \A r \in Run : claim'[w][r] = IF r = cur[w] THEN NoToken ELSE claim[w][r]
  /\ cur'[w] = NoRun

Working == {"renew", "preflight", "execute"}

Goes(w) ==
  /\ cur[w] \in Run /\ now'[w] = now[w] /\ claim'[w] = claim[w] /\ cur'[w] = cur[w]
  /\ pc'[w] \in {"preflight", "execute", "complete", "unlock", "unwind"}
  /\ pc'[w] \in Working => pc[w] \in Working

Records(w) ==
  /\ cur[w] \in Run /\ now'[w] = now[w] /\ claim'[w] = claim[w] /\ cur'[w] = cur[w]
  /\ pc[w] = "start" /\ pc'[w] = "renew" /\ claim[w][cur[w]] \in Token
  /\ \A r \in Run : attemptToken'[r] = IF r = cur[w]
                                       THEN Append(attemptToken[r], claim[w][r])
                                       ELSE attemptToken[r]

PassMoves(w) ==
  \/ Records(w)
  \/ /\ UNCHANGED attemptToken
     /\ Stays(w) \/ Ends(w) \/ Begins(w) \/ Claims(w) \/ Picks(w) \/ Leaves(w) \/ Goes(w)

BeatMoves(v) ==
  beat'[v] = beat[v] \/ beat'[v] = NoBeat \/ (beat'[v].at = time /\ beat'[v] # NoBeat)

\* Only one worker's pass moves.
LEMMA WorkerMoves ==
  ASSUME IInv, NEW w \in Worker, WorkerStep(w)
  PROVE  PassMoves(w) /\ \A v \in Worker \ {w} : Stays(v)
<1>1. /\ PassType
      /\ pc \in [Worker -> Pc] /\ now \in [Worker -> Instant] /\ shops \in [Worker -> SUBSET Shop]
      /\ claim \in [Worker -> [Run -> Token \cup {NoToken}]]
      /\ cur \in [Worker -> Run \cup {NoRun}]
  BY TypeParts DEF IInv, PassType
<1>2. ASSUME EndPass(w) PROVE Ends(w) /\ \A v \in Worker \ {w} : Stays(v)
  BY <1>1, <1>2 DEF EndPass, Goto, Ends, Stays
<1>3. ASSUME NextRun(w), cur[w] \in Run PROVE Leaves(w) /\ \A v \in Worker \ {w} : Stays(v)
  <2>1. claim' = [claim EXCEPT ![w] = [claim[w] EXCEPT ![cur[w]] = NoToken]]
    BY <1>3 DEF NextRun
  <2>2. claim'[w] = [claim[w] EXCEPT ![cur[w]] = NoToken]
    BY <1>1, <2>1
  <2>3. \A r \in Run : claim'[w][r] = IF r = cur[w] THEN NoToken ELSE claim[w][r]
    BY <1>1, <2>2
  <2>4. \A v \in Worker \ {w} : claim'[v] = claim[v]
    BY <1>1, <2>1
  <2> QED BY <1>1, <1>3, <2>3, <2>4 DEF NextRun, Goto, Leaves, Stays
<1>4. ASSUME NEW p, Goto(w, p), UNCHANGED <<now, claim, cur>>
      PROVE  /\ pc'[w] = p /\ now'[w] = now[w] /\ claim'[w] = claim[w] /\ cur'[w] = cur[w]
             /\ \A v \in Worker \ {w} : Stays(v)
  BY <1>1, <1>4 DEF Goto, Stays
<1>5. CASE BeginPass(w)
  <2>1. Begins(w) /\ \A v \in Worker \ {w} : Stays(v)
    BY <1>1, <1>5 DEF BeginPass, Goto, Begins, Stays
  <2> QED BY <1>5, <2>1 DEF BeginPass, PassMoves, rows, attemptRow
<1>6. CASE ClaimWithoutShops(w) \/ FinishPass(w)
  BY <1>2, <1>6 DEF ClaimWithoutShops, FinishPass, PassMoves, rows, attemptRow
<1>7. CASE ClaimDueRefreshAttempts(w)
  <2>1. PICK ready \in SUBSET Run :
          /\ \A r \in ready : Token \ Known(r) # {}
          /\ claim' = [claim EXCEPT ![w] =
               [r \in Run |-> IF r \in ready THEN NewToken(r) ELSE NoToken]]
    BY <1>7, ClaimReady
  <2>2. claim'[w] = [r \in Run |-> IF r \in ready THEN NewToken(r) ELSE NoToken]
        /\ \A v \in Worker \ {w} : claim'[v] = claim[v]
    BY <1>1, <2>1
  <2>3. \A r \in Run : claim'[w][r] # NoToken => claim'[w][r] \notin Known(r)
    BY <2>1, <2>2, TokenType
  <2>4. pc[w] = "claim" /\ pc' = [pc EXCEPT ![w] = "next"] /\ UNCHANGED <<now, cur, attemptToken>>
    BY <1>7 DEF ClaimDueRefreshAttempts
  <2>5. pc'[w] = "next" /\ \A v \in Worker \ {w} : pc'[v] = pc[v]
    BY <1>1, <2>4
  <2> QED BY <2>2, <2>3, <2>4, <2>5 DEF Claims, Stays, PassMoves
<1>8. CASE ReleaseRefreshClaim(w)
  <2>1. cur[w] \in Run /\ NextRun(w) /\ UNCHANGED attemptToken
    BY <1>8, RunOf DEF ReleaseRefreshClaim, attemptRow
  <2> QED BY <1>3, <2>1 DEF PassMoves
<1>9. CASE RecordRefreshAttemptStarted(w)
  <2> DEFINE p == cur[w]
             k == claim[w][p]
  <2>1. p \in Run /\ pc[w] = "start" /\ UNCHANGED <<now, claim, cur>>
    BY <1>9, RunOf DEF RecordRefreshAttemptStarted
  <2>2. CASE Owned(p, k) /\ Remaining(p)
    <3>1. Goto(w, "renew") /\ attemptToken' = [attemptToken EXCEPT ![p] = Append(attemptToken[p], k)]
      BY <1>9, <2>2 DEF RecordRefreshAttemptStarted
    <3>2. \A r \in Run : attemptToken'[r] = IF r = p THEN Append(attemptToken[r], claim[w][r])
                                            ELSE attemptToken[r]
      <4>1. attemptToken \in [Run -> Seq(Token)]
        BY DEF IInv, TypeOK
      <4> QED BY <2>1, <3>1, <4>1
    <3>3. k \in Token
      <4>1. k = token[p] /\ token[p] # NoToken
        BY <2>1, <2>2 DEF Owned, IInv, RowsOK, RowOK, Explained
      <4> QED BY <1>1, <2>1, <4>1
    <3> QED BY <1>4, <2>1, <3>1, <3>2, <3>3 DEF Records, PassMoves
  <2>3. CASE ~(Owned(p, k) /\ Remaining(p))
    <3>1. Goto(w, "unwind") /\ UNCHANGED attemptToken
      BY <1>9, <2>3 DEF RecordRefreshAttemptStarted
    <3> QED BY <1>4, <2>1, <3>1 DEF Goes, PassMoves, Working
  <2> QED BY <2>2, <2>3
<1>10. CASE RenewAtStart(w) \/ Preflight(w) \/ Execute(w) \/ CompleteRefreshAttempt(w)
  <2>1. cur[w] \in Run
    BY <1>10, RunOf DEF RenewAtStart, Preflight, Execute, CompleteRefreshAttempt
  <2>2. UNCHANGED <<now, claim, cur, attemptToken>>
    BY <1>10 DEF RenewAtStart, Preflight, Execute, CompleteRefreshAttempt, rows, attemptRow
  <2>3. PICK p \in {"preflight", "execute", "complete", "unlock", "unwind"} :
          Goto(w, p) /\ (p \in Working => pc[w] \in Working)
    BY <1>10 DEF RenewAtStart, Preflight, Execute, CompleteRefreshAttempt, Working
  <2> QED BY <1>4, <2>1, <2>2, <2>3 DEF Goes, PassMoves
<1>11. CASE Unlock(w)
  <2>1. cur[w] \in Run
    BY <1>11, RunOf DEF Unlock
  <2>2. UNCHANGED attemptToken /\ (NextRun(w) \/ EndPass(w))
    BY <1>11 DEF Unlock, rows, attemptRow
  <2> QED BY <1>2, <1>3, <2>1, <2>2 DEF PassMoves
<1>12. ASSUME NEW r \in Run, TryLock(w, r)
       PROVE  PassMoves(w) /\ \A v \in Worker \ {w} : Stays(v)
  <2>1. /\ pc[w] = "next" /\ cur' = [cur EXCEPT ![w] = r]
        /\ UNCHANGED <<now, claim, attemptToken>>
        /\ \E p \in {"start", "release"} : pc' = [pc EXCEPT ![w] = p]
    BY <1>12 DEF TryLock, Goto, rows, attemptRow
  <2> QED BY <1>1, <2>1 DEF Picks, Stays, PassMoves
<1> QED BY <1>5, <1>6, <1>7, <1>8, <1>9, <1>10, <1>11, <1>12 DEF WorkerStep

LEMMA NextPassMoves ==
  ASSUME IInv, [Next]_vars
  PROVE  \/ UNCHANGED attemptToken /\ \A v \in Worker : Stays(v)
         \/ \E w \in Worker : PassMoves(w) /\ \A v \in Worker \ {w} : Stays(v)
<1>1. /\ pc \in [Worker -> Pc] /\ now \in [Worker -> Instant]
      /\ claim \in [Worker -> [Run -> Token \cup {NoToken}]]
      /\ cur \in [Worker -> Run \cup {NoRun}]
  BY DEF IInv, TypeOK
<1>2. ASSUME UNCHANGED <<pass, attemptToken>>
      PROVE  UNCHANGED attemptToken /\ \A v \in Worker : Stays(v)
  BY <1>2 DEF pass, Stays
<1>3. ASSUME World PROVE UNCHANGED <<pass, attemptToken>>
  BY <1>3 DEF World, Tick, Edit, SetAutoRefreshEnabled, SetRefreshRetryOffsets, rows, attemptRow,
              SetRefreshCheckpointEnabled, UpdateRefreshCheckpoint, EligibilityChanges
<1>4. ASSUME NEW w \in Worker, HeartbeatFires(w) \/ HeartbeatCommits(w) \/ LoseLockSession(w)
      PROVE  UNCHANGED <<pass, attemptToken>>
  BY <1>4 DEF HeartbeatFires, HeartbeatCommits, LoseLockSession, rows, attemptRow
<1>5. ASSUME NEW w \in Worker, EndPass(w), UNCHANGED attemptToken
      PROVE  PassMoves(w) /\ \A v \in Worker \ {w} : Stays(v)
  BY <1>1, <1>5 DEF EndPass, Goto, Ends, Stays, PassMoves
<1>6. ASSUME NEW w \in Worker, Crash(w) \/ StatementFails(w)
      PROVE  PassMoves(w) /\ \A v \in Worker \ {w} : Stays(v)
  <2>1. UNCHANGED attemptToken
    BY <1>6 DEF Crash, StatementFails, rows, attemptRow
  <2>2. CASE EndPass(w)
    BY <1>5, <2>1, <2>2
  <2>3. CASE ~EndPass(w)
    <3>1. /\ UNCHANGED <<now, claim, cur>>
          /\ pc[w] \notin {"idle", "claim", "next"}
          /\ \E p \in {"complete", "unlock", "unwind"} : Goto(w, p)
      BY <1>6, <2>3 DEF Crash, StatementFails
    <3>2. cur[w] \in Run
      BY <3>1, RunOf
    <3> QED BY <1>1, <2>1, <3>1, <3>2 DEF Goto, Goes, Stays, PassMoves, Working
  <2> QED BY <2>2, <2>3
<1>7. CASE UNCHANGED vars
  BY <1>2, <1>7 DEF vars, rows, attemptRow
<1> QED BY <1>2, <1>3, <1>4, <1>6, <1>7, WorkerMoves DEF Next

LEMMA NextBeatMoves ==
  ASSUME IInv, [Next]_vars, NEW v \in Worker PROVE BeatMoves(v)
<1>1. beat \in [Worker -> [run : Run \cup {NoRun}, token : Token \cup {NoToken}, at : Instant]]
  BY DEF IInv, TypeOK
<1>2. ASSUME UNCHANGED beat PROVE BeatMoves(v)
  BY <1>2 DEF BeatMoves
<1>3. ASSUME World PROVE UNCHANGED beat
  BY <1>3 DEF World, Tick, Edit, SetAutoRefreshEnabled, SetRefreshRetryOffsets,
              SetRefreshCheckpointEnabled, UpdateRefreshCheckpoint, EligibilityChanges
<1>4. ASSUME NEW w \in Worker, WorkerStep(w) PROVE UNCHANGED beat
  BY <1>4 DEF WorkerStep, BeginPass, ClaimWithoutShops, ClaimDueRefreshAttempts,
      FinishPass, ReleaseRefreshClaim, RecordRefreshAttemptStarted, RenewAtStart,
      Preflight, Execute, CompleteRefreshAttempt, Unlock, TryLock
<1>5. ASSUME NEW w \in Worker, LoseLockSession(w) \/ StatementFails(w) PROVE UNCHANGED beat
  BY <1>5 DEF LoseLockSession, StatementFails
<1>6. ASSUME NEW w \in Worker, HeartbeatCommits(w) \/ Crash(w) PROVE BeatMoves(v)
  <2>1. beat' = [beat EXCEPT ![w] = NoBeat] \/ beat' = beat
    BY <1>6 DEF HeartbeatCommits, Crash
  <2> QED BY <1>1, <2>1 DEF BeatMoves
<1>7. ASSUME NEW w \in Worker, HeartbeatFires(w) PROVE BeatMoves(v)
  <2> DEFINE b == [run |-> cur[w], token |-> claim[w][cur[w]], at |-> time]
  <2>1. beat' = [beat EXCEPT ![w] = b]
    BY <1>7 DEF HeartbeatFires
  <2>2. b.at = time /\ b # NoBeat
    <3>1. b.at = time /\ NoBeat.at = -1 /\ time \in Nat
      BY TimeStep DEF IInv, NoBeat
    <3> QED BY <3>1
  <2> HIDE DEF b
  <2> QED BY <1>1, <2>1, <2>2 DEF BeatMoves
<1>8. CASE UNCHANGED vars
  BY <1>2, <1>8 DEF vars
<1> QED BY <1>2, <1>3, <1>4, <1>5, <1>6, <1>7, <1>8 DEF Next

LEMMA InTimeStep == ASSUME IInv, [Next]_vars PROVE InTime'
<1>1. time \in Nat /\ time' \in Nat /\ time <= time'
  BY TimeStep, RefreshConstants DEF IInv
<1>2. ASSUME NEW v \in Worker
      PROVE  now'[v] <= time' /\ (pc'[v] = "claim" => now'[v] # -1)
  <2>1. now[v] <= time /\ now[v] \in Int /\ (pc[v] = "claim" => now[v] # -1)
    BY RefreshConstants DEF IInv, InTime, TypeOK, Instant
  <2>2. CASE Stays(v)
    BY <1>1, <2>1, <2>2 DEF Stays
  <2>3. CASE PassMoves(v)
    BY <1>1, <2>1, <2>3 DEF PassMoves, Stays, Ends, Begins, Claims, Picks, Leaves, Goes, Records
  <2> QED BY <2>2, <2>3, NextPassMoves
<1>3. ASSUME NEW v \in Worker
      PROVE  beat'[v].at <= time' /\ (beat'[v] # NoBeat => beat'[v].at # -1)
  <2>1. /\ beat[v].at <= time /\ beat[v].at \in Int
        /\ beat[v] # NoBeat => beat[v].at # -1
    BY RefreshConstants DEF IInv, InTime, TypeOK, Instant
  <2>2. NoBeat.at = -1
    BY DEF NoBeat
  <2> QED BY <1>1, <2>1, <2>2, NextBeatMoves DEF BeatMoves
<1> QED BY <1>2, <1>3 DEF InTime

LEMMA AtRunStep == ASSUME IInv, [Next]_vars PROVE AtRun'
<1>1. NoRun \notin Run
  BY RefreshConstants
<1>2. ASSUME NEW v \in Worker PROVE cur'[v] = NoRun <=> pc'[v] \in {"idle", "claim", "next"}
  <2>1. cur[v] = NoRun <=> pc[v] \in {"idle", "claim", "next"}
    BY DEF IInv, AtRun
  <2>2. CASE Stays(v)
    BY <2>1, <2>2 DEF Stays
  <2>3. CASE PassMoves(v)
    BY <1>1, <2>1, <2>3 DEF PassMoves, Stays, Ends, Begins, Claims, Picks, Leaves, Goes, Records
  <2> QED BY <2>2, <2>3, NextPassMoves
<1> QED BY <1>2 DEF AtRun

\* What becomes of the claims a worker carries.
LEMMA ClaimKept ==
  ASSUME NEW w \in Worker, PassMoves(w) \/ Stays(w), NEW r \in Run
  PROVE  \/ claim'[w][r] \in {claim[w][r], NoToken}
         \/ claim'[w][r] \notin Known(r)
BY DEF PassMoves, Stays, Ends, Begins, Claims, Picks, Leaves, Goes, Records, NoClaims

LEMMA ClaimsApartStep == ASSUME IInv, [Next]_vars PROVE ClaimsApart'
<1>1. ASSUME NEW u \in Worker, NEW v \in Worker, NEW r \in Run, v # u, Stays(v),
             PassMoves(u) \/ Stays(u), claim'[u][r] # NoToken
      PROVE  claim'[u][r] # claim'[v][r]
  <2>1. claim'[v][r] = claim[v][r]
    BY <1>1 DEF Stays
  <2>2. CASE claim'[u][r] = claim[u][r]
    BY <1>1, <2>1, <2>2 DEF IInv, ClaimsApart
  <2>3. CASE claim'[u][r] \notin Known(r)
    <3>1. claim[v][r] \in Known(r)
      BY DEF Known
    <3> QED BY <2>1, <2>3, <3>1
  <2> QED BY <1>1, <2>2, <2>3, ClaimKept
<1>2. ASSUME NEW u \in Worker, NEW v \in Worker, NEW r \in Run, u # v,
             claim'[u][r] = claim'[v][r], claim'[u][r] # NoToken
      PROVE  FALSE
  <2>1. \/ (PassMoves(u) \/ Stays(u)) /\ Stays(v)
        \/ (PassMoves(v) \/ Stays(v)) /\ Stays(u)
    BY <1>2, NextPassMoves
  <2> QED BY <1>1, <1>2, <2>1
<1> QED BY <1>2 DEF ClaimsApart

LEMMA FreshStep == ASSUME IInv, [Next]_vars PROVE Fresh'
<1> SUFFICES ASSUME NEW v \in Worker, NEW r \in Run, Unbegun(v, r)',
                    NEW n \in DOMAIN attemptToken'[r]
             PROVE  attemptToken'[r][n] # claim'[v][r]
  BY DEF Fresh
<1>1. claim'[v][r] # NoToken /\ (cur'[v] # r \/ pc'[v] \in {"release", "start"})
  BY DEF Unbegun
<1>2. attemptToken[r] \in Seq(Token)
  BY DEF IInv, TypeOK
<1>3. NoRun # r
  BY RefreshConstants
<1>4. \/ claim'[v][r] = claim[v][r] /\ Unbegun(v, r)
      \/ claim'[v][r] \notin Known(r) /\ attemptToken'[r] = attemptToken[r]
  <2>1. cur[v] = NoRun <=> pc[v] \in {"idle", "claim", "next"}
    BY DEF IInv, AtRun
  <2>2. CASE Stays(v)
    BY <1>1, <2>2 DEF Stays, Unbegun
  <2>3. CASE PassMoves(v)
    <3>1. ~Ends(v)
      BY <1>1 DEF Ends, NoClaims
    <3> QED BY <1>1, <1>3, <2>1, <2>3, <3>1
            DEF PassMoves, Stays, Begins, Claims, Picks, Leaves, Goes, Records, Unbegun
  <2> QED BY <2>2, <2>3, NextPassMoves
<1>5. CASE claim'[v][r] \notin Known(r) /\ attemptToken'[r] = attemptToken[r]
  BY <1>5 DEF Known
<1>6. CASE claim'[v][r] = claim[v][r] /\ Unbegun(v, r)
  <2>1. \A m \in DOMAIN attemptToken[r] : attemptToken[r][m] # claim[v][r]
    BY <1>6 DEF IInv, Fresh
  <2>2. CASE attemptToken'[r] = attemptToken[r]
    BY <1>6, <2>1, <2>2
  <2>3. ASSUME NEW w \in Worker, Records(w), cur[w] = r, w = v \/ Stays(v)
        PROVE  attemptToken'[r][n] # claim'[v][r]
    <3>1. w # v
      BY <1>1, <2>3 DEF Records
    <3>2. claim[w][r] # claim[v][r]
      BY <1>1, <1>6, <3>1 DEF IInv, ClaimsApart
    <3>3. attemptToken'[r] = Append(attemptToken[r], claim[w][r]) /\ claim[w][r] \in Token
      BY <2>3 DEF Records
    <3>4. attemptToken'[r][n] = claim[w][r]
            \/ (n \in DOMAIN attemptToken[r] /\ attemptToken'[r][n] = attemptToken[r][n])
      BY <1>2, <3>3
    <3> QED BY <1>6, <2>1, <3>2, <3>4
  <2>4. \/ attemptToken'[r] = attemptToken[r]
        \/ \E w \in Worker : Records(w) /\ cur[w] = r /\ (w = v \/ Stays(v))
    <3>1. CASE UNCHANGED attemptToken
      BY <3>1
    <3>2. ASSUME NEW w \in Worker, Records(w), \A u \in Worker \ {w} : Stays(u)
          PROVE  \/ attemptToken'[r] = attemptToken[r]
                 \/ Records(w) /\ cur[w] = r /\ (w = v \/ Stays(v))
      BY <3>2 DEF Records
    <3> QED BY <3>1, <3>2, NextPassMoves DEF PassMoves
  <2> QED BY <2>2, <2>3, <2>4
<1> QED BY <1>4, <1>5, <1>6

LEMMA BegunStep == ASSUME IInv, [Next]_vars PROVE Begun'
<1> SUFFICES ASSUME NEW v \in Worker, pc'[v] \in Working
             PROVE  \E n \in DOMAIN attemptToken'[cur'[v]] :
                      attemptToken'[cur'[v]][n] = claim'[v][cur'[v]]
  BY DEF Begun, Working
<1>1. CASE Records(v)
  <2> DEFINE r == cur[v]
  <2>1. /\ r \in Run /\ cur'[v] = r /\ claim'[v][r] = claim[v][r] /\ claim[v][r] \in Token
        /\ attemptToken'[r] = Append(attemptToken[r], claim[v][r])
    BY <1>1 DEF Records
  <2>2. attemptToken[r] \in Seq(Token)
    BY <2>1 DEF IInv, TypeOK
  <2>3. /\ Len(attemptToken[r]) + 1 \in DOMAIN attemptToken'[r]
        /\ attemptToken'[r][Len(attemptToken[r]) + 1] = claim[v][r]
    BY <2>1, <2>2
  <2> QED BY <2>1, <2>3
<1>2. CASE ~Records(v)
  <2> DEFINE r == cur[v]
  <2>1. pc[v] \in Working /\ cur'[v] = cur[v] /\ claim'[v] = claim[v]
    <3>1. CASE Stays(v)
      BY <3>1 DEF Stays
    <3>2. CASE PassMoves(v)
      BY <1>2, <3>2 DEF PassMoves, Stays, Ends, Begins, Claims, Picks, Leaves, Goes, Working
    <3> QED BY <3>1, <3>2, NextPassMoves
  <2>2. r \in Run
    BY <2>1, RunOf DEF Working
  <2>3. attemptToken[r] \in Seq(Token)
    BY <2>2 DEF IInv, TypeOK
  <2>4. PICK n \in DOMAIN attemptToken[r] : attemptToken[r][n] = claim[v][r]
    BY <2>1 DEF IInv, Begun, Working
  <2>5. \/ attemptToken'[r] = attemptToken[r]
        \/ \E k \in Token : attemptToken'[r] = Append(attemptToken[r], k)
    <3>1. ASSUME NEW w \in Worker, Records(w)
          PROVE  \/ attemptToken'[r] = attemptToken[r]
                 \/ \E k \in Token : attemptToken'[r] = Append(attemptToken[r], k)
      BY <2>2, <3>1 DEF Records
    <3> QED BY <3>1, NextPassMoves DEF PassMoves
  <2>6. n \in DOMAIN attemptToken'[r] /\ attemptToken'[r][n] = attemptToken[r][n]
    BY <2>3, <2>4, <2>5
  <2> QED BY <2>1, <2>4, <2>6
<1> QED BY <1>1, <1>2

-----------------------------------------------------------------------------
(* The theorems.                                                           *)

LEMMA InitInv == Init => IInv
<1> SUFFICES ASSUME Init PROVE IInv
  OBVIOUS
<1>1. RowsType
  BY DEF Init, RowsType, Status
<1>2. WorldType
  BY RefreshConstants DEF Init, WorldType
<1>3. PassType
  <2>1. -1 \in Instant
    BY RefreshConstants DEF Instant
  <2>2. NoBeat \in [run : Run \cup {NoRun}, token : Token \cup {NoToken}, at : Instant]
    BY <2>1 DEF NoBeat
  <2>3. NoClaims \in [Run -> Token \cup {NoToken}]
    BY DEF NoClaims
  <2> QED BY <2>1, <2>2, <2>3 DEF Init, PassType, Pc
<1>4. TypeOK
  BY <1>1, <1>2, <1>3, TypeParts DEF Init
<1>5. RowsOK
  BY RefreshConstants DEF Init, RowsOK, RowOK, Explained, Opened, Remaining, LiveAttempts
<1>6. InTime /\ AtRun
  BY DEF Init, InTime, AtRun, NoBeat
<1>7. ClaimsApart /\ Fresh /\ Begun
  BY DEF Init, ClaimsApart, Fresh, Begun, Unbegun, NoClaims
<1> QED BY <1>4, <1>5, <1>6, <1>7 DEF IInv

LEMMA StepInv == IInv /\ [Next]_vars => IInv'
<1> SUFFICES ASSUME IInv, [Next]_vars PROVE IInv'
  OBVIOUS
<1>1. TypeOK' /\ RowsOK'
  BY TypeStep, RowsStep
<1>2. InTime' /\ AtRun' /\ ClaimsApart'
  BY InTimeStep, AtRunStep, ClaimsApartStep
<1>3. Fresh' /\ Begun'
  BY FreshStep, BegunStep
<1> QED BY <1>1, <1>2, <1>3 DEF IInv

LEMMA AlwaysInv == Spec => []IInv
BY InitInv, StepInv, PTL DEF Spec

\* The columns, the lease dates and the locals of every worker keep their types:
\* attempt_count stays within the retry offsets, and no claim is dated ahead of
\* the clock.
THEOREM TypeCorrect == Spec => []TypeOK
<1>1. IInv => TypeOK
  BY DEF IInv
<1> QED BY <1>1, AlwaysInv, PTL

\* Whatever workers, crashes, lost sessions and late heartbeats do, the attempts
\* of every run account for its attempt_count and explain its status.
THEOREM RowsCorrect == Spec => []RowsAgree
<1>1. IInv => RowsAgree
  BY DEF IInv, RowsOK, RowOK, RowsAgree
<1> QED BY <1>1, AlwaysInv, PTL

\* A run's rows do not change under a worker that steps without owning the claim.
LEMMA StepsPowerless ==
  ASSUME IInv, [Next]_vars, NEW w \in Worker, NEW r \in Run,
         Steps(w, r), token[r] # claim[w][r]
  PROVE  Rows(r)' = Rows(r)
<1>1. ASSUME UNCHANGED rows PROVE Rows(r)' = Rows(r)
  BY <1>1 DEF rows, runRow, attemptRow, Rows
<1>2. cur[w] = r /\ pc'[w] # pc[w] /\ ~Owned(r, claim[w][r])
  BY DEF Steps, Owned
<1>3. pc[w] \notin {"idle", "claim", "next"}
  BY <1>2, RefreshConstants DEF IInv, AtRun
<1>4. CASE WorkerStep(w)
  <2>1. CASE ReleaseRefreshClaim(w)
    BY <1>1, <1>2, <2>1 DEF ReleaseRefreshClaim, Releasable, rows, runRow, attemptRow
  <2>2. CASE RecordRefreshAttemptStarted(w)
    BY <1>1, <1>2, <2>2 DEF RecordRefreshAttemptStarted, rows, runRow, attemptRow
  <2>3. CASE RenewAtStart(w)
    BY <1>1, <1>2, <2>3 DEF RenewAtStart, RenewRefreshAttemptLease, rows, runRow, attemptRow
  <2>4. CASE CompleteRefreshAttempt(w)
    BY <1>1, <1>2, <2>4 DEF CompleteRefreshAttempt, Current, rows, runRow, attemptRow
  <2>5. CASE ClaimDueRefreshAttempts(w)
    BY <1>3, <2>5 DEF ClaimDueRefreshAttempts
  <2>6. CASE \/ BeginPass(w) \/ ClaimWithoutShops(w) \/ FinishPass(w) \/ Preflight(w)
             \/ Execute(w) \/ Unlock(w) \/ \E q \in Run : TryLock(w, q)
    BY <1>1, <2>6
       DEF BeginPass, ClaimWithoutShops, FinishPass, Preflight, Execute, Unlock, TryLock
  <2> QED BY <1>4, <2>1, <2>2, <2>3, <2>4, <2>5, <2>6 DEF WorkerStep
<1>5. ASSUME NEW v \in Worker, WorkerStep(v), v # w PROVE FALSE
  BY <1>2, <1>5, WorkerMoves DEF Stays
<1>6. ASSUME NEW v \in Worker, \/ HeartbeatFires(v) \/ Crash(v)
                               \/ LoseLockSession(v) \/ StatementFails(v)
      PROVE  UNCHANGED rows
  BY <1>6 DEF HeartbeatFires, Crash, LoseLockSession, StatementFails
<1>7. ASSUME NEW v \in Worker, HeartbeatCommits(v) PROVE FALSE
  BY <1>2, <1>7 DEF HeartbeatCommits, pass
<1>8. ASSUME World PROVE UNCHANGED rows
  BY <1>8 DEF World, Tick, Edit, SetAutoRefreshEnabled, SetRefreshRetryOffsets,
              SetRefreshCheckpointEnabled, UpdateRefreshCheckpoint, EligibilityChanges
<1> QED BY <1>1, <1>4, <1>5, <1>6, <1>7, <1>8 DEF Next, vars

\* Nor under a heartbeat whose renewal commits after the claim was lost.
LEMMA BeatPowerless ==
  ASSUME IInv, [Next]_vars, NEW w \in Worker, NEW r \in Run,
         BeatEnds(w, r), token[r] # beat[w].token
  PROVE  Rows(r)' = Rows(r)
<1>1. ASSUME UNCHANGED rows PROVE Rows(r)' = Rows(r)
  BY <1>1 DEF rows, runRow, attemptRow, Rows
<1>2. beat[w].run = r /\ beat'[w] = NoBeat /\ beat'[w] # beat[w] /\ ~Owned(r, beat[w].token)
  <2>1. NoBeat.run = NoRun /\ NoRun # r
    BY RefreshConstants DEF NoBeat
  <2> QED BY <2>1 DEF BeatEnds, Owned
<1>3. ASSUME NEW v \in Worker, HeartbeatCommits(v) PROVE Rows(r)' = Rows(r)
  <2>1. v = w
    BY <1>2, <1>3 DEF HeartbeatCommits, IInv, TypeOK
  <2> QED BY <1>1, <1>2, <1>3, <2>1
          DEF HeartbeatCommits, RenewRefreshAttemptLease, rows, runRow, attemptRow
<1>4. ASSUME NEW v \in Worker, WorkerStep(v) PROVE UNCHANGED beat
  BY <1>4 DEF WorkerStep, BeginPass, ClaimWithoutShops, ClaimDueRefreshAttempts,
      FinishPass, ReleaseRefreshClaim, RecordRefreshAttemptStarted, RenewAtStart,
      Preflight, Execute, CompleteRefreshAttempt, Unlock, TryLock
<1>5. ASSUME NEW v \in Worker, \/ HeartbeatFires(v) \/ Crash(v)
                               \/ LoseLockSession(v) \/ StatementFails(v)
      PROVE  UNCHANGED rows
  BY <1>5 DEF HeartbeatFires, Crash, LoseLockSession, StatementFails
<1>6. ASSUME World PROVE UNCHANGED rows
  BY <1>6 DEF World, Tick, Edit, SetAutoRefreshEnabled, SetRefreshRetryOffsets,
              SetRefreshCheckpointEnabled, UpdateRefreshCheckpoint, EligibilityChanges
<1> QED BY <1>1, <1>2, <1>3, <1>4, <1>5, <1>6 DEF Next, vars

\* A worker whose claim of a run was recovered or taken over changes nothing of
\* it: its release, start, renewal, completion and heartbeat find the claim gone.
THEOREM LostClaimCorrect == Spec => LostClaimIsPowerless
<1>1. IInv /\ [Next]_vars =>
        [\A w \in Worker, r \in Run :
           /\ Steps(w, r) /\ token[r] # claim[w][r] => Rows(r)' = Rows(r)
           /\ BeatEnds(w, r) /\ token[r] # beat[w].token => Rows(r)' = Rows(r)]_vars
  BY StepsPowerless, BeatPowerless
<1> QED BY <1>1, AlwaysInv, PTL DEF Spec, LostClaimIsPowerless

-----------------------------------------------------------------------------
(***************************************************************************)
(* 2. Locks, the schedule and the contract.                                *)
(***************************************************************************)

Inside == {"start", "renew", "preflight", "execute", "complete", "unlock", "unwind"}

\* A worker inside the execution lock holds the lock of its run's profile.
Locked ==
  SessionsHold => \A w \in Worker : pc[w] \in Inside => lock[cur[w].shop] = w

\* The instant the next attempt of r is due by the snapshot of its cycle.
Earliest(r) == start[r] + offsets[r][count[r] + 1]

\* No attempt was recorded under the present claim.
Unstarted(r) == \A n \in DOMAIN attemptToken[r] : attemptToken[r][n] # token[r]

\* A run waits for that instant, and is claimed only when it has come.
Timely(r) ==
  /\ status[r] = "RETRY_WAIT" => nextAt[r] >= Earliest(r)
  /\ status[r] = "RUNNING" /\ Unstarted(r) => time >= Earliest(r)

OnTime == \A r \in Run : Timely(r)

\* A claim begins one attempt at most.
TokensApart ==
  \A r \in Run : \A m, n \in DOMAIN attemptToken[r] :
    attemptToken[r][m] = attemptToken[r][n] => m = n

\* Browser work is done for recorded attempts ...
WorkIsRecorded == \A x \in refreshed : x[2] \in 1..count[x[1]]

\* ... and a worker that reports success did it for the attempt of its claim.
SuccessIsWork ==
  \A w \in Worker : result[w] = "SUCCESS" =>
    /\ pc[w] \in {"complete", "unlock", "unwind"}
    /\ \A n \in DOMAIN attemptToken[cur[w]] :
         attemptToken[cur[w]][n] = claim[w][cur[w]] => <<cur[w], n>> \in refreshed

JInv == IInv /\ Locked /\ OnTime /\ TokensApart /\ WorkIsRecorded /\ SuccessIsWork

-----------------------------------------------------------------------------
(* The lock of a profile.                                                  *)

LEMMA FaultsGrow ==
  ASSUME TypeOK, [Next]_vars PROVE faults \in Nat /\ (faults' = faults \/ faults' = faults + 1)
<1>1. faults \in Nat
  BY RefreshConstants DEF TypeOK
<1>2. ASSUME World PROVE UNCHANGED faults
  BY <1>2 DEF World, Tick, Edit, SetAutoRefreshEnabled, SetRefreshRetryOffsets, bounds,
              SetRefreshCheckpointEnabled, UpdateRefreshCheckpoint, EligibilityChanges
<1>3. ASSUME NEW w \in Worker, WorkerStep(w) PROVE UNCHANGED faults
  BY <1>3 DEF WorkerStep, BeginPass, ClaimWithoutShops, ClaimDueRefreshAttempts, bounds,
      FinishPass, ReleaseRefreshClaim, RecordRefreshAttemptStarted, RenewAtStart,
      Preflight, Execute, CompleteRefreshAttempt, Unlock, TryLock
<1>4. ASSUME NEW w \in Worker, HeartbeatFires(w) \/ HeartbeatCommits(w) PROVE UNCHANGED faults
  BY <1>4 DEF HeartbeatFires, HeartbeatCommits, bounds
<1>5. ASSUME NEW w \in Worker, Crash(w) \/ LoseLockSession(w) \/ StatementFails(w)
      PROVE  faults' = faults \/ faults' = faults + 1
  BY <1>5 DEF Crash, LoseLockSession, StatementFails, Fault
<1>6. ASSUME UNCHANGED vars PROVE UNCHANGED faults
  BY <1>6 DEF vars, bounds
<1> QED BY <1>1, <1>2, <1>3, <1>4, <1>5, <1>6 DEF Next

\* Sessions that hold after a step held before it, and were not lost by it.
LEMMA SessionsHeld ==
  ASSUME TypeOK, [Next]_vars, SessionsHold'
  PROVE  SessionsHold /\ \A w \in Worker : ~LoseLockSession(w)
BY FaultsGrow DEF SessionsHold, LoseLockSession, Fault

LEMMA LockedStep == ASSUME IInv, Locked, [Next]_vars PROVE Locked'
<1> SUFFICES ASSUME SessionsHold', NEW v \in Worker, pc'[v] \in Inside
             PROVE  lock'[cur'[v].shop] = v
  BY DEF Locked
<1>1. /\ pc \in [Worker -> Pc] /\ cur \in [Worker -> Run \cup {NoRun}]
      /\ lock \in [Shop -> Worker \cup {NoWorker}] /\ NoWorker \notin Worker
  BY RefreshConstants DEF IInv, TypeOK
<1>2. pc[v] \in Inside => lock[cur[v].shop] = v /\ cur[v].shop \in Shop
  <2>1. pc[v] \in Inside => cur[v] \in Run
    BY RunOf DEF Inside
  <2> QED BY <2>1, SessionsHeld DEF IInv, Locked, Run
<1>3. ASSUME UNCHANGED <<lock, pass>> PROVE lock'[cur'[v].shop] = v
  BY <1>2, <1>3 DEF pass
<1>4. ASSUME World PROVE UNCHANGED <<lock, pass>>
  BY <1>4 DEF World, Tick, Edit, SetAutoRefreshEnabled, SetRefreshRetryOffsets,
              SetRefreshCheckpointEnabled, UpdateRefreshCheckpoint, EligibilityChanges
<1>5. ASSUME NEW w \in Worker, HeartbeatFires(w) \/ HeartbeatCommits(w)
      PROVE  UNCHANGED <<lock, pass>>
  BY <1>5 DEF HeartbeatFires, HeartbeatCommits
<1>6. ASSUME NEW w \in Worker, EndPass(w), w # v PROVE pc'[v] = pc[v] /\ cur'[v] = cur[v]
  BY <1>1, <1>6 DEF EndPass, Goto
<1>7. ASSUME NEW w \in Worker, EndPass(w) \/ NextRun(w) PROVE w # v
  BY <1>1, <1>7 DEF EndPass, NextRun, Goto, Inside
<1>8. ASSUME NEW w \in Worker, WorkerStep(w), w # v PROVE lock'[cur'[v].shop] = v
  <2>1. Stays(v)
    BY <1>8, WorkerMoves
  <2>2. ASSUME NEW r \in Run, TryLock(w, r) PROVE lock'[cur[v].shop] = v
    <3>1. lock' = lock \/ (lock[r.shop] = NoWorker /\ lock' = [lock EXCEPT ![r.shop] = w])
      BY <2>2 DEF TryLock
    <3> QED BY <1>1, <1>2, <2>1, <3>1 DEF Stays
  <2>3. CASE Unlock(w)
    BY <1>1, <1>2, <1>8, <2>1, <2>3 DEF Unlock, LetGo, Stays
  <2>4. ASSUME ~Unlock(w), \A r \in Run : ~TryLock(w, r) PROVE UNCHANGED lock
    BY <1>8, <2>4 DEF WorkerStep, BeginPass, ClaimWithoutShops, ClaimDueRefreshAttempts,
      FinishPass, ReleaseRefreshClaim, RecordRefreshAttemptStarted, RenewAtStart,
      Preflight, Execute, CompleteRefreshAttempt
  <2> QED BY <1>2, <2>1, <2>2, <2>3, <2>4 DEF Stays
<1>9. CASE WorkerStep(v)
  <2>1. ASSUME NEW r \in Run, TryLock(v, r) PROVE lock'[cur'[v].shop] = v
    <3>1. r.shop \in Shop /\ cur'[v] = r
      BY <1>1, <2>1 DEF TryLock, Run
    <3>2. ~Goto(v, "release")
      BY <1>1 DEF Goto, Inside
    <3>3. lock' = [lock EXCEPT ![r.shop] = v]
      BY <2>1, <3>2 DEF TryLock
    <3> QED BY <1>1, <3>1, <3>3
  <2>2. CASE \/ RecordRefreshAttemptStarted(v) \/ RenewAtStart(v) \/ Preflight(v)
             \/ Execute(v) \/ CompleteRefreshAttempt(v)
    <3>1. pc[v] \in Inside /\ UNCHANGED <<lock, cur>>
      BY <2>2 DEF RecordRefreshAttemptStarted, RenewAtStart, Preflight, Execute,
                  CompleteRefreshAttempt, Inside
    <3> QED BY <1>2, <3>1
  <2>3. ~BeginPass(v) /\ ~ClaimDueRefreshAttempts(v)
    BY <1>1 DEF BeginPass, ClaimDueRefreshAttempts, Goto, Inside
  <2>4. ~ClaimWithoutShops(v) /\ ~FinishPass(v) /\ ~ReleaseRefreshClaim(v) /\ ~Unlock(v)
    BY <1>7 DEF ClaimWithoutShops, FinishPass, ReleaseRefreshClaim, Unlock
  <2> QED BY <1>9, <2>1, <2>2, <2>3, <2>4 DEF WorkerStep
<1>10. ASSUME NEW w \in Worker, Crash(w) PROVE lock'[cur'[v].shop] = v
  <2>1. w # v /\ pc'[v] = pc[v] /\ cur'[v] = cur[v]
    BY <1>6, <1>7, <1>10 DEF Crash
  <2> QED BY <1>1, <1>2, <1>10, <2>1 DEF Crash
<1>11. ASSUME NEW w \in Worker, StatementFails(w) PROVE lock'[cur'[v].shop] = v
  <2>1. CASE EndPass(w)
    BY <1>2, <1>6, <1>7, <1>11, <2>1 DEF StatementFails
  <2>2. CASE ~EndPass(w)
    <3>1. UNCHANGED <<lock, cur>> /\ pc[w] \in Inside /\ \E p : Goto(w, p)
      BY <1>11, <2>2 DEF StatementFails, Inside
    <3>2. pc[v] \in Inside
      BY <1>1, <3>1 DEF Goto
    <3> QED BY <1>2, <3>1, <3>2
  <2> QED BY <2>1, <2>2
<1>12. CASE UNCHANGED vars
  BY <1>3, <1>12 DEF vars, pass
<1> QED BY <1>3, <1>4, <1>5, <1>8, <1>9, <1>10, <1>11, <1>12, SessionsHeld DEF IInv, Next

-----------------------------------------------------------------------------
(* The schedule.                                                           *)

LEMMA EarliestType ==
  ASSUME IInv, NEW r \in Run, Remaining(r) PROVE Earliest(r) \in Int
<1>1. offsets[r] \in Seq(Nat) /\ count[r] \in Nat /\ start[r] \in Int
  BY RowTyped DEF RowType, IInv
<1>2. offsets[r][count[r] + 1] \in Nat
  BY <1>1 DEF Remaining
<1> QED BY <1>1, <1>2 DEF Earliest

\* A run that waits and one whose claim began no attempt have one left.
LEMMA WaitsRemaining ==
  ASSUME IInv, NEW r \in Run,
         \/ status[r] = "RETRY_WAIT"
         \/ status[r] = "RUNNING" /\ Unstarted(r)
  PROVE  Remaining(r) /\ Earliest(r) \in Int /\ nextAt[r] \in Int
<1>1. Explained(r) /\ RowType(r)
  BY RowTyped DEF IInv, RowsOK, RowOK
<1>2. DOMAIN attempt[r] = DOMAIN attemptToken[r]
  BY <1>1 DEF Explained, RowType
<1>3. Remaining(r)
  BY <1>1, <1>2 DEF Explained, Unstarted, LiveAttempts
<1> QED BY <1>1, <1>3, EarliestType DEF RowType

\* Steps that leave the schedule of r alone.
KeepsSchedule(r) ==
  /\ status'[r] = status[r] /\ offsets'[r] = offsets[r] /\ start'[r] = start[r]
  /\ count'[r] = count[r] /\ nextAt'[r] = nextAt[r]
  /\ token'[r] = token[r] /\ attemptToken'[r] = attemptToken[r]

LEMMA KeptTimely ==
  ASSUME IInv, [Next]_vars, NEW r \in Run, Timely(r), KeepsSchedule(r)
  PROVE  Timely(r)'
<1>1. time \in Nat /\ time' \in Nat /\ time <= time'
  BY TimeStep, RefreshConstants DEF IInv
<1>2. Earliest(r)' = Earliest(r) /\ (Unstarted(r)' <=> Unstarted(r))
  BY DEF KeepsSchedule, Earliest, Unstarted
<1> QED BY <1>1, <1>2, WaitsRemaining DEF Timely, KeepsSchedule

\* The claim transaction claims what is due and parks the rest until it is.
LEMMA ClaimTimely ==
  ASSUME IInv, [Next]_vars, NEW w \in Worker, ClaimDueRefreshAttempts(w),
         NEW r \in Run, Timely(r)
  PROVE  Timely(r)'
<1> DEFINE t      == now[w]
           mine   == {q \in Run : q.shop \in shops[w]}
           lost   == {q \in mine : Expired(q, t)}
           spent  == {q \in lost : ~Remaining(q)}
           wait   == {q \in mine : status[q] = "RETRY_WAIT"} \cup (lost \ spent)
           stale  == {q \in wait : Ineligible(q, t)}
           due    == {q \in mine : auto /\ q.date = DateOf(t) /\ Due(q.checkpoint, t)}
           new    == {q \in due : status[q] = "ABSENT"}
           at     == [q \in Run |-> IF q \in new THEN CheckpointInstant(q) + policy[1]
                                    ELSE IF q \in lost THEN NextAttemptAt(q) ELSE nextAt[q]]
           ready  == {q \in due \cap ((wait \ stale) \cup new) : at[q] <= t}
           over   == spent \cup stale
           parked == (wait \cup new) \ (stale \cup ready)
<1>1. /\ r \in ready => Token \ Known(r) # {}
      /\ status'[r] = IF r \in ready THEN "RUNNING"
                      ELSE IF r \in over THEN "FAILED_EXHAUSTED"
                      ELSE IF r \in parked THEN "RETRY_WAIT" ELSE status[r]
      /\ offsets'[r] = IF r \in new THEN policy ELSE offsets[r]
      /\ start'[r] = IF r \in new THEN CheckpointInstant(r) ELSE start[r]
      /\ nextAt'[r] = IF r \in ready \cup over THEN -1
                      ELSE IF r \in parked THEN at[r] ELSE nextAt[r]
      /\ token'[r] = IF r \in ready THEN NewToken(r)
                     ELSE IF r \in lost THEN NoToken ELSE token[r]
      /\ count' = count /\ attemptToken' = attemptToken /\ time' = time
  BY DEF ClaimDueRefreshAttempts
<1>2. t <= time /\ t \in Int /\ time \in Int
  BY RefreshConstants DEF IInv, InTime, TypeOK, Instant
<1>3. Explained(r) /\ Opened(r) /\ RowType(r)
  BY RowTyped DEF IInv, RowsOK, RowOK
<1>4. at[r] = IF r \in new THEN CheckpointInstant(r) + policy[1]
              ELSE IF r \in lost THEN NextAttemptAt(r) ELSE nextAt[r]
  OBVIOUS
<1>5. r \in parked \cup ready =>
        at[r] >= Earliest(r)' /\ at[r] \in Int /\ Earliest(r)' \in Int
  <2>1. CASE r \in new
    <3>1. count[r] = 0 /\ policy \in Policies
      BY <1>3, <2>1 DEF Opened, IInv, TypeOK
    <3>2. policy[1] \in Nat /\ CheckpointInstant(r) \in Nat
      BY <3>1, PolicyType, StartType DEF IInv
    <3>3. Earliest(r)' = CheckpointInstant(r) + policy[1]
      <4>1. start'[r] = CheckpointInstant(r) /\ offsets'[r] = policy /\ count'[r] = 0
        BY <1>1, <2>1, <3>1
      <4>2. count'[r] + 1 = 1
        BY <4>1
      <4> HIDE DEF mine, lost, spent, wait, stale, due, new, at, ready, over, parked
      <4> QED BY <4>1, <4>2 DEF Earliest
    <3>4. at[r] = CheckpointInstant(r) + policy[1]
      BY <1>4, <2>1
    <3> HIDE DEF mine, lost, spent, wait, stale, due, new, at, ready, over, parked
    <3> QED BY <3>2, <3>3, <3>4
  <2>2. CASE r \notin new /\ r \in parked \cup ready
    <3>1. r \in wait
      BY <2>2
    <3>2. Earliest(r)' = Earliest(r)
      <4>1. start'[r] = start[r] /\ offsets'[r] = offsets[r] /\ count'[r] = count[r]
        BY <1>1, <2>2
      <4> HIDE DEF mine, lost, spent, wait, stale, due, new, at, ready, over, parked
      <4> QED BY <4>1 DEF Earliest
    <3>3. CASE r \in lost
      <4>1. Remaining(r)
        BY <3>1, <3>3, <1>3 DEF Expired
      <4>2. at[r] = NextAttemptAt(r)
        BY <1>4, <2>2, <3>3
      <4> HIDE DEF mine, lost, spent, wait, stale, due, new, at, ready, over, parked
      <4>3. at[r] = Earliest(r)
        BY <4>1, <4>2 DEF NextAttemptAt, Earliest
      <4> QED BY <3>2, <4>1, <4>3, EarliestType
    <3>4. CASE r \notin lost
      <4>1. status[r] = "RETRY_WAIT" /\ at[r] = nextAt[r]
        BY <1>4, <2>2, <3>1, <3>4
      <4> HIDE DEF mine, lost, spent, wait, stale, due, new, at, ready, over, parked
      <4> QED BY <3>2, <4>1, WaitsRemaining DEF Timely
    <3> QED BY <3>3, <3>4
  <2> QED BY <2>1, <2>2
<1>6. /\ r \in ready => at[r] <= t /\ r \notin over
      /\ r \in parked => r \notin ready /\ r \notin over
  BY <1>3 DEF Expired
<1>7. CASE r \in ready
  <2>1. status'[r] = "RUNNING" /\ at[r] \in Int /\ at[r] <= t
        /\ at[r] >= Earliest(r)' /\ Earliest(r)' \in Int
    BY <1>1, <1>5, <1>6, <1>7
  <2> HIDE DEF mine, lost, spent, wait, stale, due, new, at, ready, over, parked
  <2> QED BY <1>1, <1>2, <2>1 DEF Timely
<1>8. CASE r \in parked
  <2>1. status'[r] = "RETRY_WAIT" /\ nextAt'[r] = at[r] /\ at[r] >= Earliest(r)'
    BY <1>1, <1>5, <1>6, <1>8
  <2> HIDE DEF mine, lost, spent, wait, stale, due, new, at, ready, over, parked
  <2> QED BY <2>1 DEF Timely
<1>9. CASE r \notin ready /\ r \in over
  BY <1>1, <1>9 DEF Timely
<1>10. CASE r \notin ready /\ r \notin over /\ r \notin parked
  <2>1. r \notin new /\ r \notin lost
    BY <1>10
  <2>2. /\ status'[r] = status[r] /\ offsets'[r] = offsets[r] /\ start'[r] = start[r]
        /\ nextAt'[r] = nextAt[r] /\ token'[r] = token[r]
    BY <1>1, <1>10, <2>1
  <2> HIDE DEF mine, lost, spent, wait, stale, due, new, at, ready, over, parked
  <2> QED BY <1>1, <2>2 DEF Timely, Earliest, Unstarted
<1> QED BY <1>7, <1>8, <1>9, <1>10

LEMMA ReleaseTimely ==
  ASSUME IInv, [Next]_vars, NEW w \in Worker, ReleaseRefreshClaim(w),
         NEW r \in Run, Timely(r)
  PROVE  Timely(r)'
<1> DEFINE p == cur[w]
<1>1. p \in Run
  BY RunOf DEF ReleaseRefreshClaim
<1>2. CASE Releasable(p, claim[w][p]) /\ r = p
  <2>1. status[r] = "RUNNING" /\ count[r] = 0
    BY <1>2 DEF Releasable, Owned
  <2>2. Unstarted(r)
    <3>1. Len(attemptToken[r]) = 0 /\ attemptToken[r] \in Seq(Token)
      BY <2>1 DEF IInv, TypeOK, RowsOK, RowOK, Explained
    <3> QED BY <3>1 DEF Unstarted
  <2>3. status'[r] = "RETRY_WAIT" /\ nextAt'[r] = time
    BY <1>1, <1>2 DEF ReleaseRefreshClaim, IInv, TypeOK
  <2>4. Earliest(r)' = Earliest(r)
    BY DEF ReleaseRefreshClaim, Earliest
  <2> QED BY <2>1, <2>2, <2>3, <2>4 DEF Timely
<1>3. CASE ~(Releasable(p, claim[w][p]) /\ r = p)
  <2>1. /\ status'[r] = status[r] /\ nextAt'[r] = nextAt[r] /\ token'[r] = token[r]
        /\ offsets' = offsets /\ start' = start /\ count' = count
        /\ attemptToken' = attemptToken /\ time' = time
    BY <1>1, <1>3 DEF ReleaseRefreshClaim, attemptRow, IInv, TypeOK
  <2> QED BY <2>1 DEF Timely, Earliest, Unstarted
<1> QED BY <1>2, <1>3

LEMMA StartTimely ==
  ASSUME IInv, [Next]_vars, NEW w \in Worker, RecordRefreshAttemptStarted(w),
         NEW r \in Run, Timely(r)
  PROVE  Timely(r)'
<1> DEFINE p == cur[w]
           k == claim[w][p]
<1>1. p \in Run /\ UNCHANGED <<status, offsets, start, nextAt, token>>
  BY RunOf DEF RecordRefreshAttemptStarted
<1>2. CASE Owned(p, k) /\ Remaining(p) /\ r = p
  <2>1. attemptToken' = [attemptToken EXCEPT ![r] = Append(attemptToken[r], k)]
        /\ status[r] = "RUNNING" /\ k = token[r]
    BY <1>2 DEF RecordRefreshAttemptStarted, Owned
  <2>2. attemptToken[r] \in Seq(Token) /\ token[r] \in Token
    <3>1. token[r] # NoToken
      BY <2>1 DEF IInv, RowsOK, RowOK, Explained
    <3> QED BY <3>1 DEF IInv, TypeOK
  <2> HIDE DEF p, k
  <2>3. attemptToken'[r] = Append(attemptToken[r], k)
    BY <2>1 DEF IInv, TypeOK
  <2>4. Len(attemptToken[r]) + 1 \in DOMAIN attemptToken'[r]
        /\ attemptToken'[r][Len(attemptToken[r]) + 1] = token'[r]
    BY <1>1, <2>1, <2>2, <2>3
  <2> QED BY <1>1, <2>1, <2>4 DEF Timely, Unstarted
<1>3. CASE ~(Owned(p, k) /\ Remaining(p) /\ r = p)
  <2>1. attemptToken'[r] = attemptToken[r] /\ count'[r] = count[r]
    BY <1>1, <1>3 DEF RecordRefreshAttemptStarted, IInv, TypeOK
  <2> QED BY <1>1, <2>1, KeptTimely DEF KeepsSchedule
<1> QED BY <1>2, <1>3

LEMMA CompleteTimely ==
  ASSUME IInv, [Next]_vars, NEW w \in Worker, CompleteRefreshAttempt(w),
         NEW r \in Run, Timely(r)
  PROVE  Timely(r)'
<1> DEFINE p == cur[w]
<1>1. p \in Run
  BY RunOf DEF CompleteRefreshAttempt
<1>2. UNCHANGED <<offsets, start, count, attemptToken, time>>
  BY DEF CompleteRefreshAttempt
<1>3. CASE Current(p, claim[w][p]) /\ r = p
  <2>1. \/ status'[r] = "SUCCEEDED" \/ status'[r] = "FAILED_EXHAUSTED"
        \/ status'[r] = "RETRY_WAIT" /\ Remaining(r) /\ nextAt'[r] = NextAttemptAt(r)
    BY <1>1, <1>3 DEF CompleteRefreshAttempt, IInv, TypeOK
  <2>2. Remaining(r) => NextAttemptAt(r) = Earliest(r) /\ Earliest(r) \in Int
    BY EarliestType DEF NextAttemptAt, Earliest
  <2>3. Earliest(r)' = Earliest(r)
    BY <1>2 DEF Earliest
  <2> QED BY <2>1, <2>2, <2>3 DEF Timely
<1>4. CASE ~(Current(p, claim[w][p]) /\ r = p)
  <2>1. /\ status'[r] = status[r] /\ nextAt'[r] = nextAt[r] /\ token'[r] = token[r]
    BY <1>1, <1>4 DEF CompleteRefreshAttempt, IInv, TypeOK
  <2> QED BY <1>2, <2>1 DEF Timely, Earliest, Unstarted
<1> QED BY <1>3, <1>4

LEMMA OnTimeStep == ASSUME IInv, OnTime, [Next]_vars PROVE OnTime'
<1> SUFFICES ASSUME NEW r \in Run PROVE Timely(r)'
  BY DEF OnTime
<1>1. Timely(r)
  BY DEF OnTime
<1>2. ASSUME NEW w \in Worker, \/ ClaimDueRefreshAttempts(w) \/ ReleaseRefreshClaim(w)
                               \/ CompleteRefreshAttempt(w)
      PROVE  Timely(r)'
  BY <1>1, <1>2, ClaimTimely, ReleaseTimely, CompleteTimely
<1>3. ASSUME UNCHANGED rows PROVE KeepsSchedule(r)
  BY <1>3 DEF rows, runRow, attemptRow, KeepsSchedule
<1>4. ASSUME World PROVE UNCHANGED rows
  BY <1>4 DEF World, Tick, Edit, SetAutoRefreshEnabled, SetRefreshRetryOffsets,
              SetRefreshCheckpointEnabled, UpdateRefreshCheckpoint, EligibilityChanges
<1>5. ASSUME NEW w \in Worker, \/ HeartbeatFires(w) \/ Crash(w)
                               \/ LoseLockSession(w) \/ StatementFails(w)
      PROVE  UNCHANGED rows
  BY <1>5 DEF HeartbeatFires, Crash, LoseLockSession, StatementFails
<1>6. ASSUME NEW w \in Worker, \/ BeginPass(w) \/ ClaimWithoutShops(w) \/ FinishPass(w)
                               \/ Preflight(w) \/ Execute(w) \/ Unlock(w)
                               \/ \E q \in Run : TryLock(w, q)
      PROVE  UNCHANGED rows
  BY <1>6 DEF BeginPass, ClaimWithoutShops, FinishPass, Preflight, Execute, Unlock, TryLock
<1>7. ASSUME NEW w \in Worker, HeartbeatCommits(w) \/ RenewAtStart(w)
      PROVE  KeepsSchedule(r)
  BY <1>7 DEF HeartbeatCommits, RenewAtStart, attemptRow, KeepsSchedule
<1>8. ASSUME NEW w \in Worker, RecordRefreshAttemptStarted(w)
      PROVE  Timely(r)'
  BY <1>1, <1>8, StartTimely
<1> QED BY <1>1, <1>2, <1>3, <1>4, <1>5, <1>6, <1>7, <1>8, KeptTimely DEF Next, WorkerStep, vars

-----------------------------------------------------------------------------
(* The attempts whose browser work is done.                                *)

\* What a step does to the tokens of a run's attempts, and who does it.
LEMMA TokensMove ==
  ASSUME IInv, [Next]_vars, NEW r \in Run
  PROVE  \/ attemptToken'[r] = attemptToken[r] /\ count'[r] = count[r]
         \/ \E w \in Worker :
              /\ Records(w) /\ cur[w] = r /\ \A v \in Worker \ {w} : Stays(v)
              /\ attemptToken'[r] = Append(attemptToken[r], claim[w][r])
              /\ count'[r] = count[r] + 1
<1>1. CASE attemptToken'[r] = attemptToken[r]
  <2>1. count'[r] \in {count[r], count[r] + 1} /\ count[r] \in Nat
    BY NextMoves, RowTyped DEF RowType, IInv, Moves, Untouched, Opening, Transacted, Releasing,
       Starting, Renewing, Closing, KeepsAttempts
  <2>2. Len(attemptToken[r]) = count[r] /\ Len(attemptToken'[r]) = count'[r]
    BY RowsStep DEF IInv, RowsOK, RowOK, Explained
  <2> QED BY <1>1, <2>1, <2>2
<1>2. CASE attemptToken'[r] # attemptToken[r]
  <2>1. PICK w \in Worker : Records(w) /\ \A v \in Worker \ {w} : Stays(v)
    BY <1>2, NextPassMoves DEF PassMoves
  <2>2. cur[w] = r /\ attemptToken'[r] = Append(attemptToken[r], claim[w][r])
    BY <1>2, <2>1 DEF Records
  <2>3. count'[r] = count[r] + 1
    BY <1>2, NextMoves DEF Moves, Untouched, Opening, Transacted, Releasing,
       Starting, Renewing, Closing, KeepsAttempts
  <2> QED BY <2>1, <2>2, <2>3
<1> QED BY <1>1, <1>2

\* The token of an attempt being recorded is new to its run.
LEMMA RecordedIsFresh ==
  ASSUME IInv, NEW w \in Worker, Records(w)
  PROVE  /\ claim[w][cur[w]] \in Token
         /\ \A n \in DOMAIN attemptToken[cur[w]] : attemptToken[cur[w]][n] # claim[w][cur[w]]
<1>1. claim[w][cur[w]] \in Token /\ cur[w] \in Run /\ pc[w] = "start"
  BY DEF Records
<1>2. Unbegun(w, cur[w])
  BY <1>1, RefreshConstants DEF Unbegun
<1> QED BY <1>1, <1>2 DEF IInv, Fresh

LEMMA TokensApartStep == ASSUME IInv, TokensApart, [Next]_vars PROVE TokensApart'
<1> SUFFICES ASSUME NEW r \in Run, NEW m \in DOMAIN attemptToken'[r],
                    NEW n \in DOMAIN attemptToken'[r],
                    attemptToken'[r][m] = attemptToken'[r][n]
             PROVE  m = n
  BY DEF TokensApart
<1>1. CASE attemptToken'[r] = attemptToken[r]
  BY <1>1 DEF TokensApart
<1>2. ASSUME NEW w \in Worker, Records(w), cur[w] = r,
             attemptToken'[r] = Append(attemptToken[r], claim[w][r])
      PROVE  m = n
  <2>1. attemptToken[r] \in Seq(Token)
    BY DEF IInv, TypeOK
  <2>2. /\ claim[w][r] \in Token
        /\ \A i \in DOMAIN attemptToken[r] : attemptToken[r][i] # claim[w][r]
    BY <1>2, RecordedIsFresh
  <2>3. ASSUME NEW i \in DOMAIN attemptToken'[r]
        PROVE  \/ i \in DOMAIN attemptToken[r] /\ attemptToken'[r][i] = attemptToken[r][i]
               \/ i = Len(attemptToken[r]) + 1 /\ attemptToken'[r][i] = claim[w][r]
    BY <1>2, <2>1, <2>2
  <2> QED BY <2>2, <2>3 DEF TokensApart
<1> QED BY <1>1, <1>2, TokensMove

\* The attempt a worker is in the browser for: the one its claim began.
LEMMA WorkedAttempt ==
  ASSUME IInv, TokensApart, NEW w \in Worker, Execute(w)
  PROVE  \E n \in 1..count[cur[w]] :
           /\ cur[w] \in Run
           /\ n \in DOMAIN attemptToken[cur[w]]
           /\ attemptToken[cur[w]][n] = claim[w][cur[w]]
           /\ \A m \in DOMAIN attemptToken[cur[w]] :
                attemptToken[cur[w]][m] = claim[w][cur[w]] => m = n
           /\ \/ result' = [result EXCEPT ![w] = "SUCCESS"] /\ refreshed' = refreshed \cup {<<cur[w], n>>}
              \/ UNCHANGED <<result, refreshed>>
<1> DEFINE r == cur[w]
           x == CHOOSE m \in DOMAIN attempt[r] : attemptToken[r][m] = claim[w][r]
<1>1. r \in Run
  BY RunOf DEF Execute
<1>2. PICK n \in DOMAIN attemptToken[r] : attemptToken[r][n] = claim[w][r]
  BY DEF Execute, IInv, Begun
<1>3. DOMAIN attempt[r] = 1..count[r] /\ DOMAIN attemptToken[r] = 1..count[r]
  BY <1>1, RowTyped DEF IInv, RowsOK, RowOK, Explained, RowType
<1>4. \A m \in DOMAIN attemptToken[r] : attemptToken[r][m] = claim[w][r] => m = n
  BY <1>1, <1>2 DEF TokensApart
<1>5. x = n
  BY <1>2, <1>3, <1>4
<1>6. \/ result' = [result EXCEPT ![w] = "SUCCESS"] /\ refreshed' = refreshed \cup {<<r, x>>}
      \/ UNCHANGED <<result, refreshed>>
  BY DEF Execute
<1> HIDE DEF r, x
<1> QED BY <1>1, <1>2, <1>3, <1>4, <1>5, <1>6 DEF r

LEMMA RefreshedMoves ==
  ASSUME [Next]_vars
  PROVE  UNCHANGED refreshed \/ \E w \in Worker : Execute(w)
<1>1. ASSUME World PROVE UNCHANGED refreshed
  BY <1>1 DEF World, Tick, Edit, SetAutoRefreshEnabled, SetRefreshRetryOffsets,
              SetRefreshCheckpointEnabled, UpdateRefreshCheckpoint, EligibilityChanges
<1>2. ASSUME NEW w \in Worker, WorkerStep(w), ~Execute(w) PROVE UNCHANGED refreshed
  BY <1>2 DEF WorkerStep, BeginPass, ClaimWithoutShops, ClaimDueRefreshAttempts,
      FinishPass, ReleaseRefreshClaim, RecordRefreshAttemptStarted, RenewAtStart,
      Preflight, CompleteRefreshAttempt, Unlock, TryLock
<1>3. ASSUME NEW w \in Worker, \/ HeartbeatFires(w) \/ HeartbeatCommits(w) \/ Crash(w)
                               \/ LoseLockSession(w) \/ StatementFails(w)
      PROVE  UNCHANGED refreshed
  BY <1>3 DEF HeartbeatFires, HeartbeatCommits, Crash, LoseLockSession, StatementFails
<1> QED BY <1>1, <1>2, <1>3 DEF Next, vars

LEMMA WorkIsRecordedStep ==
  ASSUME IInv, TokensApart, WorkIsRecorded, [Next]_vars PROVE WorkIsRecorded'
<1> SUFFICES ASSUME NEW x \in refreshed' PROVE x[2] \in 1..count'[x[1]]
  BY DEF WorkIsRecorded
<1>1. ASSUME NEW r \in Run, NEW n \in 1..count[r] PROVE n \in 1..count'[r]
  <2>1. count[r] \in Nat
    BY DEF IInv, TypeOK
  <2>2. count'[r] = count[r] \/ count'[r] = count[r] + 1
    BY TokensMove
  <2> QED BY <2>1, <2>2
<1>2. CASE x \in refreshed
  BY <1>1, <1>2 DEF WorkIsRecorded, IInv, TypeOK
<1>3. CASE x \notin refreshed
  <2>1. PICK w \in Worker : Execute(w)
    BY <1>3, RefreshedMoves
  <2>2. PICK n \in 1..count[cur[w]] : cur[w] \in Run /\ x = <<cur[w], n>>
    BY <1>3, <2>1, WorkedAttempt
  <2> QED BY <1>1, <2>2
<1> QED BY <1>2, <1>3

LEMMA RefreshedGrows ==
  ASSUME IInv, TokensApart, [Next]_vars PROVE refreshed \subseteq refreshed'
BY RefreshedMoves, WorkedAttempt

\* A worker keeps its success until the attempt is completed and unlocked.
LEMMA SuccessStays ==
  ASSUME IInv, SuccessIsWork, [Next]_vars, NEW v \in Worker, ~Execute(v),
         result'[v] = "SUCCESS"
  PROVE  /\ result[v] = "SUCCESS" /\ cur'[v] = cur[v] /\ claim'[v] = claim[v]
         /\ pc[v] \in {"complete", "unlock", "unwind"}
         /\ pc'[v] \in {"complete", "unlock", "unwind"}
<1>1. /\ pc \in [Worker -> Pc] /\ result \in [Worker -> {"SUCCESS", "FAILURE"}]
  BY DEF IInv, TypeOK
<1> DEFINE kept == result[v] = "SUCCESS" /\ cur'[v] = cur[v] /\ claim'[v] = claim[v]
           outside == pc'[v] \in {"complete", "unlock", "unwind"}
<1>2. result[v] = "SUCCESS" => pc[v] \in {"complete", "unlock", "unwind"}
  BY DEF SuccessIsWork
<1>3. ASSUME UNCHANGED pass PROVE kept /\ outside
  BY <1>2, <1>3 DEF pass
<1>4. ASSUME World PROVE UNCHANGED pass
  BY <1>4 DEF World, Tick, Edit, SetAutoRefreshEnabled, SetRefreshRetryOffsets,
              SetRefreshCheckpointEnabled, UpdateRefreshCheckpoint, EligibilityChanges
<1>5. ASSUME NEW w \in Worker, HeartbeatFires(w) \/ HeartbeatCommits(w) \/ LoseLockSession(w)
      PROVE  UNCHANGED pass
  BY <1>5 DEF HeartbeatFires, HeartbeatCommits, LoseLockSession
<1>6. ASSUME NEW w \in Worker, EndPass(w) \/ NextRun(w)
      PROVE  w # v /\ result'[v] = result[v]
  BY <1>1, <1>6 DEF EndPass, NextRun
<1>7. ASSUME NEW w \in Worker, WorkerStep(w), w # v PROVE kept /\ outside
  <2>1. Stays(v)
    BY <1>7, WorkerMoves
  <2>2. result'[v] = result[v]
    BY <1>1, <1>6, <1>7 DEF WorkerStep, BeginPass, ClaimWithoutShops, ClaimDueRefreshAttempts,
      FinishPass, ReleaseRefreshClaim, RecordRefreshAttemptStarted, RenewAtStart,
      Preflight, Execute, CompleteRefreshAttempt, Unlock, TryLock
  <2> QED BY <1>2, <2>1, <2>2 DEF Stays
<1>8. CASE WorkerStep(v)
  <2>1. ~ReleaseRefreshClaim(v) /\ ~Unlock(v) /\ ~ClaimWithoutShops(v) /\ ~FinishPass(v)
    BY <1>6 DEF ReleaseRefreshClaim, Unlock, ClaimWithoutShops, FinishPass
  <2>2. result'[v] = result[v]
    BY <1>8, <2>1 DEF WorkerStep, BeginPass, ClaimDueRefreshAttempts,
      RecordRefreshAttemptStarted, RenewAtStart, Preflight, CompleteRefreshAttempt, TryLock
  <2>3. CompleteRefreshAttempt(v)
    BY <1>2, <1>8, <2>1, <2>2 DEF WorkerStep, BeginPass, ClaimDueRefreshAttempts,
      RecordRefreshAttemptStarted, RenewAtStart, Preflight, TryLock
  <2>4. kept
    BY <2>2, <2>3 DEF CompleteRefreshAttempt
  <2>5. outside
    <3>1. Goto(v, "unlock") \/ Goto(v, "unwind")
      BY <2>3 DEF CompleteRefreshAttempt
    <3> QED BY <1>1, <3>1 DEF Goto
  <2> QED BY <1>2, <2>4, <2>5
<1>9. ASSUME NEW w \in Worker, Crash(w) \/ StatementFails(w) PROVE kept /\ outside
  <2>1. CASE EndPass(w)
    <3>1. w # v /\ result'[v] = result[v]
      BY <1>6, <2>1
    <3>2. pc'[v] = pc[v] /\ cur'[v] = cur[v] /\ claim'[v] = claim[v]
      BY <2>1, <3>1 DEF EndPass, Goto, IInv, TypeOK
    <3> QED BY <1>2, <3>1, <3>2
  <2>2. CASE ~EndPass(w)
    <3>1. /\ UNCHANGED <<now, shops, claim, cur, result>>
          /\ \/ pc[w] = "start" /\ Goto(w, "unwind")
             \/ pc[w] \in {"renew", "preflight"} /\ Goto(w, "complete")
             \/ pc[w] = "complete"
                  /\ Goto(w, IF result[w] = "SUCCESS" THEN "unwind" ELSE "unlock")
      BY <1>9, <2>2 DEF Crash, StatementFails
    <3>2. pc'[v] \in {pc[v], "complete", "unlock", "unwind"}
      BY <1>1, <3>1 DEF Goto
    <3> QED BY <1>2, <3>1, <3>2
  <2> QED BY <2>1, <2>2
<1>10. CASE UNCHANGED vars
  <2>1. UNCHANGED pass
    BY <1>10 DEF vars
  <2> QED BY <1>2, <1>3, <2>1
<1>11. kept /\ outside
  BY <1>3, <1>4, <1>5, <1>7, <1>8, <1>9, <1>10 DEF Next
<1> QED BY <1>2, <1>11

LEMMA SuccessIsWorkStep ==
  ASSUME IInv, TokensApart, SuccessIsWork, [Next]_vars PROVE SuccessIsWork'
<1> SUFFICES ASSUME NEW v \in Worker, result'[v] = "SUCCESS"
             PROVE  /\ pc'[v] \in {"complete", "unlock", "unwind"}
                    /\ \A n \in DOMAIN attemptToken'[cur'[v]] :
                         attemptToken'[cur'[v]][n] = claim'[v][cur'[v]]
                           => <<cur'[v], n>> \in refreshed'
  BY DEF SuccessIsWork
<1> DEFINE r == cur[v]
<1>1. CASE Execute(v)
  <2>1. /\ pc'[v] = "complete" /\ cur' = cur /\ claim' = claim /\ attemptToken' = attemptToken
    BY <1>1 DEF Execute, Goto, IInv, TypeOK, rows, attemptRow
  <2>2. PICK n \in 1..count[r] :
          /\ \A m \in DOMAIN attemptToken[r] : attemptToken[r][m] = claim[v][r] => m = n
          /\ \/ result' = [result EXCEPT ![v] = "SUCCESS"] /\ refreshed' = refreshed \cup {<<r, n>>}
             \/ UNCHANGED <<result, refreshed>>
    BY <1>1, WorkedAttempt
  <2>3. result[v] # "SUCCESS"
    BY <1>1 DEF SuccessIsWork, Execute
  <2>4. <<r, n>> \in refreshed'
    BY <2>2, <2>3
  <2> QED BY <2>1, <2>2, <2>4
<1>2. CASE ~Execute(v)
  <2>1. /\ result[v] = "SUCCESS" /\ cur'[v] = r /\ claim'[v] = claim[v]
        /\ pc[v] \in {"complete", "unlock", "unwind"}
        /\ pc'[v] \in {"complete", "unlock", "unwind"}
    BY <1>2, SuccessStays
  <2>2. r \in Run
    BY <2>1, RunOf
  <2>3. \A n \in DOMAIN attemptToken[r] : attemptToken[r][n] = claim[v][r] => <<r, n>> \in refreshed
    BY <2>1 DEF SuccessIsWork
  <2>4. ASSUME NEW n \in DOMAIN attemptToken'[r], attemptToken'[r][n] = claim[v][r]
        PROVE  n \in DOMAIN attemptToken[r] /\ attemptToken[r][n] = claim[v][r]
    <3>1. ASSUME NEW w \in Worker, Records(w), cur[w] = r,
                 attemptToken'[r] = Append(attemptToken[r], claim[w][r])
          PROVE  n \in DOMAIN attemptToken[r] /\ attemptToken[r][n] = claim[v][r]
      <4>1. w # v
        BY <2>1, <3>1 DEF Records
      <4>2. claim[w][r] \in Token /\ claim[w][r] # claim[v][r]
        <5>1. claim[w][r] \in Token
          BY <3>1 DEF Records
        <5> QED BY <2>2, <4>1, <5>1, RefreshConstants DEF IInv, ClaimsApart
      <4>3. attemptToken[r] \in Seq(Token)
        BY <2>2 DEF IInv, TypeOK
      <4>4. \/ n \in DOMAIN attemptToken[r] /\ attemptToken'[r][n] = attemptToken[r][n]
            \/ attemptToken'[r][n] = claim[w][r]
        BY <3>1, <4>2, <4>3
      <4> HIDE DEF r
      <4> QED BY <2>4, <4>2, <4>4
    <3> QED BY <2>2, <2>4, <3>1, TokensMove
  <2>5. refreshed \subseteq refreshed'
    BY RefreshedGrows
  <2> QED BY <2>1, <2>3, <2>4, <2>5
<1> QED BY <1>1, <1>2

-----------------------------------------------------------------------------
LEMMA InitJInv == Init => JInv
<1> SUFFICES ASSUME Init PROVE JInv
  OBVIOUS
<1>1. IInv
  BY InitInv
<1>2. Locked /\ OnTime
  BY DEF Init, Locked, Inside, OnTime, Timely
<1>3. TokensApart /\ WorkIsRecorded /\ SuccessIsWork
  BY DEF Init, TokensApart, WorkIsRecorded, SuccessIsWork
<1> QED BY <1>1, <1>2, <1>3 DEF JInv

LEMMA StepJInv == JInv /\ [Next]_vars => JInv'
<1> SUFFICES ASSUME JInv, [Next]_vars PROVE JInv'
  OBVIOUS
<1>1. IInv'
  BY StepInv DEF JInv
<1>2. Locked' /\ OnTime'
  BY LockedStep, OnTimeStep DEF JInv
<1>3. TokensApart' /\ WorkIsRecorded' /\ SuccessIsWork'
  BY TokensApartStep, WorkIsRecordedStep, SuccessIsWorkStep DEF JInv
<1> QED BY <1>1, <1>2, <1>3 DEF JInv

LEMMA AlwaysJInv == Spec => []JInv
BY InitJInv, StepJInv, PTL DEF Spec

\* While no lock session is lost, no two workers are in the browser of one
\* profile, also when the lease of the first ran out under it.
THEOREM ExclusiveCorrect == Spec => []ProfileExclusive
<1>1. JInv => ProfileExclusive
  <2> SUFFICES ASSUME JInv, SessionsHold, NEW v \in Worker, NEW w \in Worker,
                      pc[v] = "execute", pc[w] = "execute", cur[v].shop = cur[w].shop
               PROVE  v = w
    BY DEF ProfileExclusive
  <2> QED BY DEF JInv, Locked, Inside
<1> QED BY <1>1, AlwaysJInv, PTL

LEMMA BeginsOnTime ==
  ASSUME JInv, [Next]_vars, NEW r \in Run, count'[r] # count[r]
  PROVE  time >= start[r] + offsets[r][count'[r]]
<1>1. Moves(r)
  BY NextMoves DEF JInv
<1>2. Starting(r)
  BY <1>1 DEF Moves, Untouched, Opening, Transacted, Releasing, Renewing, Closing, KeepsAttempts
<1>3. status[r] = "RUNNING" /\ Unstarted(r) /\ count'[r] = count[r] + 1
  BY <1>2 DEF Starting, Unstarted
<1> QED BY <1>3 DEF JInv, OnTime, Timely, Earliest

\* An attempt never begins before the offset its cycle's snapshot gives it,
\* whatever the settings say since and however stale the instant claimed with.
THEOREM ScheduleCorrect == Spec => RetryOnSchedule
<1>1. JInv /\ [Next]_vars =>
        [\A r \in Run : count'[r] # count[r]
            => time >= start[r] + offsets[r][count'[r]]]_vars
  BY BeginsOnTime
<1> QED BY <1>1, AlwaysJInv, PTL DEF Spec, RetryOnSchedule

-----------------------------------------------------------------------------
(* The refinement of RefreshContract.                                      *)

\* The attempts of r whose browser work is done.
WorkOf(r) == {n \in 1..count[r] : <<r, n>> \in refreshed}

LEMMA Phases ==
  /\ PhaseOf["ABSENT"] = "none"
  /\ PhaseOf["RETRY_WAIT"] = "open" /\ PhaseOf["RUNNING"] = "open"
  /\ PhaseOf["SUCCEEDED"] = "succeeded" /\ PhaseOf["FAILED_EXHAUSTED"] = "exhausted"
BY DEF PhaseOf

SamePhase(r) == PhaseOf[status'[r]] = PhaseOf[status[r]]

\* The actions of the contract, in terms of the controller's rows.
LEMMA SeesStays ==
  ASSUME NEW r \in Run, SamePhase(r), offsets'[r] = offsets[r],
         attempt'[r] = attempt[r], WorkOf(r)' = WorkOf(r)
  PROVE  Contract!Stays(r)
BY DEF Contract!Stays, Contract!Same, WorkOf, SamePhase

LEMMA SeesOpens ==
  ASSUME NEW r \in Run, PhaseOf[status[r]] = "none", PhaseOf[status'[r]] = "open",
         Len(offsets'[r]) > 0, attempt'[r] = attempt[r], WorkOf(r)' = WorkOf(r)
  PROVE  Contract!Opens(r)
BY DEF Contract!Opens, Contract!Same, WorkOf

LEMMA SeesBegins ==
  ASSUME NEW r \in Run, PhaseOf[status[r]] = "open", SamePhase(r),
         offsets'[r] = offsets[r], WorkOf(r)' = WorkOf(r),
         attempt[r] = <<>> \/ attempt[r][Len(attempt[r])] # "RUNNING",
         Len(attempt[r]) < Len(offsets[r]),
         attempt'[r] = Append(attempt[r], "RUNNING")
  PROVE  Contract!Begins(r)
BY DEF Contract!Begins, Contract!Same, Contract!Working, Contract!Last, WorkOf, SamePhase

LEMMA SeesWorks ==
  ASSUME NEW r \in Run, SamePhase(r), offsets'[r] = offsets[r], attempt'[r] = attempt[r],
         NEW n \in 1..Len(attempt[r]), n \notin WorkOf(r), WorkOf(r)' = WorkOf(r) \cup {n}
  PROVE  Contract!Works(r)
BY DEF Contract!Works, Contract!Same, Contract!Last, WorkOf, SamePhase

LEMMA SeesFails ==
  ASSUME NEW r \in Run, PhaseOf[status[r]] = "open",
         attempt[r] # <<>>, attempt[r][Len(attempt[r])] = "RUNNING",
         attempt'[r] = [attempt[r] EXCEPT ![Len(attempt[r])] = "FAILED"],
         \/ PhaseOf[status'[r]] = "open" /\ Len(attempt[r]) < Len(offsets[r])
         \/ PhaseOf[status'[r]] = "exhausted",
         offsets'[r] = offsets[r], WorkOf(r)' = WorkOf(r)
  PROVE  Contract!Fails(r)
BY DEF Contract!Fails, Contract!Same, Contract!Working, Contract!Last, Contract!Closes, WorkOf

LEMMA SeesSucceeds ==
  ASSUME NEW r \in Run, PhaseOf[status[r]] = "open",
         attempt[r] # <<>>, attempt[r][Len(attempt[r])] = "RUNNING",
         attempt'[r] = [attempt[r] EXCEPT ![Len(attempt[r])] = "SUCCEEDED"],
         Len(attempt[r]) \in WorkOf(r), PhaseOf[status'[r]] = "succeeded",
         offsets'[r] = offsets[r], WorkOf(r)' = WorkOf(r)
  PROVE  Contract!Succeeds(r)
BY DEF Contract!Succeeds, Contract!Same, Contract!Working, Contract!Last, Contract!Closes, WorkOf

LEMMA SeesGivesUp ==
  ASSUME NEW r \in Run, PhaseOf[status[r]] = "open", PhaseOf[status'[r]] = "exhausted",
         attempt[r] = <<>> \/ attempt[r][Len(attempt[r])] # "RUNNING",
         offsets'[r] = offsets[r], attempt'[r] = attempt[r], WorkOf(r)' = WorkOf(r)
  PROVE  Contract!GivesUp(r)
BY DEF Contract!GivesUp, Contract!Same, Contract!Working, Contract!Last, WorkOf

\* What a step does not add to refreshed is not worked, however count changes.
LEMMA SameWork ==
  ASSUME JInv, [Next]_vars, UNCHANGED refreshed, NEW r \in Run PROVE WorkOf(r)' = WorkOf(r)
<1>1. count[r] \in Nat /\ (count'[r] = count[r] \/ count'[r] = count[r] + 1)
  BY TokensMove DEF JInv, IInv, TypeOK
<1>2. \A n : <<r, n>> \in refreshed => n \in 1..count[r]
  BY DEF JInv, WorkIsRecorded
<1> QED BY <1>1, <1>2 DEF WorkOf

\* Success is claimed for the attempt whose browser work succeeded.
LEMMA SuccessWorked ==
  ASSUME JInv, [Next]_vars, NEW r \in Run, status[r] = "RUNNING", status'[r] = "SUCCEEDED"
  PROVE  count[r] \in WorkOf(r)
<1>1. status \in [Run -> Status]
  BY DEF JInv, IInv, TypeOK
<1>2. ASSUME World PROVE UNCHANGED status
  BY <1>2 DEF World, Tick, Edit, SetAutoRefreshEnabled, SetRefreshRetryOffsets, rows, runRow,
              SetRefreshCheckpointEnabled, UpdateRefreshCheckpoint, EligibilityChanges
<1>3. ASSUME NEW w \in Worker, ClaimDueRefreshAttempts(w) PROVE FALSE
  BY <1>3 DEF ClaimDueRefreshAttempts
<1>4. ASSUME NEW w \in Worker, ReleaseRefreshClaim(w) PROVE FALSE
  BY <1>1, <1>4 DEF ReleaseRefreshClaim
<1>5. ASSUME NEW w \in Worker, \/ HeartbeatFires(w) \/ HeartbeatCommits(w) \/ Crash(w)
                               \/ LoseLockSession(w) \/ StatementFails(w)
      PROVE  UNCHANGED status
  BY <1>5 DEF HeartbeatFires, HeartbeatCommits, Crash, LoseLockSession, StatementFails, rows, runRow
<1>6. ASSUME NEW w \in Worker, WorkerStep(w), ~CompleteRefreshAttempt(w) PROVE FALSE
  BY <1>3, <1>4, <1>6 DEF WorkerStep, BeginPass, ClaimWithoutShops, rows, runRow,
      FinishPass, RecordRefreshAttemptStarted, RenewAtStart,
      Preflight, Execute, Unlock, TryLock
<1>7. PICK w \in Worker : CompleteRefreshAttempt(w)
  BY <1>2, <1>5, <1>6 DEF Next, vars, rows, runRow
<1> DEFINE p == cur[w]
<1>8. p \in Run
  BY <1>7, RunOf DEF JInv, CompleteRefreshAttempt
<1>9. Current(p, claim[w][p]) /\ p = r /\ result[w] = "SUCCESS"
  BY <1>1, <1>7, <1>8 DEF CompleteRefreshAttempt
<1>10. /\ count[r] \in DOMAIN attempt[r]
       /\ attemptToken[r][count[r]] = claim[w][r]
  BY <1>9 DEF Current, Owned, LiveAttempts
<1>11. DOMAIN attempt[r] = 1..count[r] /\ DOMAIN attemptToken[r] = 1..count[r]
  BY RowTyped DEF JInv, IInv, RowsOK, RowOK, Explained, RowType
<1>12. <<r, count[r]>> \in refreshed
  BY <1>9, <1>10, <1>11 DEF JInv, SuccessIsWork
<1> QED BY <1>10, <1>11, <1>12 DEF WorkOf

\* The log of a run, as its rows explain it.
LEMMA LogOf ==
  ASSUME IInv, NEW r \in Run
  PROVE  /\ attempt[r] \in Seq(AttemptStatus) /\ count[r] \in Nat
         /\ Len(attempt[r]) = count[r] /\ DOMAIN attempt[r] = 1..count[r]
         /\ attempt[r] = <<>> <=> count[r] = 0
         /\ \A n \in LiveAttempts(r) : n = count[r] /\ attempt[r][n] = "RUNNING" /\ n \in 1..count[r]
         /\ status[r] # "RUNNING" \/ LiveAttempts(r) = {} =>
              \A n \in 1..count[r] : attempt[r][n] # "RUNNING"
BY RowTyped DEF IInv, RowsOK, RowOK, Explained, RowType, LiveAttempts

\* A run the claim transaction works on: its live attempt fails, if it has one.
LEMMA SilencedLog ==
  ASSUME IInv, NEW r \in Run, Silenced(r)
  PROVE  \/ attempt'[r] = attempt[r] /\ \A n \in 1..count[r] : attempt[r][n] # "RUNNING"
         \/ /\ status[r] = "RUNNING" /\ count[r] > 0 /\ attempt[r][count[r]] = "RUNNING"
            /\ attempt'[r] = [attempt[r] EXCEPT ![count[r]] = "FAILED"]
<1> DEFINE s == attempt[r]
<1>1. /\ s \in Seq(AttemptStatus) /\ count[r] \in Nat
      /\ Len(s) = count[r] /\ DOMAIN s = 1..count[r]
  BY LogOf
<1>2. /\ attempt'[r] \in Seq(AttemptStatus) /\ Len(attempt'[r]) = count[r]
      /\ DOMAIN attempt'[r] = 1..count[r]
      /\ \A n \in 1..count[r] :
           attempt'[r][n] = IF status[r] = "RUNNING" /\ n \in LiveAttempts(r)
                            THEN "FAILED" ELSE s[n]
  BY <1>1 DEF Silenced
<1>3. CASE status[r] # "RUNNING" \/ LiveAttempts(r) = {}
  <2>1. \A n \in 1..count[r] : attempt'[r][n] = s[n]
    BY <1>2, <1>3
  <2>2. attempt'[r] = s
    BY <1>1, <1>2, <2>1
  <2> QED BY <1>3, <2>2, LogOf
<1>4. CASE status[r] = "RUNNING" /\ LiveAttempts(r) # {}
  <2>1. /\ LiveAttempts(r) = {count[r]} /\ s[count[r]] = "RUNNING" /\ count[r] > 0
    BY <1>1, <1>4, LogOf
  <2>2. \A n \in 1..count[r] : attempt'[r][n] = [s EXCEPT ![count[r]] = "FAILED"][n]
    BY <1>1, <1>2, <1>4, <2>1
  <2>3. [s EXCEPT ![count[r]] = "FAILED"] \in Seq(AttemptStatus)
        /\ Len([s EXCEPT ![count[r]] = "FAILED"]) = count[r]
    BY <1>1, <2>1 DEF AttemptStatus
  <2>4. attempt'[r] = [s EXCEPT ![count[r]] = "FAILED"]
    BY <1>2, <2>2, <2>3
  <2> QED BY <1>4, <2>1, <2>4
<1> QED BY <1>3, <1>4

LEMMA OpeningRefines ==
  ASSUME IInv, NEW r \in Run, Opening(r), WorkOf(r)' = WorkOf(r) PROVE Contract!Opens(r)
<1>1. status[r] = "ABSENT" /\ count[r] = 0 /\ attempt'[r] = attempt[r]
  <2>1. status[r] = "ABSENT" /\ count[r] = 0 /\ Silenced(r)
    BY DEF Opening, IInv, RowsOK, RowOK, Opened
  <2> QED BY <2>1, SilencedLog
<1>2. status'[r] \in {"RETRY_WAIT", "RUNNING"} /\ Len(offsets'[r]) > 0
  <2>1. offsets'[r] \in Policies /\ (Parked(r) \/ Claimed(r))
    BY DEF Opening
  <2>2. Len(offsets'[r]) \in Nat \ {0}
    BY <2>1, PolicyType
  <2> QED BY <2>1, <2>2 DEF Parked, Claimed
<1> QED BY <1>1, <1>2, Phases, SeesOpens

LEMMA TransactedRefines ==
  ASSUME IInv, NEW r \in Run, Transacted(r), WorkOf(r)' = WorkOf(r)
  PROVE  Contract!Stays(r) \/ Contract!Fails(r) \/ Contract!GivesUp(r)
<1>1. /\ PhaseOf[status[r]] = "open" /\ offsets'[r] = offsets[r] /\ count'[r] = count[r]
      /\ Silenced(r)
  BY Phases DEF Transacted, KeepsCycle
<1>2. \/ PhaseOf[status'[r]] = "open" /\ count[r] < Len(offsets[r])
      \/ PhaseOf[status'[r]] = "exhausted"
  BY <1>1, Phases DEF Transacted, Exhausted, Parked, Claimed
<1>3. attempt[r] = <<>> <=> count[r] = 0
  BY LogOf
<1>4. Len(attempt[r]) = count[r] /\ count[r] \in Nat
  BY LogOf
<1>5. CASE attempt'[r] = attempt[r] /\ \A n \in 1..count[r] : attempt[r][n] # "RUNNING"
  <2>1. attempt[r] = <<>> \/ attempt[r][Len(attempt[r])] # "RUNNING"
    BY <1>3, <1>4, <1>5
  <2> QED BY <1>1, <1>2, <1>5, <2>1, SeesStays, SeesGivesUp DEF SamePhase
<1>6. CASE /\ status[r] = "RUNNING" /\ count[r] > 0 /\ attempt[r][count[r]] = "RUNNING"
           /\ attempt'[r] = [attempt[r] EXCEPT ![count[r]] = "FAILED"]
  BY <1>1, <1>2, <1>3, <1>4, <1>6, SeesFails
<1> QED BY <1>1, <1>5, <1>6, SilencedLog

LEMMA StartingRefines ==
  ASSUME IInv, NEW r \in Run, Starting(r), WorkOf(r)' = WorkOf(r) PROVE Contract!Begins(r)
<1>1. LiveAttempts(r) = {}
  BY LogOf, RowTyped DEF Starting, LiveAttempts, IInv, RowsOK, RowOK, Explained, RowType
<1>2. /\ PhaseOf[status[r]] = "open" /\ SamePhase(r) /\ offsets'[r] = offsets[r]
      /\ attempt'[r] = Append(attempt[r], "RUNNING") /\ count[r] < Len(offsets[r])
  BY Phases DEF Starting, KeepsCycle, SamePhase, Remaining
<1>3. Len(attempt[r]) = count[r] /\ count[r] \in Nat /\ (attempt[r] = <<>> <=> count[r] = 0)
  BY LogOf
<1>4. \A n \in 1..count[r] : attempt[r][n] # "RUNNING"
  BY <1>1, LogOf
<1>5. attempt[r] = <<>> \/ attempt[r][Len(attempt[r])] # "RUNNING"
  BY <1>3, <1>4
<1> QED BY <1>2, <1>3, <1>5, SeesBegins

LEMMA ClosingRefines ==
  ASSUME JInv, [Next]_vars, NEW r \in Run, Closing(r), WorkOf(r)' = WorkOf(r)
  PROVE  Contract!Fails(r) \/ Contract!Succeeds(r)
<1>1. IInv /\ status[r] = "RUNNING" /\ count[r] \in LiveAttempts(r) /\ offsets'[r] = offsets[r]
  BY DEF JInv, Closing, KeepsCycle
<1>2. /\ Len(attempt[r]) = count[r] /\ attempt[r] # <<>>
      /\ attempt[r][Len(attempt[r])] = "RUNNING" /\ PhaseOf[status[r]] = "open"
  BY <1>1, LogOf, Phases
<1>3. PICK a \in {"SUCCEEDED", "FAILED"} :
        /\ attempt'[r] = [attempt[r] EXCEPT ![count[r]] = a]
        /\ \/ a = "SUCCEEDED" /\ status'[r] = "SUCCEEDED"
           \/ a = "FAILED" /\ status'[r] = "RETRY_WAIT" /\ Remaining(r)
           \/ a = "FAILED" /\ status'[r] = "FAILED_EXHAUSTED"
  BY DEF Closing
<1>4. CASE a = "SUCCEEDED"
  <2>1. status'[r] = "SUCCEEDED" /\ count[r] \in WorkOf(r)
    BY <1>1, <1>3, <1>4, SuccessWorked
  <2> QED BY <1>1, <1>2, <1>3, <1>4, <2>1, Phases, SeesSucceeds
<1>5. CASE a = "FAILED"
  BY <1>1, <1>2, <1>3, <1>5, Phases, SeesFails DEF Remaining
<1> QED BY <1>4, <1>5

\* A step without browser work moves every cycle as the contract allows.
LEMMA RowsRefine ==
  ASSUME JInv, [Next]_vars, UNCHANGED refreshed, NEW r \in Run
  PROVE  \/ Contract!Stays(r) \/ Contract!Opens(r) \/ Contract!Begins(r)
         \/ Contract!Fails(r) \/ Contract!Succeeds(r) \/ Contract!GivesUp(r)
<1>1. IInv /\ WorkOf(r)' = WorkOf(r) /\ Moves(r)
  BY SameWork, NextMoves DEF JInv
<1>2. CASE Untouched(r) \/ Renewing(r) \/ Releasing(r)
  BY <1>1, <1>2, Phases, SeesStays
     DEF Untouched, Renewing, Releasing, KeepsCycle, KeepsAttempts, SamePhase
<1> QED BY <1>1, <1>2, OpeningRefines, TransactedRefines, StartingRefines, ClosingRefines DEF Moves

\* Browser work is that of a recorded attempt, done once as the contract counts.
LEMMA WorkRefines ==
  ASSUME JInv, NEW w \in Worker, Execute(w), NEW r \in Run
  PROVE  Contract!Stays(r) \/ Contract!Works(r)
<1>1. /\ IInv /\ UNCHANGED <<status, offsets, count, attempt>> /\ SamePhase(r)
  BY DEF JInv, Execute, rows, runRow, attemptRow, SamePhase
<1>2. PICK n \in 1..count[cur[w]] :
        cur[w] \in Run /\ (refreshed' = refreshed \/ refreshed' = refreshed \cup {<<cur[w], n>>})
  BY WorkedAttempt DEF JInv
<1>3. CASE refreshed' = refreshed \/ cur[w] # r \/ n \in WorkOf(r)
  <2>1. WorkOf(r)' = WorkOf(r)
    BY <1>1, <1>2, <1>3 DEF WorkOf
  <2> QED BY <1>1, <2>1, SeesStays
<1>4. CASE refreshed' = refreshed \cup {<<cur[w], n>>} /\ cur[w] = r /\ n \notin WorkOf(r)
  <2>1. WorkOf(r)' = WorkOf(r) \cup {n}
    BY <1>1, <1>2, <1>4 DEF WorkOf
  <2>2. n \in 1..Len(attempt[r])
    BY <1>1, <1>2, <1>4, LogOf
  <2> QED BY <1>1, <1>4, <2>1, <2>2, SeesWorks
<1> QED BY <1>2, <1>3, <1>4

LEMMA StepRefines == ASSUME JInv, [Next]_vars PROVE Contract!Next
<1>1. CASE UNCHANGED refreshed
  BY <1>1, RowsRefine DEF Contract!Next
<1>2. ASSUME NEW w \in Worker, Execute(w) PROVE Contract!Next
  BY <1>2, WorkRefines DEF Contract!Next
<1> QED BY <1>1, <1>2, RefreshedMoves

LEMMA InitRefines == Init => Contract!Init
<1> SUFFICES ASSUME Init PROVE Contract!Init
  OBVIOUS
<1>1. \A r \in Run : PhaseOf[status[r]] = "none" /\ Len(offsets[r]) = 0 /\ WorkOf(r) = {}
  BY Phases DEF Init, WorkOf
<1>2. attempt = [r \in Run |-> <<>>]
  BY DEF Init
<1> QED BY <1>1, <1>2 DEF Contract!Init, WorkOf

\* The controller implements the contract of a cycle: its budget is fixed when
\* it opens, attempts begin one at a time and within it, success is recorded
\* only for the attempt whose browser work succeeded, and nothing follows it.
THEOREM ContractCorrect == Spec => ImplementsContract
<1>1. JInv /\ [Next]_vars => [RowsStand \/ Contract!Next]_(Contract!vars)
  BY StepRefines
<1> QED BY <1>1, InitRefines, AlwaysJInv, PTL DEF Spec, ImplementsContract

\* The same as a refinement: the controller implements the specification of
\* RefreshContract.
THEOREM Refinement == Spec => Contract!Spec
<1>1. JInv /\ [Next]_vars => [Contract!Next]_(Contract!vars)
  BY StepRefines
<1> QED BY <1>1, InitRefines, AlwaysJInv, PTL DEF Spec, Contract!Spec

=============================================================================
