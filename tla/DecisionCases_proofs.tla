------------------------ MODULE DecisionCases_proofs ------------------------
(***************************************************************************)
(* Theorems about DecisionCases: what a case, a verdict, a decision and an *)
(* execution are once they are in the database, whoever races for them.    *)
(*                                                                         *)
(* The rows are append-only (RowsStay); what a call still holds of them    *)
(* when it speaks is therefore true of them (Held, HeldByDesk), and the    *)
(* properties of the rows and of the answers follow.                       *)
(***************************************************************************)
EXTENDS DecisionCases, FiniteSetTheorems, TLAPS

\* The steps of a call after its case was created, or found.
Committed == {"reread", "client", "recommend", "record", "answer"}

\* What a reviewer's call knows about the rows of its request: the case exists
\* from its creation on, the task and the answer are the case's or a failure,
\* and the call answers once there is a verdict.
Held(r) ==
    /\ At(r, "create") =>
          review[r].facts # Unread /\ review[r].run # Unread /\ review[r].task \in Task
    /\ review[r].step \in Committed => cases[Asked(r)] # None
    /\ review[r].step \in {"recommend", "record"} =>
          review[r].task \in {cases[Asked(r)].task, Unavailable}
    /\ At(r, "record") => review[r].result \in {cases[Asked(r)].task, Unavailable}
    /\ At(r, "answer") => verdicts[Asked(r)] # None

\* A verdict is of its case, and is the case's task's or a failure.
VerdictOfCase(q) ==
    verdicts[q] # None =>
        cases[q] # None /\ verdicts[q] \in {cases[q].task, Unavailable}

\* What was shown is the case with its verdict.
ShownIsStored(q) ==
    shown[q] # {} => verdicts[q] # None /\ shown[q] = {<<cases[q], verdicts[q]>>}

\* Decision n of case q is a PAUSE that came m-th or later.
IsPause(q, n, m) ==
    /\ n \in 1 .. Len(decisions[q]) /\ m <= n
    /\ decisions[q][n].decision = "PAUSE"

\* What an analyst's call knows: how long the list of decisions was, and then
\* which of them it confirms.
HeldByDesk(a) ==
    /\ desk[a].step = "latest" => desk[a].since <= Len(decisions[desk[a].case])
    /\ desk[a].step = "execute" => IsPause(desk[a].case, desk[a].decision, desk[a].since)

ExecutionIsBound(x) ==
    executions[x] # None =>
        IsPause(executions[x].case, executions[x].decision, executions[x].since)

DInv ==
    /\ TypeOK
    /\ \A r \in Reviewer : Held(r)
    /\ \A q \in Request : VerdictOfCase(q) /\ ShownIsStored(q)
    /\ \A a \in Analyst : HeldByDesk(a)
    /\ \A x \in ExecutionId : ExecutionIsBound(x)

-----------------------------------------------------------------------------
(* The rows are append-only.                                               *)

\* A case, a verdict and an execution are written once, and the decisions of
\* a case are only added to.
RowsStay ==
    /\ \A q \in Request : cases[q] # None => cases'[q] = cases[q]
    /\ \A q \in Request : verdicts[q] # None => verdicts'[q] = verdicts[q]
    /\ \A q \in Request :
          /\ Len(decisions[q]) <= Len(decisions'[q])
          /\ \A i \in 1 .. Len(decisions[q]) : decisions'[q][i] = decisions[q][i]
    /\ \A x \in ExecutionId : executions[x] # None => executions'[x] = executions[x]

\* The actions that leave the rows alone.
Reading ==
    \/ \E s \in Shop : WriteOrders(s) \/ CompleteRun(s)
    \/ appendAiTaskConfigRevision
    \/ \E r \in Reviewer :
          \/ \E s \in Shop, q \in Request : StartReview(r, s, q)
          \/ Lookup(r) \/ ReadFacts(r) \/ ReadRun(r) \/ resolveRequestedAiTask(r)
          \/ Reread(r) \/ aiClientForCase(r) \/ Recommend(r) \/ AnswerReview(r)
          \/ \E m \in Model : Restart(r, m)
    \/ \E a \in Analyst :
          \/ \E q \in Request, b \in DecisionId, d \in Decision : Decide(a, q, b, d)
          \/ \E q \in Request, x \in ExecutionId : Execute(a, q, x)
          \/ ReadLatest(a) \/ Lose(a)

\* The actions that leave the rows alone do.
LEMMA ReadingKeeps ==
    ASSUME Reading
    PROVE  UNCHANGED <<cases, verdicts, decisions, executions>>
<1>1. CASE \/ \E s \in Shop : WriteOrders(s) \/ CompleteRun(s)
           \/ appendAiTaskConfigRevision
  BY <1>1 DEF WriteOrders, CompleteRun, appendAiTaskConfigRevision
<1>2. CASE \E r \in Reviewer :
          \/ \E s \in Shop, q \in Request : StartReview(r, s, q)
          \/ Lookup(r) \/ ReadFacts(r) \/ ReadRun(r) \/ resolveRequestedAiTask(r)
          \/ Reread(r) \/ aiClientForCase(r) \/ Recommend(r) \/ AnswerReview(r)
          \/ \E m \in Model : Restart(r, m)
  BY <1>2 DEF StartReview, Lookup, ReadFacts, ReadRun, resolveRequestedAiTask, Reread,
              aiClientForCase, Recommend, AnswerReview, Restart, database
<1>3. CASE \E a \in Analyst :
          \/ \E q \in Request, b \in DecisionId, d \in Decision : Decide(a, q, b, d)
          \/ \E q \in Request, x \in ExecutionId : Execute(a, q, x)
          \/ ReadLatest(a) \/ Lose(a)
  BY <1>3 DEF Decide, Execute, Begin, ReadLatest, Lose, database
<1>4. QED
  BY <1>1, <1>2, <1>3 DEF Reading

\* Every step keeps the rows.
LEMMA StepKeepsRows ==
    ASSUME TypeOK, [Next]_vars
    PROVE  RowsStay
<1>1. CASE Reading \/ UNCHANGED vars
  <2>1. UNCHANGED <<cases, verdicts, decisions, executions>>
    BY <1>1, ReadingKeeps DEF vars, database
  <2>2. QED
    BY <2>1 DEF RowsStay, TypeOK
<1>2. ASSUME NEW r \in Reviewer, createDecisionCase(r)
      PROVE  RowsStay
  BY <1>2 DEF RowsStay, TypeOK, createDecisionCase
<1>3. ASSUME NEW r \in Reviewer, recordAiDecision(r)
      PROVE  RowsStay
  BY <1>3 DEF RowsStay, TypeOK, recordAiDecision, KeptVerdict
<1>4. ASSUME NEW a \in Analyst, recordBaDecisionForCase(a)
      PROVE  RowsStay
  <2>1. desk[a] \in [step : {"decide"}, case : Request, id : DecisionId, decision : Decision]
    BY <1>4 DEF TypeOK, AtDesk, Idle, recordBaDecisionForCase
  <2>2. UNCHANGED <<cases, verdicts, executions>>
    BY <1>4 DEF recordBaDecisionForCase
  <2>3. ASSUME NEW q \in Request
        PROVE  \/ decisions'[q] = decisions[q]
               \/ decisions'[q] = Append(decisions[q], [id |-> desk[a].id,
                                                        decision |-> desk[a].decision])
    BY <1>4, <2>1 DEF recordBaDecisionForCase, TypeOK
  <2>4. ASSUME NEW q \in Request
        PROVE  /\ Len(decisions[q]) <= Len(decisions'[q])
               /\ \A i \in 1 .. Len(decisions[q]) : decisions'[q][i] = decisions[q][i]
    <3>1. decisions[q] \in Seq(Revision)
      BY DEF TypeOK
    <3>2. [id |-> desk[a].id, decision |-> desk[a].decision] \in Revision
      BY <2>1 DEF Revision
    <3>3. QED
      BY <2>3, <3>1, <3>2
  <2>5. QED
    BY <2>2, <2>4 DEF RowsStay
<1>5. ASSUME NEW a \in Analyst, recordDryRunExecution(a)
      PROVE  RowsStay
  BY <1>5 DEF RowsStay, TypeOK, recordDryRunExecution
<1>6. QED
  BY <1>1, <1>2, <1>3, <1>4, <1>5 DEF Next, Review, Desk, Reading

-----------------------------------------------------------------------------
(* The types.                                                              *)

\* A case can be made of what was read for it, and its verdict be given.
LEMMA CaseType ==
    ASSUME TypeOK, NEW r \in Reviewer, At(r, "create"), Held(r)
    PROVE  [shop |-> review[r].shop, facts |-> review[r].facts,
            run |-> review[r].run, task |-> review[r].task] \in Case
<1>1. review[r] # Idle
  BY DEF At, Idle
<1>2. review[r] \in InReview
  BY <1>1 DEF TypeOK
<1>3. review[r].facts \in 0 .. MaxVersion /\ review[r].run \in 0 .. MaxVersion
  BY <1>2, DecisionConstants DEF Held, Unread, InReview
<1>4. review[r].shop \in Shop /\ review[r].task \in Task
  BY <1>2 DEF Held, InReview
<1>5. QED
  BY <1>3, <1>4 DEF Case

\* A call in progress is of its shop and its request.
LEMMA ReviewType ==
    ASSUME TypeOK, NEW r \in Reviewer, review[r] # Idle
    PROVE  review[r] \in InReview
  BY DEF TypeOK

\* A call that goes on to another step keeps its type.
LEMMA StepType ==
    ASSUME TypeOK, NEW r \in Reviewer, review[r] # Idle, NEW step \in Steps,
           review' = [review EXCEPT ![r].step = step]
    PROVE  review' \in [Reviewer -> InReview \cup {Idle}]
<1>1. review[r] \in InReview
  BY ReviewType
<1>2. [review[r] EXCEPT !.step = step] \in InReview
  BY <1>1 DEF InReview
<1>3. review' = [review EXCEPT ![r] = [review[r] EXCEPT !.step = step]]
  OBVIOUS
<1>4. QED
  BY <1>2, <1>3 DEF TypeOK

\* A reviewer's action leaves the types of the database and the desk alone.
LEMMA TypesOfReviews ==
    ASSUME TypeOK, NEW r \in Reviewer, Held(r), Review(r),
           \A q \in Request : VerdictOfCase(q)
    PROVE  TypeOK'
<1>1. ASSUME NEW s \in Shop, NEW q \in Request, StartReview(r, s, q)
      PROVE  TypeOK'
  <2>1. [step |-> "lookup", shop |-> s, request |-> q, facts |-> Unread,
         run |-> Unread, task |-> None, result |-> None]
           \in InReview
    BY DecisionConstants DEF Steps, Unread, InReview
  <2>2. reviews' \in 0 .. MaxReviews
    BY <1>1, DecisionConstants DEF StartReview, TypeOK
  <2>3. QED
    BY <1>1, <2>1, <2>2 DEF StartReview, TypeOK, database
<1>2. ASSUME ReadFacts(r) \/ ReadRun(r)
      PROVE  TypeOK'
  <2>1. review[r] # Idle
    BY <1>2 DEF ReadFacts, ReadRun, At, Idle
  <2>2. stored[review[r].shop] \in 0 .. Unread /\ proven[review[r].shop] \in 0 .. Unread
    <3>1. review[r].shop \in Shop
      BY <2>1, ReviewType DEF InReview
    <3>2. stored[review[r].shop] \in 0 .. MaxVersion /\ proven[review[r].shop] \in 0 .. MaxVersion
      BY <3>1 DEF TypeOK
    <3>3. QED
      BY <3>2, DecisionConstants DEF Unread
  <2>3. review' \in [Reviewer -> InReview \cup {Idle}]
    <3>1. review[r] \in InReview
      BY <2>1, ReviewType
    <3>2. /\ [review[r] EXCEPT !.facts = stored[review[r].shop]] \in InReview
          /\ [review[r] EXCEPT !.run = proven[review[r].shop]] \in InReview
      BY <3>1, <2>2 DEF InReview
    <3>3. \/ review' = [review EXCEPT ![r] =
                          [review[r] EXCEPT !.facts = stored[review[r].shop]]]
          \/ review' = [review EXCEPT ![r] =
                          [review[r] EXCEPT !.run = proven[review[r].shop]]]
      BY <1>2 DEF ReadFacts, ReadRun
    <3>4. QED
      BY <3>2, <3>3 DEF TypeOK
  <2>4. QED
    BY <1>2, <2>3 DEF ReadFacts, ReadRun, TypeOK, database
<1>3. ASSUME resolveRequestedAiTask(r) \/ aiClientForCase(r)
      PROVE  TypeOK'
  <2>1. review[r] # Idle
    BY <1>3 DEF resolveRequestedAiTask, aiClientForCase, At, Idle
  <2>2. CurrentTask(r) \in Task
    BY DecisionConstants DEF CurrentTask, Task, Environment, Persisted, TypeOK
  <2>3. ASSUME aiClientForCase(r)
        PROVE  ClientFor(r, cases[Asked(r)].task) \in Task \cup {Unavailable}
    <3>1. cases[Asked(r)] # None
      BY <2>3 DEF Held, aiClientForCase, At, Committed
    <3>2. cases[Asked(r)] \in Case
      BY <2>1, <3>1, ReviewType DEF TypeOK, Asked, InReview
    <3>3. QED
      BY <3>2 DEF ClientFor, Case
  <2>4. {"create", "recommend"} \subseteq Steps
    BY DEF Steps
  <2>5. CASE resolveRequestedAiTask(r)
    <3>1. review' \in [Reviewer -> InReview \cup {Idle}]
      <4>1. review' = [review EXCEPT ![r] =
               [review[r] EXCEPT !.task = CurrentTask(r), !.step = "create"]]
        BY <2>5 DEF resolveRequestedAiTask
      <4>2. review[r] \in InReview
        BY <2>1, ReviewType
      <4>3. [review[r] EXCEPT !.task = CurrentTask(r), !.step = "create"]
               \in InReview
        BY <4>2, <2>5, <2>2, <2>4 DEF InReview
      <4>4. QED
        BY <4>1, <4>3 DEF TypeOK
    <3>2. QED
      BY <2>5, <3>1 DEF resolveRequestedAiTask, TypeOK, database
  <2>6. CASE aiClientForCase(r)
    <3>1. review' \in [Reviewer -> InReview \cup {Idle}]
      <4>1. review' = [review EXCEPT ![r] =
               [review[r] EXCEPT !.task = ClientFor(r, cases[Asked(r)].task), !.step = "recommend"]]
        BY <2>6 DEF aiClientForCase
      <4>2. review[r] \in InReview
        BY <2>1, ReviewType
      <4>3. [review[r] EXCEPT !.task = ClientFor(r, cases[Asked(r)].task), !.step = "recommend"]
               \in InReview
        BY <4>2, <2>6, <2>3, <2>4 DEF InReview
      <4>4. QED
        BY <4>1, <4>3 DEF TypeOK
    <3>2. QED
      BY <2>6, <3>1 DEF aiClientForCase, TypeOK, database
  <2>7. QED
    BY <1>3, <2>5, <2>6
<1>4. ASSUME createDecisionCase(r)
      PROVE  TypeOK'
  <2>1. review[r] # Idle
    BY <1>4 DEF createDecisionCase, At, Idle
  <2>2. cases' \in [Request -> Case \cup {None}]
    BY <1>4, CaseType DEF createDecisionCase, TypeOK
  <2>3. "reread" \in Steps
    BY DEF Steps
  <2>4. \/ review' = [review EXCEPT ![r].step = "reread"]
        \/ review' = [review EXCEPT ![r] = Idle]
    BY <1>4 DEF createDecisionCase, Goto, Fail
  <2>5. review' \in [Reviewer -> InReview \cup {Idle}]
    BY <2>1, <2>3, <2>4, StepType DEF TypeOK
  <2>6. QED
    BY <1>4, <2>2, <2>5 DEF createDecisionCase, TypeOK
<1>5. ASSUME Lookup(r) \/ Reread(r) \/ AnswerReview(r)
      PROVE  TypeOK'
  <2>1. review[r] # Idle
    BY <1>5 DEF Lookup, Reread, AnswerReview, At, Idle
  <2>2. {"load", "client"} \subseteq Steps
    BY DEF Steps
  <2>3. \/ review' = [review EXCEPT ![r].step = "load"]
        \/ review' = [review EXCEPT ![r].step = "client"]
        \/ review' = [review EXCEPT ![r] = Idle]
    BY <1>5 DEF Lookup, Reread, AnswerReview, Goto, Fail, Answer
  <2>4. review' \in [Reviewer -> InReview \cup {Idle}]
    BY <2>1, <2>2, <2>3, StepType DEF TypeOK
  <2>5. ASSUME shown' # shown
        PROVE  <<cases[Asked(r)], verdicts[Asked(r)]>> \in Case \X (Task \cup {Unavailable})
    <3>1. verdicts[Asked(r)] # None
      BY <1>5, <2>5 DEF Lookup, Reread, AnswerReview, Held, At
    <3>2. Asked(r) \in Request
      BY <2>1, ReviewType DEF Asked, InReview
    <3>3. QED
      BY <3>1, <3>2 DEF VerdictOfCase, TypeOK
  <2>6. \A q \in Request : shown'[q] \subseteq Case \X (Task \cup {Unavailable})
    <3>1. \/ shown' = shown
          \/ shown' = [shown EXCEPT ![Asked(r)] =
                          @ \cup {<<cases[Asked(r)], verdicts[Asked(r)]>>}]
      BY <1>5 DEF Lookup, Reread, AnswerReview, Answer
    <3>2. QED
      BY <3>1, <2>5 DEF TypeOK
  <2>7. QED
    <3>1. DOMAIN shown' = Request
      BY <1>5 DEF Lookup, Reread, AnswerReview, Answer, TypeOK
    <3>2. QED
      BY <1>5, <2>4, <2>6, <3>1 DEF Lookup, Reread, AnswerReview, database, TypeOK
<1>6. ASSUME Recommend(r)
      PROVE  TypeOK'
  <2>1. review[r] # Idle
    BY <1>6 DEF Recommend, At, Idle
  <2>2. "record" \in Steps
    BY DEF Steps
  <2>3. QED
    <3>1. review' \in [Reviewer -> InReview \cup {Idle}]
      <4>1. PICK answer \in {review[r].task, Unavailable} :
               review' = [review EXCEPT ![r].result = answer, ![r].step = "record"]
        BY <1>6 DEF Recommend
      <4>2. review[r] \in InReview
        BY <2>1, ReviewType
      <4>3. [review[r] EXCEPT !.result = answer, !.step = "record"] \in InReview
        BY <4>2, <2>2 DEF InReview
      <4>4. review' = [review EXCEPT ![r] =
               [review[r] EXCEPT !.result = answer, !.step = "record"]]
        BY <4>1
      <4>5. QED
        BY <4>3, <4>4 DEF TypeOK
    <3>2. QED
      BY <1>6, <3>1 DEF Recommend, TypeOK, database
<1>7. ASSUME recordAiDecision(r)
      PROVE  TypeOK'
  <2>1. review[r] # Idle
    BY <1>7 DEF recordAiDecision, At, Idle
  <2>2. "answer" \in Steps
    BY DEF Steps
  <2>3. QED
    <3>1. review' \in [Reviewer -> InReview \cup {Idle}]
      BY <1>7, <2>1, <2>2, StepType DEF recordAiDecision, Goto
    <3>2. verdicts' \in [Request -> Task \cup {Unavailable, None}]
      BY <1>7, <2>1, ReviewType DEF recordAiDecision, KeptVerdict, TypeOK, InReview
    <3>3. QED
      BY <1>7, <3>1, <3>2 DEF recordAiDecision, TypeOK
<1>8. ASSUME NEW m \in Model, Restart(r, m)
      PROVE  TypeOK'
  BY <1>8 DEF Restart, TypeOK, database
<1>9. QED
  BY <1>1, <1>2, <1>3, <1>4, <1>5, <1>6, <1>7, <1>8 DEF Review

\* Nor does an analyst's.
LEMMA TypesOfDesk ==
    ASSUME TypeOK, NEW a \in Analyst, Desk(a)
    PROVE  TypeOK'
<1>1. ASSUME NEW q \in Request, NEW b \in DecisionId, NEW d \in Decision, Decide(a, q, b, d)
      PROVE  TypeOK'
  <2>1. [step |-> "decide", case |-> q, id |-> b, decision |-> d] \in AtDesk
    BY DEF AtDesk
  <2>2. calls' \in 0 .. MaxDesk
    BY <1>1, DecisionConstants DEF Decide, Begin, TypeOK
  <2>3. QED
    BY <1>1, <2>1, <2>2 DEF Decide, Begin, TypeOK, database
<1>2. ASSUME NEW q \in Request, NEW x \in ExecutionId, Execute(a, q, x)
      PROVE  TypeOK'
  <2>1. Len(decisions[q]) \in Nat
    BY DEF TypeOK
  <2>2. [step |-> "latest", case |-> q, id |-> x, since |-> Len(decisions[q])] \in AtDesk
    BY <2>1 DEF AtDesk
  <2>3. calls' \in 0 .. MaxDesk
    BY <1>2, DecisionConstants DEF Execute, Begin, TypeOK
  <2>4. QED
    BY <1>2, <2>2, <2>3 DEF Execute, Begin, TypeOK, database
<1>3. ASSUME recordBaDecisionForCase(a)
      PROVE  TypeOK'
  <2>1. desk[a] \in [step : {"decide"}, case : Request, id : DecisionId, decision : Decision]
    BY <1>3 DEF TypeOK, AtDesk, Idle, recordBaDecisionForCase
  <2>2. [id |-> desk[a].id, decision |-> desk[a].decision] \in Revision
    BY <2>1 DEF Revision
  <2>3. decisions' \in [Request -> Seq(Revision)]
    BY <1>3, <2>1, <2>2 DEF recordBaDecisionForCase, TypeOK
  <2>4. QED
    BY <1>3, <2>3 DEF recordBaDecisionForCase, TypeOK
<1>4. ASSUME ReadLatest(a)
      PROVE  TypeOK'
  <2>1. desk[a] \in [step : {"latest"}, case : Request, id : ExecutionId, since : Nat]
    BY <1>4 DEF TypeOK, AtDesk, Idle, ReadLatest
  <2>2. Len(decisions[desk[a].case]) \in Nat
    BY <2>1 DEF TypeOK
  <2>3. [step |-> "execute", case |-> desk[a].case, id |-> desk[a].id,
         since |-> desk[a].since, decision |-> Len(decisions[desk[a].case])] \in AtDesk
    BY <2>1, <2>2 DEF AtDesk
  <2>4. QED
    BY <1>4, <2>3 DEF ReadLatest, LatestDecision, TypeOK, database
<1>5. ASSUME recordDryRunExecution(a)
      PROVE  TypeOK'
  <2>1. desk[a] \in [step : {"execute"}, case : Request, id : ExecutionId, since : Nat,
                     decision : Nat]
    BY <1>5 DEF TypeOK, AtDesk, Idle, recordDryRunExecution
  <2>2. [case |-> desk[a].case, decision |-> desk[a].decision, since |-> desk[a].since]
           \in [case : Request, decision : Nat, since : Nat]
    BY <2>1
  <2>3. executions' \in
           [ExecutionId -> [case : Request, decision : Nat, since : Nat] \cup {None}]
    BY <1>5, <2>2 DEF recordDryRunExecution, TypeOK
  <2>4. QED
    BY <1>5, <2>3 DEF recordDryRunExecution, TypeOK
<1>6. ASSUME Lose(a)
      PROVE  TypeOK'
  BY <1>6 DEF Lose, TypeOK, database
<1>7. QED
  BY <1>1, <1>2, <1>3, <1>4, <1>5, <1>6 DEF Desk

\* Every step keeps the types.
LEMMA StepKeepsTypes ==
    ASSUME DInv, [Next]_vars
    PROVE  TypeOK'
<1>1. CASE UNCHANGED vars
  BY <1>1 DEF DInv, TypeOK, vars, database
<1>2. ASSUME NEW s \in Shop, WriteOrders(s) \/ CompleteRun(s)
      PROVE  TypeOK'
  BY SMTT(30), <1>2, DecisionConstants DEF DInv, TypeOK, WriteOrders, CompleteRun
<1>3. CASE appendAiTaskConfigRevision
  BY SMTT(30), <1>3, DecisionConstants DEF DInv, TypeOK, appendAiTaskConfigRevision
<1>4. QED
  BY <1>1, <1>2, <1>3, TypesOfReviews, TypesOfDesk DEF DInv, Next

-----------------------------------------------------------------------------
(* What a call holds stays true.                                           *)

\* While a call waits, rows it relies on stay.
LEMMA WaitingHolds ==
    ASSUME TypeOK, RowsStay, NEW r \in Reviewer, Held(r), review'[r] = review[r]
    PROVE  Held(r)'
<1>1. CASE review[r] = Idle
  BY <1>1 DEF Held, At, Idle, Committed
<1>2. CASE review[r] # Idle
  <2>1. Asked(r) \in Request /\ Asked(r)' = Asked(r)
    BY <1>2, ReviewType DEF Asked, InReview
  <2>2. /\ cases[Asked(r)] # None => cases'[Asked(r)] = cases[Asked(r)]
        /\ verdicts[Asked(r)] # None => verdicts'[Asked(r)] = verdicts[Asked(r)]
    BY <2>1 DEF RowsStay
  <2>3. {"recommend", "record"} \subseteq Committed
    BY DEF Committed
  <2>4. CASE review[r].step \in Committed
    <3>1. cases[Asked(r)] # None /\ cases'[Asked(r)'] = cases[Asked(r)]
      BY <2>1, <2>2, <2>4 DEF Held
    <3>2. At(r, "answer") => verdicts'[Asked(r)'] # None
      BY <2>1, <2>2 DEF Held
    <3>3. QED
      BY <3>1, <3>2 DEF Held, At
  <2>5. CASE review[r].step \notin Committed
    BY <2>5 DEF Held, At, Committed
  <2>6. QED
    BY <2>4, <2>5
<1>3. QED
  BY <1>1, <1>2

\* A reviewer's step is of its own call.
LEMMA OneReview ==
    ASSUME TypeOK, NEW r \in Reviewer, Review(r), NEW p \in Reviewer, p # r
    PROVE  review'[p] = review[p]
<1>1. CASE \E s \in Shop, q \in Request : StartReview(r, s, q)
  BY <1>1 DEF StartReview, TypeOK
<1>2. CASE Lookup(r) \/ Reread(r) \/ AnswerReview(r) \/ createDecisionCase(r)
           \/ recordAiDecision(r)
  BY <1>2 DEF Lookup, Reread, AnswerReview, createDecisionCase, recordAiDecision, Goto,
              Fail, Answer, TypeOK
<1>3. CASE ReadFacts(r) \/ ReadRun(r) \/ resolveRequestedAiTask(r) \/ aiClientForCase(r)
  BY <1>3 DEF ReadFacts, ReadRun, resolveRequestedAiTask, aiClientForCase, TypeOK
<1>4. CASE Recommend(r) \/ \E m \in Model : Restart(r, m)
  BY <1>4 DEF Recommend, Restart, TypeOK
<1>5. QED
  BY <1>1, <1>2, <1>3, <1>4 DEF Review

\* What a call holds after a step of its own.
LEMMA StepHolds ==
    ASSUME TypeOK, RowsStay, NEW r \in Reviewer, Held(r), Review(r)
    PROVE  Held(r)'
<1>1. CASE \E s \in Shop, q \in Request : StartReview(r, s, q)
  <2>1. review'[r].step = "lookup"
    BY <1>1 DEF StartReview, TypeOK
  <2>2. QED
    BY <2>1 DEF Held, At, Committed
<1>2. CASE review'[r] = Idle
  BY <1>2 DEF Held, At, Committed, Idle
<1>3. CASE review[r] # Idle /\ review'[r] # Idle
  <2> DEFINE q == Asked(r)
  <2>1. review[r] \in InReview /\ q \in Request
    BY <1>3, ReviewType DEF Asked, InReview
  <2>2. /\ cases[q] # None => cases'[q] = cases[q]
        /\ verdicts[q] # None => verdicts'[q] = verdicts[q]
    BY <2>1 DEF RowsStay
  <2>3. CASE ReadFacts(r) \/ ReadRun(r)
    <3>1. review'[r].step = "load"
      BY <2>1, <2>3 DEF ReadFacts, ReadRun, At, TypeOK, InReview
    <3>2. QED
      BY <3>1 DEF Held, At, Committed
  <2>4. CASE resolveRequestedAiTask(r)
    <3>1. /\ review'[r].step = "create" /\ review'[r].task = CurrentTask(r)
          /\ review'[r].facts = review[r].facts /\ review'[r].run = review[r].run
      BY <2>1, <2>4 DEF resolveRequestedAiTask, TypeOK, InReview
    <3>2. CurrentTask(r) \in Task
      BY DecisionConstants DEF CurrentTask, Task, Environment, Persisted, TypeOK
    <3>3. review[r].facts # Unread /\ review[r].run # Unread
      BY <2>4 DEF resolveRequestedAiTask
    <3>4. QED
      BY <3>1, <3>2, <3>3 DEF Held, At, Committed
  <2>5. CASE createDecisionCase(r)
    <3>1. review' = [review EXCEPT ![r].step = "reread"]
      BY <1>3, <2>1, <2>5 DEF createDecisionCase, Goto, Fail, TypeOK
    <3>2. review'[r].step = "reread" /\ review'[r].request = q
      BY <2>1, <3>1 DEF TypeOK, InReview, Asked
    <3>3. cases'[q] # None
      BY SMTT(30), <2>1, <2>2, <2>5, CaseType, DecisionConstants DEF createDecisionCase, TypeOK
    <3>4. QED
      BY <3>2, <3>3 DEF Held, At, Asked, Committed
  <2>6. CASE Lookup(r) \/ Reread(r) \/ AnswerReview(r)
    <3>1. \/ review' = [review EXCEPT ![r].step = "load"]
          \/ review' = [review EXCEPT ![r].step = "client"] /\ cases[q] # None
      BY <1>3, <2>1, <2>6 DEF Lookup, Reread, AnswerReview, Goto, Fail, Answer, TypeOK,
                              Held, At, Committed
    <3>2. review'[r].step \in {"load", "client"} /\ review'[r].request = q
      BY <2>1, <3>1 DEF TypeOK, InReview, Asked
    <3>3. review'[r].step = "client" => cases'[q] # None
      BY <2>1, <2>2, <3>1 DEF TypeOK, InReview
    <3>4. QED
      BY <3>2, <3>3 DEF Held, At, Asked, Committed
  <2>7. CASE aiClientForCase(r)
    <3>1. /\ review'[r].step = "recommend" /\ review'[r].request = q
          /\ review'[r].task = ClientFor(r, cases[q].task)
      BY <2>1, <2>7 DEF aiClientForCase, TypeOK, InReview, Asked
    <3>2. cases[q] # None
      BY <2>7 DEF aiClientForCase, Held, At, Committed
    <3>3. ClientFor(r, cases[q].task) \in {cases[q].task, Unavailable}
      BY DEF ClientFor
    <3>4. QED
      BY <2>2, <3>1, <3>2, <3>3 DEF Held, At, Asked, Committed
  <2>8. CASE Recommend(r)
    <3>1. PICK answer \in {review[r].task, Unavailable} :
             review' = [review EXCEPT ![r].result = answer, ![r].step = "record"]
      BY <2>8 DEF Recommend
    <3>2. /\ review'[r].step = "record" /\ review'[r].request = q
          /\ review'[r].result = answer /\ review'[r].task = review[r].task
      BY <2>1, <3>1 DEF TypeOK, InReview, Asked
    <3>3. /\ cases[q] # None
          /\ review[r].task \in {cases[q].task, Unavailable}
      BY <2>8 DEF Recommend, Held, At, Committed
    <3>4. QED
      BY <2>2, <3>2, <3>3 DEF Held, At, Asked, Committed
  <2>9. CASE recordAiDecision(r)
    <3>1. review'[r].step = "answer" /\ review'[r].request = q
      BY <2>1, <2>9 DEF recordAiDecision, Goto, TypeOK, InReview, Asked
    <3>2. cases[q] # None /\ review[r].result \in {cases[q].task, Unavailable}
      BY <2>9 DEF recordAiDecision, Held, At, Committed
    <3>3. review[r].result # None
      BY <2>1, <3>2, DecisionConstants DEF TypeOK, Case
    <3>4. verdicts'[q] # None
      BY <2>1, <2>9, <3>3 DEF recordAiDecision, KeptVerdict, TypeOK
    <3>5. QED
      BY <2>2, <3>1, <3>2, <3>4 DEF Held, At, Asked, Committed
  <2>10. CASE \E m \in Model : Restart(r, m)
    BY <1>3, <2>10 DEF Restart, TypeOK
  <2>11. QED
    BY <1>1, <2>3, <2>4, <2>5, <2>6, <2>7, <2>8, <2>9, <2>10 DEF Review
<1>4. CASE review[r] = Idle
  <2>1. \E s \in Shop, q \in Request : StartReview(r, s, q)
    BY <1>4 DEF Review, Lookup, ReadFacts, ReadRun, resolveRequestedAiTask,
                createDecisionCase, Reread, aiClientForCase, Recommend, recordAiDecision,
                AnswerReview, Restart, At, Idle
  <2>2. QED
    BY <1>1, <2>1
<1>5. QED
  BY <1>2, <1>3, <1>4

-----------------------------------------------------------------------------
(* Verdicts, answers, decisions and executions.                            *)

\* A verdict is of its case: only its recording adds one, and cases stay.
LEMMA StepKeepsVerdicts ==
    ASSUME DInv, [Next]_vars, RowsStay, NEW q \in Request
    PROVE  VerdictOfCase(q)'
<1>1. CASE verdicts'[q] = verdicts[q]
  BY <1>1 DEF DInv, VerdictOfCase, RowsStay
<1>2. CASE verdicts'[q] # verdicts[q]
  <2>1. PICK r \in Reviewer : recordAiDecision(r)
    <3>1. CASE Reading \/ UNCHANGED vars
      BY <1>2, <3>1, ReadingKeeps DEF vars, database
    <3>2. CASE \E a \in Analyst : recordBaDecisionForCase(a) \/ recordDryRunExecution(a)
      BY <1>2, <3>2 DEF recordBaDecisionForCase, recordDryRunExecution
    <3>3. CASE \E r \in Reviewer : createDecisionCase(r)
      BY <1>2, <3>3 DEF createDecisionCase
    <3>4. QED
      BY <3>1, <3>2, <3>3 DEF Next, Review, Desk, Reading
  <2>2. /\ cases[Asked(r)] # None
        /\ review[r].result \in {cases[Asked(r)].task, Unavailable}
    BY <2>1 DEF DInv, Held, recordAiDecision, At, Committed
  <2>3. Asked(r) = q /\ verdicts'[q] = review[r].result
    BY <1>2, <2>1 DEF recordAiDecision, KeptVerdict, DInv, TypeOK
  <2>4. QED
    BY <2>2, <2>3 DEF VerdictOfCase, RowsStay
<1>3. QED
  BY <1>1, <1>2

\* What was shown is stored: an answer adds the case with its verdict.
LEMMA StepKeepsShown ==
    ASSUME DInv, [Next]_vars, RowsStay, NEW q \in Request
    PROVE  ShownIsStored(q)'
<1>1. CASE shown'[q] = shown[q]
  BY <1>1 DEF DInv, ShownIsStored, VerdictOfCase, RowsStay
<1>2. CASE shown'[q] # shown[q]
  <2>1. PICK r \in Reviewer : Lookup(r) \/ Reread(r) \/ AnswerReview(r)
    <3>1. CASE UNCHANGED shown
      BY <1>2, <3>1
    <3>2. \/ UNCHANGED shown
          \/ \E r \in Reviewer : Lookup(r) \/ Reread(r) \/ AnswerReview(r)
      BY DEF Next, Review, Desk, WriteOrders, CompleteRun, appendAiTaskConfigRevision,
             StartReview, ReadFacts, ReadRun, resolveRequestedAiTask, createDecisionCase,
             aiClientForCase, Recommend, recordAiDecision, Restart, Decide, Execute, Begin,
             recordBaDecisionForCase, ReadLatest, recordDryRunExecution, Lose, vars
    <3>3. QED
      BY <3>1, <3>2
  <2>2. Answer(r) /\ UNCHANGED <<cases, verdicts>>
    BY <1>2, <2>1 DEF Lookup, Reread, AnswerReview, database
  <2>3. verdicts[Asked(r)] # None
    BY <1>2, <2>1 DEF Lookup, Reread, AnswerReview, DInv, Held
  <2>4. Asked(r) = q /\ shown'[q] = shown[q] \cup {<<cases[q], verdicts[q]>>}
    BY <1>2, <2>2 DEF Answer, DInv, TypeOK
  <2>5. QED
    BY <2>2, <2>3, <2>4 DEF DInv, ShownIsStored
<1>3. QED
  BY <1>1, <1>2

\* A decision that was the n-th of its case stays it.
LEMMA PauseStays ==
    ASSUME TypeOK, TypeOK', RowsStay, NEW q \in Request, NEW n \in Nat, NEW m \in Nat,
           IsPause(q, n, m)
    PROVE  IsPause(q, n, m)'
<1>1. decisions[q] \in Seq(Revision) /\ decisions'[q] \in Seq(Revision)
  BY DEF TypeOK
<1>2. Len(decisions[q]) \in Nat /\ Len(decisions[q]) <= Len(decisions'[q])
  BY <1>1 DEF RowsStay
<1>3. n \in 1 .. Len(decisions[q]) /\ decisions'[q][n] = decisions[q][n]
  BY DEF RowsStay, IsPause
<1>4. QED
  BY <1>1, <1>2, <1>3 DEF IsPause

\* What an analyst's call knows of the decisions stays true, and its own step
\* reads what it needs to know next.
LEMMA StepKeepsDesk ==
    ASSUME DInv, TypeOK', [Next]_vars, RowsStay, NEW a \in Analyst
    PROVE  HeldByDesk(a)'
<1>1. CASE desk'[a] = Idle
  BY <1>1 DEF HeldByDesk, Idle
<1>2. CASE desk'[a] = desk[a] /\ desk[a] # Idle
  <2>1. desk[a] \in AtDesk
    BY <1>2 DEF DInv, TypeOK
  <2>2. desk[a].case \in Request
    BY <2>1 DEF AtDesk
  <2>3. CASE desk[a].step = "latest"
    <3>1. desk[a].since \in Nat
      BY <2>1, <2>3 DEF AtDesk
    <3>2. /\ Len(decisions[desk[a].case]) \in Nat /\ Len(decisions'[desk[a].case]) \in Nat
          /\ Len(decisions[desk[a].case]) <= Len(decisions'[desk[a].case])
      BY <2>2 DEF DInv, TypeOK, RowsStay
    <3>3. desk[a].since <= Len(decisions[desk[a].case])
      BY <2>3 DEF DInv, HeldByDesk
    <3>4. desk[a].since <= Len(decisions'[desk[a].case])
      BY <3>1, <3>2, <3>3
    <3>5. QED
      BY <1>2, <2>3, <3>4 DEF HeldByDesk
  <2>4. CASE desk[a].step = "execute"
    <3>1. desk[a].since \in Nat /\ desk[a].decision \in Nat
      BY <2>1, <2>4 DEF AtDesk
    <3>2. IsPause(desk[a].case, desk[a].decision, desk[a].since)
      BY <2>4 DEF DInv, HeldByDesk
    <3>3. TypeOK
      BY DEF DInv
    <3>4. PICK q \in Request, n \in Nat, m \in Nat :
             q = desk[a].case /\ n = desk[a].decision /\ m = desk[a].since
      BY <2>2, <3>1
    <3>5. IsPause(q, n, m)
      BY <3>2, <3>4
    <3>6. IsPause(q, n, m)'
      BY <3>3, <3>5, PauseStays
    <3>7. QED
      BY <1>2, <2>4, <3>4, <3>6 DEF HeldByDesk, IsPause
  <2>5. QED
    BY <1>2, <2>3, <2>4 DEF HeldByDesk
<1>3. CASE desk'[a] # desk[a] /\ desk'[a] # Idle
  <2>1. PICK p \in Analyst :
           \/ \E q \in Request, b \in DecisionId, d \in Decision : Decide(p, q, b, d)
           \/ \E q \in Request, x \in ExecutionId : Execute(p, q, x)
           \/ ReadLatest(p) \/ recordBaDecisionForCase(p) \/ recordDryRunExecution(p)
           \/ Lose(p)
    <3>1. \/ UNCHANGED desk
          \/ \E p \in Analyst : Desk(p)
      BY DEF Next, Review, WriteOrders, CompleteRun, appendAiTaskConfigRevision,
             StartReview, Lookup, Reread, AnswerReview, ReadFacts, ReadRun,
             resolveRequestedAiTask, createDecisionCase, aiClientForCase, Recommend,
             recordAiDecision, Restart, vars
    <3>2. QED
      BY <1>3, <3>1 DEF Desk
  <2>2. CASE \E q \in Request, b \in DecisionId, d \in Decision : Decide(p, q, b, d)
    <3>1. desk'[a].step = "decide"
      BY <1>3, <2>2 DEF Decide, Begin, DInv, TypeOK
    <3>2. QED
      BY <3>1 DEF HeldByDesk
  <2>3. CASE \E q \in Request, x \in ExecutionId : Execute(p, q, x)
    <3>1. PICK q \in Request, x \in ExecutionId : Execute(p, q, x)
      BY <2>3
    <3>2. /\ desk'[a].step = "latest" /\ desk'[a].case = q
          /\ desk'[a].since = Len(decisions[q]) /\ decisions' = decisions
      BY <1>3, <3>1 DEF Execute, Begin, DInv, TypeOK, database
    <3>3. Len(decisions[q]) \in Nat
      BY DEF DInv, TypeOK
    <3>4. QED
      BY <3>2, <3>3 DEF HeldByDesk
  <2>4. CASE ReadLatest(p)
    <3>1. p = a
      BY <1>3, <2>4 DEF ReadLatest, DInv, TypeOK
    <3>2. desk[a] \in [step : {"latest"}, case : Request, id : ExecutionId, since : Nat]
      BY <2>4, <3>1 DEF ReadLatest, DInv, TypeOK, AtDesk, Idle
    <3>3. PICK n : n = Len(decisions[desk[a].case])
      OBVIOUS
    <3>4. /\ n > 0 /\ decisions[desk[a].case][n].decision = "PAUSE"
          /\ desk' = [desk EXCEPT ![a] =
               [step |-> "execute", case |-> desk[a].case, id |-> desk[a].id,
                since |-> desk[a].since, decision |-> n]]
          /\ decisions' = decisions
      BY <1>3, <2>4, <3>1, <3>3 DEF ReadLatest, LatestDecision, DInv, TypeOK, database
    <3>5. n \in 1 .. Len(decisions[desk[a].case])
      BY <3>2, <3>3, <3>4 DEF DInv, TypeOK
    <3>6. desk[a].since <= n
      BY <3>2, <3>3 DEF DInv, HeldByDesk
    <3>7. /\ desk'[a].step = "execute" /\ desk'[a].case = desk[a].case
          /\ desk'[a].since = desk[a].since /\ desk'[a].decision = n
      BY <3>4 DEF DInv, TypeOK
    <3>8. QED
      BY <3>4, <3>5, <3>6, <3>7 DEF HeldByDesk, IsPause
  <2>5. CASE recordBaDecisionForCase(p) \/ recordDryRunExecution(p) \/ Lose(p)
    BY <1>3, <2>5 DEF recordBaDecisionForCase, recordDryRunExecution, Lose, DInv, TypeOK
  <2>6. QED
    BY <2>1, <2>2, <2>3, <2>4, <2>5
<1>4. QED
  BY <1>1, <1>2, <1>3

\* An execution stays bound to its decision: it is inserted for the one its
\* call holds.
LEMMA StepKeepsExecutions ==
    ASSUME DInv, TypeOK', [Next]_vars, RowsStay, NEW x \in ExecutionId
    PROVE  ExecutionIsBound(x)'
<1>0. TypeOK
  BY DEF DInv
<1>1. CASE executions'[x] = executions[x] /\ executions[x] # None
  <2>1. executions[x] \in [case : Request, decision : Nat, since : Nat]
    BY <1>0, <1>1 DEF TypeOK
  <2>2. PICK q \in Request, n \in Nat, m \in Nat :
           /\ q = executions[x].case /\ n = executions[x].decision
           /\ m = executions[x].since
    BY <2>1
  <2>3. IsPause(q, n, m)
    BY <1>1, <2>2 DEF DInv, ExecutionIsBound
  <2>4. IsPause(q, n, m)'
    BY <1>0, <2>3, PauseStays
  <2>5. QED
    BY <1>1, <2>2, <2>4 DEF ExecutionIsBound, IsPause
<1>2. CASE executions'[x] = None
  BY <1>2 DEF ExecutionIsBound
<1>3. CASE executions'[x] # executions[x]
  <2>1. PICK a \in Analyst : recordDryRunExecution(a)
    <3>1. CASE Reading \/ UNCHANGED vars
      BY <1>3, <3>1, ReadingKeeps DEF vars, database
    <3>2. CASE \E r \in Reviewer : createDecisionCase(r) \/ recordAiDecision(r)
      BY <1>3, <3>2 DEF createDecisionCase, recordAiDecision
    <3>3. CASE \E a \in Analyst : recordBaDecisionForCase(a)
      BY <1>3, <3>3 DEF recordBaDecisionForCase
    <3>4. QED
      BY <3>1, <3>2, <3>3 DEF Next, Review, Desk, Reading
  <2>2. desk[a] \in [step : {"execute"}, case : Request, id : ExecutionId, since : Nat,
                     decision : Nat]
    BY <1>0, <2>1 DEF recordDryRunExecution, TypeOK, AtDesk, Idle
  <2>3. IsPause(desk[a].case, desk[a].decision, desk[a].since)
    BY <2>1 DEF recordDryRunExecution, DInv, HeldByDesk
  <2>4. /\ executions'[x] = [case |-> desk[a].case, decision |-> desk[a].decision,
                             since |-> desk[a].since]
        /\ decisions' = decisions
    BY <1>0, <1>3, <2>1 DEF recordDryRunExecution, TypeOK
  <2>5. PICK q \in Request, n \in Nat, m \in Nat :
           q = desk[a].case /\ n = desk[a].decision /\ m = desk[a].since
    BY <2>2
  <2>6. IsPause(q, n, m)'
    BY <2>3, <2>4, <2>5 DEF IsPause
  <2>7. QED
    BY <2>4, <2>5, <2>6 DEF ExecutionIsBound, IsPause
<1>4. QED
  BY <1>1, <1>2, <1>3

-----------------------------------------------------------------------------
(* The theorems.                                                           *)

\* The empty database.
LEMMA InitHolds ==
    ASSUME Init
    PROVE  DInv
<1>1. TypeOK
  <2>1. 0 \in 0 .. MaxVersion /\ 0 \in 0 .. MaxRevision /\ 0 \in 0 .. MaxReviews
        /\ 0 \in 0 .. MaxDesk
    BY DecisionConstants
  <2>2. \A q \in Request : decisions[q] \in Seq(Revision)
    BY DEF Init
  <2>3. QED
    BY <2>1, <2>2 DEF Init, TypeOK
<1>2. \A r \in Reviewer : Held(r)
  BY DEF Init, Held, At, Idle, Committed
<1>3. \A q \in Request : VerdictOfCase(q) /\ ShownIsStored(q)
  BY DEF Init, VerdictOfCase, ShownIsStored
<1>4. \A a \in Analyst : HeldByDesk(a)
  BY DEF Init, HeldByDesk, Idle
<1>5. \A x \in ExecutionId : ExecutionIsBound(x)
  BY DEF Init, ExecutionIsBound
<1>6. QED
  BY <1>1, <1>2, <1>3, <1>4, <1>5 DEF DInv

\* Every step keeps the invariant.
LEMMA StepKeeps ==
    ASSUME DInv, [Next]_vars
    PROVE  DInv'
<1>1. RowsStay
  BY StepKeepsRows DEF DInv
<1>2. TypeOK'
  BY StepKeepsTypes
<1>3. ASSUME NEW p \in Reviewer
      PROVE  Held(p)'
  <2>1. TypeOK /\ Held(p)
    BY DEF DInv
  <2>2. CASE review'[p] = review[p]
    BY <1>1, <2>1, <2>2, WaitingHolds
  <2>3. CASE review'[p] # review[p]
    <3>1. PICK r \in Reviewer : Review(r)
      BY <2>3 DEF Next, Desk, WriteOrders, CompleteRun, appendAiTaskConfigRevision, Decide,
                  Execute, Begin, recordBaDecisionForCase, ReadLatest,
                  recordDryRunExecution, Lose, vars
    <3>2. r = p
      BY <2>1, <2>3, <3>1, OneReview
    <3>3. QED
      BY <1>1, <2>1, <3>1, <3>2, StepHolds
  <2>4. QED
    BY <2>2, <2>3
<1>4. QED
  BY <1>1, <1>2, <1>3, StepKeepsVerdicts, StepKeepsShown, StepKeepsDesk,
     StepKeepsExecutions DEF DInv

LEMMA Invariant == Spec => []DInv
<1>1. Init => DInv
  BY InitHolds
<1>2. DInv /\ [Next]_vars => DInv'
  BY StepKeeps
<1>3. QED
  BY <1>1, <1>2, PTL DEF Spec

\* The columns of the tables and the locals of the calls.
THEOREM TypeCorrect == Spec => []TypeOK
<1>1. DInv => TypeOK
  BY DEF DInv
<1>2. QED
  BY <1>1, Invariant, PTL

\* All calls of one review request return the same case and verdict
\* (createDecisionCase, recordAiDecision of queries/decisions.ts).
THEOREM AgreementCorrect == Spec => []ReviewsAgree
<1>1. ASSUME DInv, NEW q \in Request
      PROVE  Cardinality(shown[q]) <= 1
  <2>1. CASE shown[q] = {}
    BY <2>1, FS_EmptySet
  <2>2. CASE shown[q] # {}
    <3>1. shown[q] = {<<cases[q], verdicts[q]>>}
      BY <1>1, <2>2 DEF DInv, ShownIsStored
    <3>2. Cardinality(shown[q]) = 1
      BY <3>1, FS_Singleton
    <3>3. QED
      BY <3>2
  <2>3. QED
    BY <2>1, <2>2
<1>2. DInv => ReviewsAgree
  BY <1>1 DEF ReviewsAgree
<1>3. QED
  BY <1>2, Invariant, PTL

\* A verdict an AI gave is of the task its case froze (aiClientForCase of
\* decision-workflow/persisted.ts).
THEOREM FrozenTaskCorrect == Spec => []AiUsedFrozenTask
<1>1. DInv => AiUsedFrozenTask
  BY DEF DInv, VerdictOfCase, AiUsedFrozenTask
<1>2. QED
  BY <1>1, Invariant, PTL

\* A dry run is of a PAUSE that was the newest decision at some instant of its
\* call (execute of workflow.ts, recordDryRunExecution of queries/decisions.ts).
THEOREM DryRunsCorrect == Spec => []DryRunsAreCurrent
<1>1. DInv => DryRunsAreCurrent
  <2>1. SUFFICES ASSUME DInv, NEW x \in ExecutionId, executions[x] # None
                 PROVE  /\ decisions[executions[x].case][executions[x].decision].decision
                             = "PAUSE"
                        /\ executions[x].decision >= executions[x].since
    BY DEF DryRunsAreCurrent
  <2>2. executions[x] \in [case : Request, decision : Nat, since : Nat]
    BY <2>1 DEF DInv, TypeOK
  <2>3. IsPause(executions[x].case, executions[x].decision, executions[x].since)
    BY <2>1 DEF DInv, ExecutionIsBound
  <2>4. QED
    BY <2>2, <2>3 DEF IsPause
<1>2. QED
  BY <1>1, Invariant, PTL

\* No step of any process alters a case, a verdict, an execution or an earlier
\* decision (the inserts of queries/decisions.ts, all on conflict do nothing).
THEOREM RowsAreFinal == Spec => [][RowsStay]_vars
<1>1. DInv /\ [Next]_vars => [RowsStay]_vars
  BY StepKeepsRows DEF DInv
<1>2. QED
  BY <1>1, Invariant, PTL DEF Spec
=============================================================================
