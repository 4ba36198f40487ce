--------------------------- MODULE DecisionCases ---------------------------
(***************************************************************************)
(* Decision cases: packages/decision-workflow (workflow.ts, persisted.ts), *)
(* packages/db/src/queries/decisions.ts and the BA endpoint of the         *)
(* dashboard.  A review freezes the facts of a shop and the AI task it     *)
(* asks for into an immutable case, asks that task for a verdict and files *)
(* the verdict once; analysts then append decisions to the case, and a     *)
(* dry-run execution is bound to one of these decisions.                   *)
(*                                                                         *)
(* Reviewers (CLI processes, the dashboard) and analysts share only the    *)
(* database; every statement commits on its own, so calls interleave       *)
(* between any two of them, any call may die, and any call may be made     *)
(* again with the request id it had.                                       *)
(*                                                                         *)
(* Orders, snapshots and policies are abstracted to the version of the     *)
(* shop's order population they describe; an AI task to its source and its *)
(* revision (PERSISTED) or its model (ENVIRONMENT).                        *)
(***************************************************************************)
EXTENDS Naturals, Sequences, FiniteSets

CONSTANTS
    Reviewer,     \* processes that start reviews
    Analyst,      \* processes that decide and execute
    Shop,
    Request,      \* review request ids
    DecisionId,   \* request ids of BA decisions
    ExecutionId,  \* request ids of executions
    Model,        \* what an environment may name: provider, model and secret
    MaxVersion,   \* bound: versions of a shop's orders
    MaxRevision,  \* bound: revisions of the persisted AI task
    MaxReviews,   \* bound: calls of startReview
    MaxDesk,      \* bound: calls of the analysts
    None          \* no row

VARIABLES
    stored,       \* stored[s]: the version of the orders in the database
    proven,       \* proven[s]: the version the latest SUCCEEDED run captured
    revision,     \* revision of the AI task in effect, 0 while none is persisted
    environment,  \* environment[r]: the model the environment of r names
    cases,        \* decision_cases, by request id
    verdicts,     \* ai_decisions, by the request id of their case
    decisions,    \* ba_decisions of a case, oldest first
    executions,   \* decision_executions, by request id
    review,       \* a reviewer's call: step, input, reads, AI task, AI result
    desk,         \* an analyst's call
    shown,        \* shown[q]: the views calls for request q have returned
    reviews, calls
                  \* calls made, for the bounds

database == <<stored, proven, revision, cases, verdicts, decisions, executions>>
vars == <<database, environment, review, desk, shown, reviews, calls>>

Persisted(n) == [source |-> "PERSISTED", id |-> n]
Environment(m) == [source |-> "ENVIRONMENT", id |-> m]
Task == [source : {"PERSISTED"}, id : 1 .. MaxRevision]
          \cup [source : {"ENVIRONMENT"}, id : Model]
Unavailable == [source |-> "UNAVAILABLE", id |-> None]
Decision == {"PAUSE", "CONTINUE"}

Case == [shop : Shop, facts : 0 .. MaxVersion, run : 0 .. MaxVersion, task : Task]
Revision == [id : DecisionId, decision : Decision]
Unread == MaxVersion + 1
Steps == {"lookup", "load", "create", "reread", "client", "recommend",
          "record", "answer"}
InReview ==
    [step : Steps, shop : Shop, request : Request, facts : 0 .. Unread, run : 0 .. Unread,
     task : Task \cup {Unavailable, None}, result : Task \cup {Unavailable, None}]
AtDesk ==
    [step : {"decide"}, case : Request, id : DecisionId, decision : Decision]
      \cup [step : {"latest"}, case : Request, id : ExecutionId, since : Nat]
      \cup [step : {"execute"}, case : Request, id : ExecutionId, since : Nat, decision : Nat]
Idle == [step |-> "idle"]

\* The bounds are numbers, and no row can be taken for the absence of one.
ASSUME DecisionConstants ==
    /\ {MaxVersion, MaxRevision, MaxReviews, MaxDesk} \subseteq Nat
    /\ None \notin Case \cup Task \cup {Unavailable}

\* The types of the variables.
TypeOK ==
    /\ stored \in [Shop -> 0 .. MaxVersion]
    /\ proven \in [Shop -> 0 .. MaxVersion]
    /\ revision \in 0 .. MaxRevision
    /\ environment \in [Reviewer -> Model]
    /\ cases \in [Request -> Case \cup {None}]
    /\ verdicts \in [Request -> Task \cup {Unavailable, None}]
    /\ decisions \in [Request -> Seq(Revision)]
    /\ executions \in [ExecutionId -> [case : Request, decision : Nat, since : Nat] \cup {None}]
    /\ review \in [Reviewer -> InReview \cup {Idle}]
    /\ desk \in [Analyst -> AtDesk \cup {Idle}]
    /\ DOMAIN shown = Request
    /\ \A q \in Request : shown[q] \subseteq Case \X (Task \cup {Unavailable})
    /\ reviews \in 0 .. MaxReviews
    /\ calls \in 0 .. MaxDesk

Init ==
    /\ stored = [s \in Shop |-> 0]
    /\ proven = stored
    /\ revision = 0
    /\ environment \in [Reviewer -> Model]
    /\ cases = [q \in Request |-> None]
    /\ verdicts = [q \in Request |-> None]
    /\ decisions = [q \in Request |-> <<>>]
    /\ executions = [x \in ExecutionId |-> None]
    /\ review = [r \in Reviewer |-> Idle]
    /\ desk = [a \in Analyst |-> Idle]
    /\ shown = [q \in Request |-> {}]
    /\ reviews = 0
    /\ calls = 0

----------------------------------------------------------------------------
(* The surroundings: order syncs and the operators of the AI task.         *)

\* A sync commits a batch of orders, and only later marks its run SUCCEEDED.
WriteOrders(s) ==
    /\ stored[s] = proven[s] /\ stored[s] < MaxVersion
    /\ stored' = [stored EXCEPT ![s] = @ + 1]
    /\ UNCHANGED <<proven, revision, environment, cases, verdicts, decisions,
                   executions, review, desk, shown, reviews, calls>>

CompleteRun(s) ==
    /\ proven[s] < stored[s]
    /\ proven' = [proven EXCEPT ![s] = stored[s]]
    /\ UNCHANGED <<stored, revision, environment, cases, verdicts, decisions,
                   executions, review, desk, shown, reviews, calls>>

\* The operator appends a revision of the AI task; earlier ones stay.
appendAiTaskConfigRevision ==
    /\ revision < MaxRevision
    /\ revision' = revision + 1
    /\ UNCHANGED <<stored, proven, environment, cases, verdicts, decisions,
                   executions, review, desk, shown, reviews, calls>>

\* A process is started again, perhaps with another environment; the call it
\* was in is lost.
Restart(r, m) ==
    /\ review[r] # Idle
    /\ environment' = [environment EXCEPT ![r] = m]
    /\ review' = [review EXCEPT ![r] = Idle]
    /\ UNCHANGED <<database, desk, shown, reviews, calls>>

----------------------------------------------------------------------------
(* startReview                                                             *)

At(r, step) == review[r].step = step
Goto(r, step) == review' = [review EXCEPT ![r].step = step]
Fail(r) == review' = [review EXCEPT ![r] = Idle]
Asked(r) == review[r].request

\* The call returns the view of its request: the case and its verdict.
Answer(r) ==
    /\ shown' = [shown EXCEPT ![Asked(r)] =
                    @ \cup {<<cases[Asked(r)], verdicts[Asked(r)]>>}]
    /\ review' = [review EXCEPT ![r] = Idle]

StartReview(r, s, q) ==
    /\ review[r] = Idle /\ reviews < MaxReviews
    /\ reviews' = reviews + 1
    /\ review' = [review EXCEPT ![r] =
          [step |-> "lookup", shop |-> s, request |-> q, facts |-> Unread,
           run |-> Unread, task |-> None, result |-> None]]
    /\ UNCHANGED <<database, environment, desk, shown, calls>>

\* A request id that has a case is answered from it; of another shop, refused.
Lookup(r) ==
    /\ At(r, "lookup")
    /\ LET row == cases[Asked(r)]
       IN  \/ row = None /\ Goto(r, "load") /\ UNCHANGED shown
           \/ row # None /\ row.shop # review[r].shop /\ Fail(r) /\ UNCHANGED shown
           \/ /\ row # None /\ row.shop = review[r].shop
              /\ \/ verdicts[Asked(r)] = None /\ Goto(r, "client") /\ UNCHANGED shown
                 \/ verdicts[Asked(r)] # None /\ Answer(r)
    /\ UNCHANGED <<database, environment, desk, reviews, calls>>

\* The order facts and the latest successful run are two of the nine queries
\* of one Promise.all: each on a connection of its own, in either order.
ReadFacts(r) ==
    /\ At(r, "load") /\ review[r].facts = Unread
    /\ review' = [review EXCEPT ![r].facts = stored[review[r].shop]]
    /\ UNCHANGED <<database, environment, desk, shown, reviews, calls>>

ReadRun(r) ==
    /\ At(r, "load") /\ review[r].run = Unread
    /\ review' = [review EXCEPT ![r].run = proven[review[r].shop]]
    /\ UNCHANGED <<database, environment, desk, shown, reviews, calls>>

\* The persisted revision in effect, and the process's environment without one.
CurrentTask(r) ==
    IF revision = 0 THEN Environment(environment[r]) ELSE Persisted(revision)

resolveRequestedAiTask(r) ==
    /\ At(r, "load") /\ review[r].facts # Unread /\ review[r].run # Unread
    /\ review' = [review EXCEPT ![r].task = CurrentTask(r), ![r].step = "create"]
    /\ UNCHANGED <<database, environment, desk, shown, reviews, calls>>

\* insert .. on conflict (request_id) do nothing; the row of a racing call is
\* taken over when it is of the same shop.
createDecisionCase(r) ==
    /\ At(r, "create")
    /\ \/ /\ cases[Asked(r)] = None
          /\ cases' = [cases EXCEPT ![Asked(r)] =
                          [shop |-> review[r].shop, facts |-> review[r].facts,
                           run |-> review[r].run, task |-> review[r].task]]
          /\ Goto(r, "reread")
       \/ /\ cases[Asked(r)] # None
          /\ IF cases[Asked(r)].shop = review[r].shop THEN Goto(r, "reread") ELSE Fail(r)
          /\ UNCHANGED cases
    /\ UNCHANGED <<stored, proven, revision, verdicts, decisions, executions,
                   environment, desk, shown, reviews, calls>>

Reread(r) ==
    /\ At(r, "reread")
    /\ \/ verdicts[Asked(r)] = None /\ Goto(r, "client") /\ UNCHANGED shown
       \/ verdicts[Asked(r)] # None /\ Answer(r)
    /\ UNCHANGED <<database, environment, desk, reviews, calls>>

CurrentClient(r, frozen) == CurrentTask(r)  \* mutant

\* The client that asks the task the case froze: its persisted revision, or
\* the environment when it still names what the case froze.
ClientFor(r, frozen) ==
    IF frozen.source = "PERSISTED" \/ frozen = Environment(environment[r])
    THEN frozen
    ELSE Unavailable

aiClientForCase(r) ==
    /\ At(r, "client")
    /\ review' = [review EXCEPT ![r].task = ClientFor(r, cases[Asked(r)].task),
                                ![r].step = "recommend"]
    /\ UNCHANGED <<database, environment, desk, shown, reviews, calls>>

\* The provider answers, or every failure becomes an UNAVAILABLE verdict.
Recommend(r) ==
    /\ At(r, "recommend")
    /\ \E answer \in {review[r].task, Unavailable} :
          review' = [review EXCEPT ![r].result = answer, ![r].step = "record"]
    /\ UNCHANGED <<database, environment, desk, shown, reviews, calls>>

LastVerdict(recorded, new) == new  \* mutant

\* insert .. on conflict do nothing: the first verdict of a case stays.
KeptVerdict(recorded, new) == IF recorded = None THEN new ELSE recorded

recordAiDecision(r) ==
    /\ At(r, "record")
    /\ verdicts' = [verdicts EXCEPT ![Asked(r)] = KeptVerdict(@, review[r].result)]
    /\ Goto(r, "answer")
    /\ UNCHANGED <<stored, proven, revision, cases, decisions, executions,
                   environment, desk, shown, reviews, calls>>

AnswerReview(r) ==
    /\ At(r, "answer")
    /\ Answer(r)
    /\ UNCHANGED <<database, environment, desk, reviews, calls>>

----------------------------------------------------------------------------
(* The analysts' calls                                                     *)

Begin(a, call) ==
    /\ desk[a] = Idle /\ calls < MaxDesk
    /\ calls' = calls + 1
    /\ desk' = [desk EXCEPT ![a] = call]
    /\ UNCHANGED <<database, environment, review, shown, reviews>>

\* The analyst submits a decision on a case: the dashboard has read the case
\* and found its profile READY, the CLI records at once.
Decide(a, q, b, decision) ==
    /\ cases[q] # None
    /\ Begin(a, [step |-> "decide", case |-> q, id |-> b, decision |-> decision])

Recorded(b) == {q \in Request : \E i \in DOMAIN decisions[q] : decisions[q][i].id = b}

\* insert .. on conflict (request_id) do nothing: an id that is taken adds
\* nothing, whether its row is the same input's (a retry) or not (an error).
recordBaDecisionForCase(a) ==
    /\ desk[a].step = "decide"
    /\ decisions' =
          IF Recorded(desk[a].id) = {}
          THEN [decisions EXCEPT ![desk[a].case] =
                   Append(@, [id |-> desk[a].id, decision |-> desk[a].decision])]
          ELSE decisions
    /\ desk' = [desk EXCEPT ![a] = Idle]
    /\ UNCHANGED <<stored, proven, revision, cases, verdicts, executions,
                   environment, review, shown, reviews, calls>>

\* The analyst confirms a dry run of the case.  `since' is how many decisions
\* the case had then (it is no state of the code).
Execute(a, q, x) ==
    /\ cases[q] # None
    /\ Begin(a, [step |-> "latest", case |-> q, id |-> x, since |-> Len(decisions[q])])

OldestDecision(q) == IF decisions[q] = <<>> THEN 0 ELSE 1  \* mutant

\* The decision a review shows as the current one: the newest row.
LatestDecision(q) == Len(decisions[q])

\* execute reads the case and needs its current decision to be PAUSE.
ReadLatest(a) ==
    /\ desk[a].step = "latest"
    /\ LET n == LatestDecision(desk[a].case)
       IN  desk' = [desk EXCEPT ![a] =
              IF n > 0 /\ decisions[desk[a].case][n].decision = "PAUSE"
              THEN [step |-> "execute", case |-> desk[a].case, id |-> desk[a].id,
                    since |-> desk[a].since, decision |-> n]
              ELSE Idle]
    /\ UNCHANGED <<database, environment, review, shown, reviews, calls>>

\* A transaction of its own checks the decision it was given, not whether it
\* is still the newest, and inserts on conflict (request_id) do nothing.
recordDryRunExecution(a) ==
    /\ desk[a].step = "execute"
    /\ executions' = [executions EXCEPT ![desk[a].id] =
          IF @ = None /\ decisions[desk[a].case][desk[a].decision].decision = "PAUSE"
          THEN [case |-> desk[a].case, decision |-> desk[a].decision, since |-> desk[a].since]
          ELSE @]
    /\ desk' = [desk EXCEPT ![a] = Idle]
    /\ UNCHANGED <<stored, proven, revision, cases, verdicts, decisions,
                   environment, review, shown, reviews, calls>>

\* The analyst's call dies.
Lose(a) ==
    /\ desk[a] # Idle
    /\ desk' = [desk EXCEPT ![a] = Idle]
    /\ UNCHANGED <<database, environment, review, shown, reviews, calls>>

----------------------------------------------------------------------------

Review(r) ==
    \/ \E s \in Shop, q \in Request : StartReview(r, s, q)
    \/ Lookup(r) \/ ReadFacts(r) \/ ReadRun(r)
    \/ resolveRequestedAiTask(r) \/ createDecisionCase(r) \/ Reread(r)
    \/ aiClientForCase(r) \/ Recommend(r) \/ recordAiDecision(r) \/ AnswerReview(r)
    \/ \E m \in Model : Restart(r, m)

Desk(a) ==
    \/ \E q \in Request, b \in DecisionId, d \in Decision : Decide(a, q, b, d)
    \/ \E q \in Request, x \in ExecutionId : Execute(a, q, x)
    \/ recordBaDecisionForCase(a) \/ ReadLatest(a) \/ recordDryRunExecution(a)
    \/ Lose(a)

Next ==
    \/ \E s \in Shop : WriteOrders(s) \/ CompleteRun(s)
    \/ appendAiTaskConfigRevision
    \/ \E r \in Reviewer : Review(r)
    \/ \E a \in Analyst : Desk(a)

Spec == Init /\ [][Next]_vars

----------------------------------------------------------------------------
(* Properties                                                              *)

\* All calls made with one request id, whether they raced, were retried after
\* a crash or came later, return the same case with the same AI verdict: the
\* unique indexes decide which insert counts, and no caller shows its own.
ReviewsAgree == \A q \in Request : Cardinality(shown[q]) <= 1

\* A verdict an AI gave comes from the task the case froze, although the task
\* is revised and processes with other environments finish the review.
AiUsedFrozenTask ==
    \A q \in Request :
        verdicts[q] \notin {None, Unavailable} =>
            cases[q] # None /\ verdicts[q] = cases[q].task

\* A dry run is bound to a PAUSE decision of its own case, one that no
\* decision had replaced when its call began.
DryRunsAreCurrent ==
    \A x \in ExecutionId :
        executions[x] # None =>
            /\ decisions[executions[x].case][executions[x].decision].decision = "PAUSE"
            /\ executions[x].decision >= executions[x].since
=============================================================================
